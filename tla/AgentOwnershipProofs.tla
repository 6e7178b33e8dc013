------------------------ MODULE AgentOwnershipProofs ------------------------
(***************************************************************************)
(* Who holds a turn, who cuts it and who moves it on, in AgentActor, for   *)
(* every value of its constants.                                           *)
(***************************************************************************)
EXTENDS AgentActorProofs

-----------------------------------------------------------------------------
(* Ownership. *)

\* A ticket is live while some party holds its turn ...
HeldSomewhere ==
    \A t \in Ids :
       t \in tickets <=> \/ t \in Turns(operations) \/ t \in Turns(queue)
                         \/ t \in InHand \/ t \in Panicked
                         \/ \E c \in Callers : t \in Owed(c)

\* ... and no two parties hold it: not the deques, the runner and the
\* preparation tasks, ...
PlacesApart ==
    /\ \A t \in operations : t \notin queue /\ t # work /\ prep[t] \in {"none", "running"}
    /\ \A t \in queue : t # work /\ prep[t] = "none"
    /\ \A t \in InHand : prep[t] = "none"

\* ... and not the callers.
CallersApart ==
    \A c \in Callers :
       /\ todo[c] \cap drained[c] = {}
       /\ \A t \in Owed(c) :
             /\ t \notin operations \cup queue \cup InHand \cup Panicked
             /\ \A d \in Callers \ {c} : t \notin Owed(d)

\* Where a caller stands in its call says what it may still owe.
CallerStands ==
    \A c \in Callers :
       /\ phase[c] = "free" => todo[c] = {} /\ drained[c] = {}
       /\ phase[c] \in {"free", "fire", "drain"} => todo[c] = {} /\ publication[c] = NoId
       /\ phase[c] \in {"drain", "drained"} \/ call[c] = "close" => drained[c] = {}
       /\ phase[c] = "fire" => call[c] = "cancel_existing"
       /\ phase[c] = "drain" => call[c] = "close"
       /\ phase[c] # "free" /\ call[c] = "close" => lifecycle # "Open"

\* Only admitted operations are in the deques, in preparation or in hand.
AdmittedInv ==
    /\ \A i \in operations \cup queue : kind[i] # None
    /\ work # NoId => kind[work] # None
    /\ preparing # NoId => kind[preparing] # None
    /\ \A i \in Ids : prep[i] # "none" => Prepares

\* The slots of the actor name the work in the runner's hand or nothing.
SlotInv ==
    /\ pc \notin Holding => work = NoId
    /\ pc \in {"popped", "installed", "granted", "backend", "control", "retire"} =>
          processing = work
    /\ processing # NoId => /\ processing = work /\ pc \in Holding /\ pc # "publish"
                            /\ pc = "finish" => kind[work] # "Turn"
    /\ status # NoId => status = work /\ pc \in {"installed", "granted", "backend", "retire"}
    /\ active # NoId =>
          active = work /\ pc \in {"installed", "granted", "backend", "retire", "control"}
    /\ pc = "control" => kind[work] # "Turn"

OwnerInv ==
    /\ HeldSomewhere /\ PlacesApart /\ CallersApart
    /\ CallerStands /\ AdmittedInv /\ SlotInv

-----------------------------------------------------------------------------
(* Cuts. *)

\* A turn that waits was not cut, unless the actor closed; what a caller owes
\* was cut; what a failed preparation holds was not.
WaitingCut ==
    /\ \A t \in Ids : doomed[t] # None => kind[t] = "Turn"
    /\ \A t \in Turns(operations) : doomed[t] = None
    /\ \A t \in Turns(queue) : doomed[t] # None <=> lifecycle # "Open"
    /\ \A c \in Callers : \A t \in Owed(c) : doomed[t] # None
    /\ \A t \in Panicked : doomed[t] = None

\* The turn in hand was cut iff the runner will find out before it retains an
\* outcome: across the gap between pop and install, and to the very end.
HandCut ==
    /\ poppedGeneration <= cancellationGeneration
    /\ pc = "popped" /\ cancellationGeneration # poppedGeneration => processingReason # None
    /\ pc = "popped" /\ kind[work] = "Turn" =>
          (doomed[work] # None <=> processingReason # None \/ lifecycle # "Open")
    /\ pc \in {"installed", "granted", "backend"} =>
          /\ doomed[work] # None <=> processingReason # None
          /\ lifecycle # "Open" => processingReason # None
    /\ pc = "retire" =>
          (doomed[work] # None <=> processingReason # None \/ result \in Reasons)

\* A fired token, or one a caller is about to fire, is the token of a turn
\* that was cut.
TokenCut ==
    /\ \A t \in Ids : token[t] # None /\ kind[t] = "Turn" => doomed[t] # None
    /\ \A c \in Callers : victim[c] # NoId /\ kind[victim[c]] = "Turn" => doomed[victim[c]] # None
    /\ \A c \in Callers : victim[c] # NoId => kind[victim[c]] # None
    /\ \A t \in Ids : token[t] # None => kind[t] # None

CutInv == WaitingCut /\ HandCut /\ TokenCut /\ CancelledIffCut

-----------------------------------------------------------------------------
(* Progress of the work. *)

\* The deques and the work in hand are in admission order.
Order ==
    /\ RunsInAdmissionOrder
    /\ \A i \in queue, j \in operations : i < j

\* A runner that is about to wait, or waits, is told of what was queued and of
\* the end of the actor.
WakeInv ==
    /\ pc \in {"drained", "waiting"} /\ queue # {} => notifyToken
    /\ pc = "waiting" /\ lifecycle # "Open" =>
          notifyToken \/ \E c \in Callers : phase[c] # "free" /\ call[c] = "close"

\* A publication in flight has somebody who ends it.
PublisherLives ==
    /\ \A t \in publishing : \/ \E c \in Callers : publication[c] = t
                             \/ pc = "publish" /\ work = t
                             \/ prep[t] = "publishing"
    /\ \A i \in failing : prep[i] \in {"failing", "publishing", "failed"}

\* This caller will still ask whether the actor is idle.
WillAsk(c) ==
    /\ phase[c] # "free"
    /\ phase[c] = "drained" =>
          call[c] \in {"cancel_existing", "clear", "cancel_correlation", "close"}

\* Idle is owed only while somebody is left who will announce it.
IdleInv ==
    idlePending /\ lifecycle = "Open" =>
       \/ pc \in Holding \/ \E c \in Callers : WillAsk(c)
       \/ publishing # {} \/ failing # {} \/ operations # {} \/ queue # {} \/ tickets # {}

FlowInv == Order /\ HeadIsPrepared /\ WakeInv /\ PublisherLives /\ IdleInv

-----------------------------------------------------------------------------
(* The runner. *)

LEMMA RunnerPopOwner ==
    ASSUME LedgerInv, LedgerInv', OwnerInv, RunnerPop
    PROVE  OwnerInv'
<1>1. UNCHANGED <<lifecycle, kind, operations, preparing, prep, tickets, status, active, phase,
       call, todo, drained, publication>>
  BY DEF RunnerPop, lifeVars, admitVars, opVars, queueVars, ledgerVars, slotVars, cancelVars,
     runnerVars, callerVars
<1>2. PICK w \in queue : /\ \A v \in queue : w <= v /\ queue' = queue \ {w}
                      /\ work' = w /\ processing' = w /\ pc = "loop" /\ pc' = "popped"
  BY DEF RunnerPop
<1>3. w \in Ids /\ w # NoId /\ work = NoId
  BY <1>2, ActorAssumption DEF OwnerInv, SlotInv, Holding, LedgerInv, TypeInv, TypeOK, Ids, NoId
<1>4. HeldSomewhere'
  BY <1>1, <1>2, <1>3 DEF OwnerInv, HeldSomewhere, Turns, InHand, Panicked, Owed, LedgerInv,
     TypeInv, TypeOK
<1>5. PlacesApart'
  BY <1>1, <1>2, <1>3 DEF OwnerInv, PlacesApart, InHand, LedgerInv, TypeInv, TypeOK
<1>6. CallersApart'
  BY <1>1, <1>2, <1>3 DEF OwnerInv, CallersApart, InHand, Panicked, Owed, LedgerInv, TypeInv,
     TypeOK
<1>7. AdmittedInv'
  BY <1>1, <1>2, <1>3 DEF OwnerInv, AdmittedInv, LedgerInv, TypeInv, TypeOK
<1>8. SlotInv'
  BY <1>1, <1>2, <1>3 DEF OwnerInv, SlotInv, Holding, LedgerInv, TypeInv, TypeOK
<1>9. CallerStands'
  BY <1>1 DEF OwnerInv, CallerStands
<1> QED  BY <1>4, <1>5, <1>6, <1>7, <1>8, <1>9 DEF OwnerInv

LEMMA RunnerIdleOwner ==
    ASSUME LedgerInv, LedgerInv', OwnerInv, RunnerEmpty \/ RunnerWait \/ RunnerWake
    PROVE  OwnerInv'
<1>1. UNCHANGED <<lifecycle, kind, operations, preparing, prep, queue, tickets, status, active,
       processing, work, phase, call, todo, drained, publication>>
  BY DEF RunnerEmpty, RunnerWait, RunnerWake, RunnerOnly, lifeVars, admitVars, opVars, queueVars,
     ledgerVars, slotVars, cancelVars, runnerVars, callerVars
<1>2. pc \in {"loop", "drained", "waiting"} /\ pc' \in {"loop", "drained", "waiting", "exited"}
  BY DEF RunnerEmpty, RunnerWait, RunnerWake
<1>3. HeldSomewhere'
  BY <1>1, <1>2 DEF OwnerInv, HeldSomewhere, Turns, InHand, Panicked, Owed, LedgerInv, TypeInv,
     TypeOK
<1>4. PlacesApart'
  BY <1>1, <1>2 DEF OwnerInv, PlacesApart, InHand, LedgerInv, TypeInv, TypeOK
<1>5. CallersApart'
  BY <1>1, <1>2 DEF OwnerInv, CallersApart, InHand, Panicked, Owed, LedgerInv, TypeInv, TypeOK
<1>6. SlotInv'
  BY <1>1, <1>2 DEF OwnerInv, SlotInv, Holding, LedgerInv, TypeInv, TypeOK
<1>7. CallerStands' /\ AdmittedInv'
  BY <1>1 DEF OwnerInv, CallerStands, AdmittedInv
<1> QED  BY <1>3, <1>4, <1>5, <1>6, <1>7 DEF OwnerInv

LEMMA RunnerInstallOwner ==
    ASSUME LedgerInv, LedgerInv', OwnerInv, RunnerInstall
    PROVE  OwnerInv'
<1>1. UNCHANGED <<lifecycle, kind, operations, preparing, prep, queue, tickets, processing, work,
       phase, call, todo, drained, publication>>
  BY DEF RunnerInstall, RunnerTo, lifeVars, admitVars, opVars, queueVars, ledgerVars, slotVars,
     cancelVars, runnerVars, callerVars
<1>2. /\ pc = "popped" /\ kind[work] = "Turn"
      /\ \/ pc' = "retire" /\ UNCHANGED <<active, status>>
         \/ pc' = "installed" /\ active' = work /\ status' = work
  BY DEF RunnerInstall, RunnerTo
<1>3. HeldSomewhere'
  BY <1>1, <1>2 DEF OwnerInv, HeldSomewhere, Turns, InHand, Panicked, Owed, LedgerInv, TypeInv,
     TypeOK
<1>4. PlacesApart'
  BY <1>1, <1>2 DEF OwnerInv, PlacesApart, InHand, LedgerInv, TypeInv, TypeOK
<1>5. CallersApart'
  BY <1>1, <1>2 DEF OwnerInv, CallersApart, InHand, Panicked, Owed, LedgerInv, TypeInv, TypeOK
<1>6. SlotInv'
  BY <1>1, <1>2 DEF OwnerInv, SlotInv, Holding, LedgerInv, TypeInv, TypeOK
<1>7. CallerStands' /\ AdmittedInv'
  BY <1>1 DEF OwnerInv, CallerStands, AdmittedInv
<1> QED  BY <1>3, <1>4, <1>5, <1>6, <1>7 DEF OwnerInv

LEMMA RunnerTurnOwner ==
    ASSUME LedgerInv, LedgerInv', OwnerInv, RunnerPermit \/ RunnerRefused \/ RunnerStart \/ RunnerBackend
    PROVE  OwnerInv'
<1>1. UNCHANGED <<lifecycle, kind, operations, preparing, prep, queue, tickets, status, active,
       processing, work, phase, call, todo, drained, publication>>
  BY DEF RunnerPermit, RunnerRefused, RunnerStart, RunnerBackend, RunnerTo, lifeVars, admitVars,
     opVars, queueVars, ledgerVars, slotVars, cancelVars, runnerVars, callerVars
<1>2. /\ pc \in {"installed", "granted", "backend"} /\ kind[work] = "Turn"
      /\ pc' \in {"granted", "backend", "retire"}
  BY DEF RunnerPermit, RunnerRefused, RunnerStart, RunnerBackend, RunnerTo, LedgerInv, KindInv, TurnStates
<1>3. HeldSomewhere'
  BY <1>1, <1>2 DEF OwnerInv, HeldSomewhere, Turns, InHand, Panicked, Owed, LedgerInv, TypeInv,
     TypeOK
<1>4. PlacesApart'
  BY <1>1, <1>2 DEF OwnerInv, PlacesApart, InHand, LedgerInv, TypeInv, TypeOK
<1>5. CallersApart'
  BY <1>1, <1>2 DEF OwnerInv, CallersApart, InHand, Panicked, Owed, LedgerInv, TypeInv, TypeOK
<1>6. SlotInv'
  BY <1>1, <1>2 DEF OwnerInv, SlotInv, Holding, LedgerInv, TypeInv, TypeOK
<1>7. CallerStands' /\ AdmittedInv'
  BY <1>1 DEF OwnerInv, CallerStands, AdmittedInv
<1> QED  BY <1>3, <1>4, <1>5, <1>6, <1>7 DEF OwnerInv

LEMMA RunnerInterruptOwner ==
    ASSUME LedgerInv, LedgerInv', OwnerInv, RunnerInterrupt
    PROVE  OwnerInv'
<1>1. UNCHANGED <<lifecycle, kind, operations, preparing, prep, tickets, status, active,
       processing, pc, work, phase, call, todo, drained, publication>>
  BY DEF RunnerInterrupt, lifeVars, admitVars, opVars, queueVars, ledgerVars, slotVars,
     cancelVars, runnerVars, callerVars
<1>2. PICK w \in queue : kind[w] = "Compact" /\ queue' = queue \ {w}
  BY DEF RunnerInterrupt
<1>3. HeldSomewhere'
  BY <1>1, <1>2 DEF OwnerInv, HeldSomewhere, Turns, InHand, Panicked, Owed, LedgerInv, TypeInv,
     TypeOK
<1>4. PlacesApart'
  BY <1>1, <1>2 DEF OwnerInv, PlacesApart, InHand, LedgerInv, TypeInv, TypeOK
<1>5. CallersApart'
  BY <1>1, <1>2 DEF OwnerInv, CallersApart, InHand, Panicked, Owed, LedgerInv, TypeInv, TypeOK
<1>6. AdmittedInv'
  BY <1>1, <1>2 DEF OwnerInv, AdmittedInv, LedgerInv, TypeInv, TypeOK
<1>7. CallerStands' /\ SlotInv'
  BY <1>1 DEF OwnerInv, CallerStands, SlotInv, Holding
<1> QED  BY <1>3, <1>4, <1>5, <1>6, <1>7 DEF OwnerInv

LEMMA RunnerRetireOwner ==
    ASSUME LedgerInv, LedgerInv', OwnerInv, RunnerRetire
    PROVE  OwnerInv'
<1>1. UNCHANGED <<lifecycle, kind, operations, preparing, prep, queue, work, phase, call, todo,
       drained, publication>>
  BY DEF RunnerRetire, lifeVars, admitVars, opVars, queueVars, ledgerVars, slotVars, cancelVars,
     runnerVars, callerVars
<1>2. /\ pc = "retire" /\ pc' \in {"publish", "finish"} /\ (pc' = "finish" => outcomes[work] # None)
      /\ active' = NoId /\ processing' = NoId /\ status' = NoId
  BY DEF RunnerRetire
<1>3. work \in Ids /\ kind[work] = "Turn" /\ work \in tickets
  BY <1>2 DEF OwnerInv, HeldSomewhere, InHand, LedgerInv, KindInv, TurnStates, TypeInv, Holding
<1>4. outcomes[work] = None
  BY <1>3 DEF LedgerInv, OutcomeLedger
<1>5. tickets' = tickets \ {work}
  BY <1>4 DEF RunnerRetire, RetireTurn
<1>6. HeldSomewhere'
  <2>1. work \notin operations \cup queue \cup Panicked /\ \A c \in Callers : work \notin Owed(c)
    BY <1>1, <1>2, <1>3 DEF OwnerInv, PlacesApart, CallersApart, InHand, Panicked
  <2>2. InHand' = {} /\ InHand = {work}
    BY <1>1, <1>2, <1>3 DEF InHand
  <2> QED  BY <1>1, <1>5, <2>1, <2>2 DEF OwnerInv, HeldSomewhere, Turns, Panicked, Owed
<1>7. PlacesApart'
  BY <1>1, <1>2, <1>3, <1>4, <1>5 DEF OwnerInv, PlacesApart, InHand, LedgerInv, TypeInv, TypeOK
<1>8. CallersApart'
  BY <1>1, <1>2, <1>3, <1>4, <1>5 DEF OwnerInv, CallersApart, InHand, Panicked, Owed, LedgerInv,
     TypeInv, TypeOK
<1>9. SlotInv'
  BY <1>1, <1>2, <1>3, <1>4, <1>5 DEF OwnerInv, SlotInv, Holding, LedgerInv, TypeInv, TypeOK
<1>10. CallerStands' /\ AdmittedInv'
  BY <1>1 DEF OwnerInv, CallerStands, AdmittedInv
<1> QED  BY <1>6, <1>7, <1>8, <1>9, <1>10 DEF OwnerInv

LEMMA RunnerPublishOwner ==
    ASSUME LedgerInv, LedgerInv', OwnerInv, RunnerPublish
    PROVE  OwnerInv'
<1>1. UNCHANGED <<lifecycle, kind, operations, preparing, prep, queue, tickets, status, active,
       processing, work, phase, call, todo, drained, publication>>
  BY DEF RunnerPublish, lifeVars, admitVars, opVars, queueVars, ledgerVars, slotVars, cancelVars,
     runnerVars, callerVars
<1>2. pc = "publish" /\ pc' = "finish"
  BY DEF RunnerPublish
<1>3. HeldSomewhere'
  BY <1>1, <1>2 DEF OwnerInv, HeldSomewhere, Turns, InHand, Panicked, Owed, LedgerInv, TypeInv,
     TypeOK
<1>4. PlacesApart'
  BY <1>1, <1>2 DEF OwnerInv, PlacesApart, InHand, LedgerInv, TypeInv, TypeOK
<1>5. CallersApart'
  BY <1>1, <1>2 DEF OwnerInv, CallersApart, InHand, Panicked, Owed, LedgerInv, TypeInv, TypeOK
<1>6. SlotInv'
  BY <1>1, <1>2 DEF OwnerInv, SlotInv, Holding, LedgerInv, TypeInv, TypeOK
<1>7. CallerStands' /\ AdmittedInv'
  BY <1>1 DEF OwnerInv, CallerStands, AdmittedInv
<1> QED  BY <1>3, <1>4, <1>5, <1>6, <1>7 DEF OwnerInv

LEMMA RunnerControlOwner ==
    ASSUME LedgerInv, LedgerInv', OwnerInv, RunnerInstallControl \/ RunnerControlDone
    PROVE  OwnerInv'
<1>1. UNCHANGED <<lifecycle, kind, operations, preparing, prep, queue, tickets, status,
       processing, work, phase, call, todo, drained, publication>>
  BY DEF RunnerInstallControl, RunnerControlDone, RunnerTo, lifeVars, admitVars, opVars,
     queueVars, ledgerVars, slotVars, cancelVars, runnerVars, callerVars
<1>2. /\ pc \in {"popped", "control"} /\ pc' \in {"control", "finish"} /\ kind[work] # "Turn"
      /\ pc' = "finish" => active' = NoId
      /\ active' \in {NoId, work}
  BY DEF RunnerInstallControl, RunnerControlDone, RunnerTo, OwnerInv, SlotInv
<1>3. HeldSomewhere'
  BY <1>1, <1>2 DEF OwnerInv, HeldSomewhere, Turns, InHand, Panicked, Owed, LedgerInv, TypeInv,
     TypeOK
<1>4. PlacesApart'
  BY <1>1, <1>2 DEF OwnerInv, PlacesApart, InHand, LedgerInv, TypeInv, TypeOK
<1>5. CallersApart'
  BY <1>1, <1>2 DEF OwnerInv, CallersApart, InHand, Panicked, Owed, LedgerInv, TypeInv, TypeOK
<1>6. SlotInv'
  BY <1>1, <1>2 DEF OwnerInv, SlotInv, Holding, LedgerInv, TypeInv, TypeOK
<1>7. CallerStands' /\ AdmittedInv'
  BY <1>1 DEF OwnerInv, CallerStands, AdmittedInv
<1> QED  BY <1>3, <1>4, <1>5, <1>6, <1>7 DEF OwnerInv

LEMMA RunnerFinishOwner ==
    ASSUME LedgerInv, LedgerInv', OwnerInv, RunnerFinish
    PROVE  OwnerInv'
<1>1. UNCHANGED <<lifecycle, kind, operations, preparing, prep, queue, tickets, status, active,
       phase, call, todo, drained, publication>>
  BY DEF RunnerFinish, lifeVars, admitVars, opVars, queueVars, ledgerVars, slotVars, cancelVars,
     runnerVars, callerVars
<1>2. pc = "finish" /\ pc' = "loop" /\ work' = NoId /\ processing' = NoId
  BY DEF RunnerFinish
<1>3. 0 \notin Ids
  BY ActorAssumption DEF Ids
<1>4. HeldSomewhere'
  BY <1>1, <1>2, <1>3 DEF OwnerInv, HeldSomewhere, Turns, InHand, Panicked, Owed, LedgerInv,
     TypeInv, TypeOK
<1>5. PlacesApart'
  BY <1>1, <1>2, <1>3 DEF OwnerInv, PlacesApart, InHand, LedgerInv, TypeInv, TypeOK, NoId
<1>6. CallersApart'
  BY <1>1, <1>2, <1>3 DEF OwnerInv, CallersApart, InHand, Panicked, Owed, LedgerInv, TypeInv,
     TypeOK
<1>7. AdmittedInv'
  BY <1>1, <1>2, <1>3 DEF OwnerInv, AdmittedInv, LedgerInv, TypeInv, TypeOK
<1>8. SlotInv'
  BY <1>1, <1>2, <1>3 DEF OwnerInv, SlotInv, Holding, LedgerInv, TypeInv, TypeOK
<1>9. CallerStands'
  BY <1>1 DEF OwnerInv, CallerStands
<1> QED  BY <1>4, <1>5, <1>6, <1>7, <1>8, <1>9 DEF OwnerInv

-----------------------------------------------------------------------------
(* The preparation tasks. *)

LEMMA PrepareStaleOwner ==
    ASSUME LedgerInv, LedgerInv', OwnerInv, NEW i \in Ids, PrepareStale(i)
    PROVE  OwnerInv'
<1>1. UNCHANGED <<lifecycle, kind, operations, preparing, queue, tickets, status, active,
       processing, pc, work, phase, call, todo, drained, publication>>
  BY DEF PrepareStale, lifeVars, admitVars, opVars, queueVars, ledgerVars, slotVars, cancelVars,
     runnerVars, callerVars
<1>2. prep[i] = "running" /\ prep' = [prep EXCEPT ![i] = "none"]
  BY DEF PrepareStale
<1>3. HeldSomewhere'
  BY <1>1, <1>2 DEF OwnerInv, HeldSomewhere, Turns, InHand, Panicked, Owed, LedgerInv, TypeInv,
     TypeOK
<1>4. PlacesApart'
  BY <1>1, <1>2 DEF OwnerInv, PlacesApart, InHand, LedgerInv, TypeInv, TypeOK
<1>5. CallersApart'
  BY <1>1, <1>2 DEF OwnerInv, CallersApart, InHand, Panicked, Owed, LedgerInv, TypeInv, TypeOK
<1>6. AdmittedInv'
  BY <1>1, <1>2 DEF OwnerInv, AdmittedInv, LedgerInv, TypeInv, TypeOK
<1>7. CallerStands' /\ SlotInv'
  BY <1>1 DEF OwnerInv, CallerStands, SlotInv, Holding
<1> QED  BY <1>3, <1>4, <1>5, <1>6, <1>7 DEF OwnerInv

LEMMA FailRetireOwner ==
    ASSUME LedgerInv, LedgerInv', OwnerInv, NEW i \in Ids, FailRetire(i)
    PROVE  OwnerInv'
<1>1. UNCHANGED <<lifecycle, kind, operations, preparing, queue, status, active, processing, pc,
       work, phase, call, todo, drained, publication>>
  BY DEF FailRetire, lifeVars, admitVars, opVars, queueVars, ledgerVars, slotVars, cancelVars,
     runnerVars, callerVars
<1>2. prep[i] = "failing" /\ kind[i] = "Turn" /\ i \in tickets
  BY DEF FailRetire, OwnerInv, HeldSomewhere, Panicked, LedgerInv, KindInv
<1>3. outcomes[i] = None
  BY <1>2 DEF LedgerInv, OutcomeLedger
<1>4. tickets' = tickets \ {i} /\ prep' = [prep EXCEPT ![i] = "publishing"]
  BY <1>3 DEF FailRetire, RetireTurn
<1>5. HeldSomewhere'
  <2>1. i \notin operations \cup queue \cup InHand /\ \A c \in Callers : i \notin Owed(c)
    BY <1>2 DEF OwnerInv, PlacesApart, CallersApart, Panicked
  <2>2. Panicked' = Panicked \ {i}
    BY <1>2, <1>4 DEF Panicked, LedgerInv, TypeInv, TypeOK
  <2> QED  BY <1>1, <1>2, <1>4, <2>1, <2>2 DEF OwnerInv, HeldSomewhere, Turns, InHand, Owed
<1>6. PlacesApart'
  BY <1>1, <1>2, <1>3, <1>4 DEF OwnerInv, PlacesApart, InHand, LedgerInv, TypeInv, TypeOK
<1>7. CallersApart'
  BY <1>1, <1>2, <1>3, <1>4 DEF OwnerInv, CallersApart, InHand, Panicked, Owed, LedgerInv,
     TypeInv, TypeOK
<1>8. AdmittedInv'
  BY <1>1, <1>2, <1>3, <1>4 DEF OwnerInv, AdmittedInv, LedgerInv, TypeInv, TypeOK
<1>9. CallerStands' /\ SlotInv'
  BY <1>1 DEF OwnerInv, CallerStands, SlotInv, Holding
<1> QED  BY <1>5, <1>6, <1>7, <1>8, <1>9 DEF OwnerInv

LEMMA FailEndsOwner ==
    ASSUME LedgerInv, LedgerInv', OwnerInv, NEW i \in Ids, FailPublish(i) \/ FailDone(i)
    PROVE  OwnerInv'
<1>1. UNCHANGED <<lifecycle, kind, operations, preparing, queue, tickets, status, active,
       processing, pc, work, phase, call, todo, drained, publication>>
  BY DEF FailPublish, FailDone, lifeVars, admitVars, opVars, queueVars, ledgerVars, slotVars,
     cancelVars, runnerVars, callerVars
<1>2. prep[i] \in {"publishing", "failed"} /\ \E s \in {"failed", "none"} : prep' = [prep EXCEPT ![i] = s]
  BY DEF FailPublish, FailDone
<1>3. HeldSomewhere'
  BY <1>1, <1>2 DEF OwnerInv, HeldSomewhere, Turns, InHand, Panicked, Owed, LedgerInv, TypeInv,
     TypeOK
<1>4. PlacesApart'
  BY <1>1, <1>2 DEF OwnerInv, PlacesApart, InHand, LedgerInv, TypeInv, TypeOK
<1>5. CallersApart'
  BY <1>1, <1>2 DEF OwnerInv, CallersApart, InHand, Panicked, Owed, LedgerInv, TypeInv, TypeOK
<1>6. AdmittedInv'
  BY <1>1, <1>2 DEF OwnerInv, AdmittedInv, LedgerInv, TypeInv, TypeOK
<1>7. CallerStands' /\ SlotInv'
  BY <1>1 DEF OwnerInv, CallerStands, SlotInv, Holding
<1> QED  BY <1>3, <1>4, <1>5, <1>6, <1>7 DEF OwnerInv

-----------------------------------------------------------------------------
(* Driving the operation FIFO. *)

\* What a drive does: it moves a prefix of the operations that needs no
\* preparation and starts at most the preparation of the new head.
Driven(ready, ops, q, tasks) ==
    /\ operations' = ops \ ready /\ queue' = q \cup ready
    /\ \A i \in ready, j \in ops \ ready : i < j
    /\ \A i \in ready : ~(Prepares /\ kind'[i] = "Turn")
    /\ \A i \in Ids : prep'[i] = tasks[i] \/ (i \in ops \ ready /\ Prepares /\ prep'[i] = "running")
    /\ lifecycle = "Open" /\ operations' = {} => preparing' = NoId
    /\ lifecycle = "Open" /\ operations' # {} =>
          /\ preparing' \in operations' /\ \A j \in operations' : preparing' <= j
          /\ Prepares /\ kind'[preparing'] = "Turn"
          /\ preparing' # preparing => prep'[preparing'] = "running"
          /\ \A i \in Ids \ {preparing'} : prep'[i] = tasks[i]
    /\ lifecycle # "Open" \/ operations' = {} => prep' = tasks
    /\ lifecycle # "Open" => preparing' = preparing /\ ready = {}
    /\ notifyToken => notifyToken'
    /\ queue' \subseteq queue \/ notifyToken' \/ lifecycle # "Open"

LEMMA DriveMoves ==
    ASSUME TypeOK, NEW ops \in SUBSET Ids, NEW q, NEW tasks \in [Ids -> PrepStates],
           DriveOperations(ops, q, tasks)
    PROVE  \E ready \in SUBSET ops : Driven(ready, ops, q, tasks)
<1>1. CASE lifecycle # "Open"
  <2>1. Driven({}, ops, q, tasks)
    BY <1>1 DEF DriveOperations, Driven
  <2> QED  BY <2>1
<1>2. CASE lifecycle = "Open"
  <2> DEFINE waiting == {i \in ops : Prepares /\ kind'[i] = "Turn"}
             ready   == {i \in ops : \A j \in waiting : i < j}
  <2>1. /\ operations' = ops \ ready /\ queue' = q \cup ready
        /\ notifyToken' = (notifyToken \/ ~(queue' \subseteq queue))
        /\ \/ waiting = {} /\ preparing' = NoId /\ prep' = tasks
           \/ \E i \in waiting :
                 /\ \A j \in waiting : i <= j
                 /\ preparing' = i
                 /\ prep' = IF preparing = i THEN tasks ELSE [tasks EXCEPT ![i] = "running"]
    BY <1>2 DEF DriveOperations
  <2>2. waiting \subseteq ops \ ready /\ ops \subseteq Nat
    <3>1. ops \subseteq Nat
      BY ActorAssumption DEF Ids
    <3>2. \A i \in ops : ~(i < i)
      BY <3>1
    <3> QED  BY <3>1, <3>2
  <2>3. \A i \in ready, j \in ops \ ready : i < j
    BY <2>2
  <2>4. \A i \in ready : ~(Prepares /\ kind'[i] = "Turn")
    BY <2>2
  <2>5. CASE waiting = {}
    <3>1. ready = ops /\ operations' = {}
      BY <2>1, <2>5
    <3>2. preparing' = NoId /\ prep' = tasks
      BY <2>1, <2>5
    <3>3. Driven(ready, ops, q, tasks)
      BY <1>2, <2>1, <2>3, <2>4, <3>1, <3>2 DEF Driven
    <3> QED  BY <3>3
  <2>6. ASSUME NEW i \in waiting, \A j \in waiting : i <= j, preparing' = i,
               prep' = IF preparing = i THEN tasks ELSE [tasks EXCEPT ![i] = "running"]
        PROVE  \E r \in SUBSET ops : Driven(r, ops, q, tasks)
    <3>1. i \in operations' /\ i \in ops \ ready /\ Prepares /\ kind'[i] = "Turn"
      BY <2>1, <2>2, <2>6
    <3>2. \A j \in operations' : i <= j
      BY <2>1, <2>2, <2>6
    <3>3. \A j \in Ids \ {i} : prep'[j] = tasks[j]
      BY <2>6
    <3>4. prep'[i] = IF preparing = i THEN tasks[i] ELSE "running"
      BY <2>6, <3>1
    <3> HIDE DEF ready, waiting
    <3>5. Driven(ready, ops, q, tasks)
      BY <1>2, <2>1, <2>3, <2>4, <2>6, <3>1, <3>2, <3>3, <3>4 DEF Driven
    <3>6. ready \in SUBSET ops
      BY DEF ready
    <3> QED  BY <3>5, <3>6
  <2> QED  BY <2>1, <2>5, <2>6
<1> QED  BY <1>1, <1>2

LEMMA PrepareReadyOwner ==
    ASSUME LedgerInv, LedgerInv', OwnerInv, NEW i \in Ids, PrepareReady(i)
    PROVE  OwnerInv'
<1>1. UNCHANGED <<lifecycle, kind, tickets, status, active, processing, pc, work, phase, call,
       todo, drained, publication>>
  BY DEF PrepareReady, lifeVars, admitVars, opVars, queueVars, ledgerVars, slotVars, cancelVars,
     runnerVars, callerVars
<1>2. /\ i \in operations /\ lifecycle = "Open" /\ prep[i] = "running" /\ kind[i] = "Turn"
      /\ DriveOperations(operations \ {i}, queue \cup {i}, [prep EXCEPT ![i] = "none"])
  BY DEF PrepareReady, Current, LedgerInv, KindInv
<1>3. PICK ready \in SUBSET (operations \ {i}) :
         Driven(ready, operations \ {i}, queue \cup {i}, [prep EXCEPT ![i] = "none"])
  BY <1>2, DriveMoves DEF LedgerInv, TypeInv, TypeOK, PrepStates
<1>4. \A j \in ready : prep[j] = "none"
  BY <1>1, <1>3 DEF Driven, OwnerInv, AdmittedInv, LedgerInv, KindInv, TypeInv, TypeOK
<1>5. /\ operations' = (operations \ {i}) \ ready /\ queue' = queue \cup {i} \cup ready
      /\ \A j \in Ids : \/ prep'[j] = (IF j = i THEN "none" ELSE prep[j])
                        \/ j \in operations' /\ Prepares /\ prep'[j] = "running"
      /\ preparing' # NoId => preparing' \in operations'
  BY <1>2, <1>3 DEF Driven, LedgerInv, TypeInv, TypeOK
<1>6. HeldSomewhere'
  <2>1. Panicked' = Panicked
    BY <1>1, <1>2, <1>3, <1>4, <1>5 DEF OwnerInv, PlacesApart, Panicked, LedgerInv, TypeInv, TypeOK
  <2>2. (Turns(operations) \cup Turns(queue))' = Turns(operations) \cup Turns(queue)
    BY <1>1, <1>2, <1>5 DEF Turns
  <2>3. InHand' = InHand /\ \A c \in Callers : Owed(c)' = Owed(c)
    BY <1>1 DEF InHand, Owed
  <2> QED  BY <1>1, <1>2, <2>1, <2>2, <2>3 DEF OwnerInv, HeldSomewhere
<1>7. PlacesApart'
  BY <1>1, <1>2, <1>3, <1>4, <1>5 DEF OwnerInv, PlacesApart, InHand, LedgerInv, TypeInv, TypeOK
<1>8. CallersApart'
  BY <1>1, <1>2, <1>3, <1>4, <1>5 DEF OwnerInv, CallersApart, InHand, Panicked, Owed, LedgerInv,
     TypeInv, TypeOK
<1>9. AdmittedInv'
  BY <1>1, <1>2, <1>3, <1>4, <1>5 DEF OwnerInv, AdmittedInv, LedgerInv, TypeInv, TypeOK
<1>10. CallerStands' /\ SlotInv'
  BY <1>1 DEF OwnerInv, CallerStands, SlotInv, Holding
<1> QED  BY <1>6, <1>7, <1>8, <1>9, <1>10 DEF OwnerInv

LEMMA PreparePanicOwner ==
    ASSUME LedgerInv, LedgerInv', OwnerInv, NEW i \in Ids, PreparePanic(i)
    PROVE  OwnerInv'
<1>1. UNCHANGED <<lifecycle, kind, tickets, status, active, processing, pc, work, phase, call,
       todo, drained, publication>>
  BY DEF PreparePanic, lifeVars, admitVars, opVars, queueVars, ledgerVars, slotVars, cancelVars,
     runnerVars, callerVars
<1>2. /\ i \in operations /\ lifecycle = "Open" /\ prep[i] = "running" /\ kind[i] = "Turn" /\ i \notin queue
      /\ DriveOperations(operations \ {i}, queue, [prep EXCEPT ![i] = "failing"])
  BY DEF PreparePanic, Current, LedgerInv, KindInv, OwnerInv, PlacesApart
<1>3. PICK ready \in SUBSET (operations \ {i}) :
         Driven(ready, operations \ {i}, queue, [prep EXCEPT ![i] = "failing"])
  BY <1>2, DriveMoves DEF LedgerInv, TypeInv, TypeOK, PrepStates
<1>4. \A j \in ready : prep[j] = "none"
  BY <1>1, <1>3 DEF Driven, OwnerInv, AdmittedInv, LedgerInv, KindInv, TypeInv, TypeOK
<1>5. /\ operations' = (operations \ {i}) \ ready /\ queue' = queue \cup ready
      /\ \A j \in Ids : \/ prep'[j] = (IF j = i THEN "failing" ELSE prep[j])
                        \/ j \in operations' /\ Prepares /\ prep'[j] = "running"
      /\ preparing' # NoId => preparing' \in operations'
  BY <1>2, <1>3 DEF Driven, LedgerInv, TypeInv, TypeOK
<1>6. HeldSomewhere'
  <2>1. Panicked' = Panicked \cup {i}
    BY <1>1, <1>2, <1>3, <1>4, <1>5 DEF OwnerInv, PlacesApart, Panicked, LedgerInv, TypeInv, TypeOK
  <2>2. (Turns(operations) \cup Turns(queue))' \cup {i} = Turns(operations) \cup Turns(queue)
    BY <1>1, <1>2, <1>5 DEF Turns
  <2>3. InHand' = InHand /\ \A c \in Callers : Owed(c)' = Owed(c)
    BY <1>1 DEF InHand, Owed
  <2> QED  BY <1>1, <1>2, <2>1, <2>2, <2>3 DEF OwnerInv, HeldSomewhere
<1>7. PlacesApart'
  BY <1>1, <1>2, <1>3, <1>4, <1>5 DEF OwnerInv, PlacesApart, InHand, LedgerInv, TypeInv, TypeOK
<1>8. CallersApart'
  BY <1>1, <1>2, <1>3, <1>4, <1>5 DEF OwnerInv, CallersApart, InHand, Panicked, Owed, LedgerInv,
     TypeInv, TypeOK
<1>9. AdmittedInv'
  BY <1>1, <1>2, <1>3, <1>4, <1>5 DEF OwnerInv, AdmittedInv, LedgerInv, TypeInv, TypeOK
<1>10. CallerStands' /\ SlotInv'
  BY <1>1 DEF OwnerInv, CallerStands, SlotInv, Holding
<1> QED  BY <1>6, <1>7, <1>8, <1>9, <1>10 DEF OwnerInv

-----------------------------------------------------------------------------
(* The calls. *)

LEMMA CutOwner ==
    ASSUME LedgerInv, LedgerInv', OwnerInv, 
           NEW c \in Callers, phase[c] = "free", NEW op, op # "close", NEW fire, NEW r,
           NEW goneOps \in SUBSET operations, NEW goneQ \in SUBSET queue,
           Settle(c, op, Turns(goneOps), Turns(goneQ), fire, r),
           DriveOperations(operations \ goneOps, queue \ goneQ, prep),
           UNCHANGED <<lifecycle, kind, tickets, pc, work, status, processing>>,
           active' \in {active, NoId}
    PROVE  OwnerInv'
<1>1. UNCHANGED <<lifecycle, kind, tickets, status, processing, pc, work, publication>>
  BY DEF Settle
<1>2. PICK ready \in SUBSET (operations \ goneOps) :
         Driven(ready, operations \ goneOps, queue \ goneQ, prep)
  BY DriveMoves DEF LedgerInv, TypeInv, TypeOK
<1>3. \A j \in ready : prep[j] = "none"
  BY <1>1, <1>2 DEF Driven, OwnerInv, AdmittedInv, LedgerInv, KindInv, TypeInv, TypeOK
<1>4. /\ operations' = (operations \ goneOps) \ ready /\ queue' = (queue \ goneQ) \cup ready
      /\ \A j \in Ids : prep'[j] = prep[j] \/ (j \in operations' /\ Prepares /\ prep'[j] = "running")
      /\ preparing' # NoId => preparing' \in operations' \/ preparing' = preparing
  BY <1>2 DEF Driven
<1>5. \A d \in Callers :
         /\ phase'[d] = (IF d = c THEN "deferred" ELSE phase[d])
         /\ call'[d] = (IF d = c THEN op ELSE call[d])
         /\ todo'[d] = (IF d = c THEN Turns(goneOps) ELSE todo[d])
         /\ drained'[d] = (IF d = c THEN Turns(goneQ) ELSE drained[d])
  BY DEF Settle, LedgerInv, TypeInv, TypeOK
<1>6. /\ todo[c] = {} /\ drained[c] = {}
      /\ \A d \in Callers : Owed(d)' = IF d = c THEN Turns(goneOps \cup goneQ) ELSE Owed(d)
  BY <1>5 DEF OwnerInv, CallerStands, Owed, Turns
<1>7. goneOps \cap goneQ = {} /\ \A j \in goneOps \cup goneQ : j # work /\ prep[j] \in {"none", "running"}
  BY DEF OwnerInv, PlacesApart
<1>8. Panicked' = Panicked /\ InHand' = InHand
  BY <1>1, <1>4 DEF Panicked, InHand, OwnerInv, PlacesApart, LedgerInv, TypeInv, TypeOK
<1>9. HeldSomewhere'
  <2>1. (Turns(operations) \cup Turns(queue))' \cup Turns(goneOps \cup goneQ) = Turns(operations) \cup Turns(queue)
    BY <1>1, <1>4 DEF Turns
  <2> QED  BY <1>1, <1>6, <1>8, <2>1 DEF OwnerInv, HeldSomewhere, Owed
<1>10. PlacesApart'
  BY <1>1, <1>2, <1>3, <1>4, <1>5, <1>6, <1>7, <1>8 DEF OwnerInv, PlacesApart, InHand, LedgerInv,
     TypeInv, TypeOK
<1>11. CallersApart'
  <2>1. \A d \in Callers : todo'[d] \cap drained'[d] = {}
    BY <1>5, <1>7 DEF OwnerInv, CallersApart, Turns
  <2>2. ASSUME NEW d \in Callers, NEW t \in Owed(d)'
        PROVE  /\ t \notin operations' \cup queue' \cup InHand' \cup Panicked'
               /\ \A e \in Callers \ {d} : t \notin Owed(e)'
    <3>1. CASE d = c
      <4>1. t \in goneOps \cup goneQ /\ t \in operations \cup queue
        BY <1>6, <2>2, <3>1 DEF Turns
      <4>2. t \notin operations' \cup queue'
        BY <1>4, <4>1 DEF OwnerInv, PlacesApart
      <4>3. t \notin InHand \cup Panicked
        BY <1>7, <4>1 DEF InHand, Panicked
      <4>4. \A e \in Callers : t \notin Owed(e)
        BY <4>1 DEF OwnerInv, CallersApart
      <4> QED  BY <1>6, <1>8, <3>1, <4>2, <4>3, <4>4
    <3>2. CASE d # c
      <4>1. t \in Owed(d) /\ t \notin operations \cup queue
        BY <1>6, <2>2, <3>2 DEF OwnerInv, CallersApart
      <4>2. \A e \in Callers \ {d} : t \notin Owed(e)'
        BY <1>6, <4>1 DEF OwnerInv, CallersApart, Turns
      <4> QED  BY <1>4, <1>8, <4>1, <4>2 DEF OwnerInv, CallersApart
    <3> QED  BY <3>1, <3>2
  <2> QED  BY <2>1, <2>2 DEF CallersApart
<1>12. CallerStands'
  BY <1>1, <1>2, <1>3, <1>4, <1>5, <1>6, <1>7, <1>8 DEF OwnerInv, CallerStands, LedgerInv,
     TypeInv, TypeOK
<1>13. AdmittedInv'
  BY <1>1, <1>2, <1>3, <1>4, <1>5, <1>6, <1>7, <1>8 DEF OwnerInv, AdmittedInv, LedgerInv, TypeInv,
     TypeOK
<1>14. SlotInv'
  BY <1>1, <1>2, <1>3, <1>4, <1>5, <1>6, <1>7, <1>8 DEF OwnerInv, SlotInv, Holding, LedgerInv,
     TypeInv, TypeOK
<1> QED  BY <1>9, <1>10, <1>11, <1>12, <1>13, <1>14 DEF OwnerInv

LEMMA CancelExistingOwner ==
    ASSUME LedgerInv, LedgerInv', OwnerInv, NEW c \in Callers, CancelExisting(c) PROVE OwnerInv'
<1>1. UNCHANGED <<lifecycle, kind, tickets, pc, work, status, processing>> /\ active' \in {active, NoId}
  BY DEF CancelExisting, lifeVars, admitVars, ledgerVars, slotVars, runnerVars
<1>2. operations \ operations = {} /\ queue \ queue = {}
  OBVIOUS
<1>3. /\ DriveOperations(operations \ operations, queue \ queue, prep)
      /\ Settle(c, "cancel_existing", Turns(operations), Turns(queue), active, "User") /\ phase[c] = "free"
  BY <1>2 DEF CancelExisting
<1> QED  BY <1>1, <1>3, CutOwner

LEMMA ClearOwner ==
    ASSUME LedgerInv, LedgerInv', OwnerInv, NEW c \in Callers, Clear(c) PROVE OwnerInv'
<1>1. UNCHANGED <<lifecycle, kind, tickets, pc, work, status, processing>> /\ active' \in {active, NoId}
  BY DEF Clear, lifeVars, admitVars, ledgerVars, slotVars, runnerVars
<1>2. operations \ operations = {} /\ queue \ queue = {}
  OBVIOUS
<1>3. /\ DriveOperations(operations \ operations, queue \ queue, prep)
      /\ Settle(c, "clear", Turns(operations), Turns(queue), NoId, "User") /\ phase[c] = "free"
  BY <1>2 DEF Clear
<1> QED  BY <1>1, <1>3, CutOwner

LEMMA CancelTurnOwner ==
    ASSUME LedgerInv, LedgerInv', OwnerInv, NEW c \in Callers, NEW t \in Ids, CancelTurn(c, t) PROVE OwnerInv'
<1>1. UNCHANGED <<lifecycle, kind, tickets, pc, work, status, processing>> /\ active' \in {active, NoId}
  BY DEF CancelTurn, lifeVars, admitVars, ledgerVars, slotVars, runnerVars
<1> DEFINE goneOps == operations \cap {t}
           goneQ   == queue \cap {t}
<1>2. operations \ goneOps = operations \ {t} /\ queue \ goneQ = queue \ {t}
  OBVIOUS
<1>3. kind[t] = "Turn" /\ Turns(goneOps) = goneOps /\ Turns(goneQ) = goneQ
  BY DEF CancelTurn, Turns, LedgerInv, KindInv
<1>4. DriveOperations(operations \ goneOps, queue \ goneQ, prep) /\ phase[c] = "free"
  BY <1>2 DEF CancelTurn
<1>5. Settle(c, "cancel_turn", Turns(goneOps), Turns(goneQ), NoId, "User")
  BY <1>3 DEF CancelTurn
<1> QED  BY <1>1, <1>4, <1>5, CutOwner

LEMMA DriveOwner ==
    ASSUME LedgerInv, LedgerInv', OwnerInv, DriveOperations(operations, queue, prep),
           UNCHANGED <<lifecycle, kind, tickets, pc, work, status, processing, active, phase, call, todo,
                       drained, publication>>
    PROVE  OwnerInv'
<1>1. UNCHANGED <<lifecycle, kind, tickets, status, active, processing, pc, work, phase, call,
       todo, drained, publication>>
  BY DEF Settle
<1>2. PICK ready \in SUBSET operations : Driven(ready, operations, queue, prep)
  BY DriveMoves DEF LedgerInv, TypeInv, TypeOK
<1>3. \A j \in ready : prep[j] = "none"
  BY <1>1, <1>2 DEF Driven, OwnerInv, AdmittedInv, LedgerInv, KindInv, TypeInv, TypeOK
<1>4. /\ operations' = operations \ ready /\ queue' = queue \cup ready
      /\ \A j \in Ids : prep'[j] = prep[j] \/ (j \in operations' /\ Prepares /\ prep'[j] = "running")
      /\ preparing' # NoId => preparing' \in operations' \/ preparing' = preparing
  BY <1>2 DEF Driven
<1>5. Panicked' = Panicked /\ InHand' = InHand /\ (Turns(operations) \cup Turns(queue))' = Turns(operations) \cup Turns(queue)
  BY <1>1, <1>4 DEF Panicked, InHand, Turns, OwnerInv, PlacesApart, LedgerInv, TypeInv, TypeOK
<1>6. HeldSomewhere'
  BY <1>1, <1>5 DEF OwnerInv, HeldSomewhere, Owed
<1>7. PlacesApart'
  BY <1>1, <1>2, <1>3, <1>4, <1>5 DEF OwnerInv, PlacesApart, InHand, LedgerInv, TypeInv, TypeOK
<1>8. CallersApart'
  BY <1>1, <1>2, <1>3, <1>4, <1>5 DEF OwnerInv, CallersApart, InHand, Panicked, Owed, LedgerInv,
     TypeInv, TypeOK
<1>9. AdmittedInv'
  BY <1>1, <1>2, <1>3, <1>4, <1>5 DEF OwnerInv, AdmittedInv, LedgerInv, TypeInv, TypeOK
<1>10. CallerStands' /\ SlotInv'
  BY <1>1 DEF OwnerInv, CallerStands, SlotInv, Holding
<1> QED  BY <1>6, <1>7, <1>8, <1>9, <1>10 DEF OwnerInv

LEMMA RemoveOwner ==
    ASSUME LedgerInv, LedgerInv', OwnerInv, NEW c \in Callers, NEW t \in Ids, Remove(c, t) PROVE OwnerInv'
<1>1. UNCHANGED <<lifecycle, kind, tickets, pc, work, status, processing>> /\ active' \in {active, NoId}
  BY DEF Remove, lifeVars, admitVars, ledgerVars, slotVars, runnerVars
<1> DEFINE goneOps == operations \cap {t}
           goneQ   == queue \cap {t}
<1>2. operations \ goneOps = operations \ {t} /\ queue \ goneQ = queue \ {t}
  OBVIOUS
<1>3. kind[t] = "Turn" /\ Turns(goneOps) = goneOps /\ Turns(goneQ) = goneQ
  BY DEF Remove, Turns, LedgerInv, KindInv
<1>4. DriveOperations(operations \ goneOps, queue \ goneQ, prep) /\ phase[c] = "free"
  BY <1>2 DEF Remove
<1>5. CASE t \in operations \cup queue
  <2>1. Settle(c, "remove", Turns(goneOps), Turns(goneQ), NoId, "User")
    BY <1>3, <1>5 DEF Remove
  <2> QED  BY <1>1, <1>4, <2>1, CutOwner
<1>6. CASE t \notin operations \cup queue
  <2>1. UNCHANGED <<phase, call, todo, drained, publication, active>>
    BY <1>6 DEF Remove, callerVars, slotVars
  <2>2. DriveOperations(operations, queue, prep)
    <3>1. operations \ {t} = operations /\ queue \ {t} = queue
      BY <1>6
    <3> QED  BY <3>1 DEF Remove
  <2> QED  BY <1>1, <2>1, <2>2, DriveOwner
<1> QED  BY <1>5, <1>6

LEMMA CancelCorrelationOwner ==
    ASSUME LedgerInv, LedgerInv', OwnerInv, NEW c \in Callers, NEW key \in Correlations, CancelCorrelation(c, key)
    PROVE  OwnerInv'
<1> DEFINE matched(S) == {i \in S : (i # NoId /\ correlation[i] = key) /\ kind[i] # "Control"}
           goneOps == matched(operations)
           goneQ   == matched(queue)
<1>1. UNCHANGED <<lifecycle, kind, tickets, pc, work, status, processing>> /\ active' \in {active, NoId}
  BY DEF CancelCorrelation, lifeVars, admitVars, ledgerVars, slotVars, runnerVars
<1>2. /\ DriveOperations(operations \ goneOps, queue \ goneQ, prep)
      /\ Settle(c, "cancel_correlation", Turns(goneOps), Turns(goneQ), NoId, "User") /\ phase[c] = "free"
  BY DEF CancelCorrelation
<1>3. goneOps \in SUBSET operations /\ goneQ \in SUBSET queue
  OBVIOUS
<1> HIDE DEF goneOps, goneQ
<1> QED  BY <1>1, <1>2, <1>3, CutOwner

LEMMA RegisterOwner ==
    ASSUME LedgerInv, LedgerInv', OwnerInv, NEW k \in Kinds, NEW key, Register(k, key), NEW id, id = nextOperationId',
           DriveOperations(operations \cup {id}, queue, prep),
           tickets' = (IF k = "Turn" THEN tickets \cup {id} ELSE tickets),
           UNCHANGED <<lifecycle, pc, work, status, processing, active, phase, call, todo, drained, publication>>
    PROVE  OwnerInv'
<1>1. UNCHANGED <<lifecycle, status, active, processing, pc, work, phase, call, todo, drained,
       publication>>
  BY DEF Settle
<1>2. /\ id \in Ids /\ kind[id] = None /\ id \notin operations \cup queue /\ id # work /\ id # preparing
      /\ prep[id] = "none" /\ id \notin tickets /\ \A d \in Callers : id \notin Owed(d)
  <2>1. id \in Ids /\ id > nextOperationId
    BY ActorAssumption DEF Register, LedgerInv, TypeInv, TypeOK, Ids
  <2>2. kind[id] = None
    BY <2>1 DEF LedgerInv, KindInv
  <2>3. id # NoId
    BY <2>1, ActorAssumption DEF Ids, NoId
  <2>4. id \notin operations \cup queue /\ id # work /\ id # preparing
    BY <2>2, <2>3 DEF OwnerInv, AdmittedInv
  <2> QED  BY <2>1, <2>2, <2>4 DEF LedgerInv, KindInv, None
<1>3. /\ kind'[id] = k /\ k # None /\ \A j \in Ids \ {id} : kind'[j] = kind[j]
      /\ \A j \in Ids : kind[j] # None => kind'[j] = kind[j]
  BY <1>2 DEF Register, LedgerInv, TypeInv, TypeOK, Kinds, None
<1>4. PICK ready \in SUBSET (operations \cup {id}) : Driven(ready, operations \cup {id}, queue, prep)
  <2>1. TypeOK /\ operations \cup {id} \in SUBSET Ids /\ prep \in [Ids -> PrepStates]
    BY <1>2 DEF LedgerInv, TypeInv, TypeOK
  <2> QED  BY <2>1, DriveMoves
<1>5. \A j \in ready : prep[j] = "none"
  BY <1>1, <1>2, <1>3, <1>4 DEF Driven, OwnerInv, AdmittedInv, LedgerInv, KindInv, TypeInv, TypeOK
<1>6. /\ operations' = (operations \cup {id}) \ ready /\ queue' = queue \cup ready
      /\ \A j \in Ids : prep'[j] = prep[j] \/ (j \in operations' /\ Prepares /\ prep'[j] = "running")
      /\ preparing' # NoId => preparing' \in operations' \/ preparing' = preparing
  BY <1>4 DEF Driven
<1>7. /\ Panicked' = Panicked /\ InHand' = InHand
      /\ (Turns(operations) \cup Turns(queue))' = Turns(operations) \cup Turns(queue) \cup (IF k = "Turn" THEN {id} ELSE {})
  <2>1. Panicked' = Panicked
    BY <1>2, <1>6 DEF Panicked, OwnerInv, PlacesApart, LedgerInv, TypeInv, TypeOK
  <2>2. InHand' = InHand
    BY <1>1, <1>2, <1>3 DEF InHand
  <2>3. \A j \in operations \cup queue : kind'[j] = kind[j]
    BY <1>2, <1>3 DEF LedgerInv, TypeInv, TypeOK
  <2> QED  BY <1>2, <1>3, <1>6, <2>1, <2>2, <2>3 DEF Turns
<1>8. HeldSomewhere'
  BY <1>1, <1>2, <1>7 DEF OwnerInv, HeldSomewhere, Owed
<1>9. PlacesApart'
  BY <1>1, <1>2, <1>3, <1>4, <1>5, <1>6, <1>7 DEF OwnerInv, PlacesApart, InHand, LedgerInv,
     TypeInv, TypeOK
<1>10. CallersApart'
  <2>1. \A d \in Callers : Owed(d)' = Owed(d)
    BY <1>1 DEF Owed
  <2> QED  BY <1>1, <1>2, <1>6, <1>7, <2>1 DEF OwnerInv, CallersApart
<1>11. AdmittedInv'
  <2>1. kind'[id] # None /\ \A j \in operations \cup queue : kind'[j] # None
    BY <1>2, <1>3 DEF OwnerInv, AdmittedInv, LedgerInv, TypeInv, TypeOK
  <2>2. /\ work # NoId => kind'[work] # None
        /\ preparing # NoId => kind'[preparing] # None
    BY <1>3 DEF OwnerInv, AdmittedInv, LedgerInv, TypeInv, TypeOK
  <2> QED  BY <1>1, <1>6, <2>1, <2>2 DEF OwnerInv, AdmittedInv
<1>12. SlotInv'
  <2>1. pc \in {"finish", "control"} => kind'[work] = kind[work]
    BY <1>2, <1>3 DEF LedgerInv, TypeInv, Holding
  <2> QED  BY <1>1, <2>1 DEF OwnerInv, SlotInv
<1>13. CallerStands'
  BY <1>1 DEF OwnerInv, CallerStands
<1> QED  BY <1>8, <1>9, <1>10, <1>11, <1>12, <1>13 DEF OwnerInv

LEMMA PushOwner ==
    ASSUME LedgerInv, LedgerInv', OwnerInv, NEW key \in Correlations,
           AdmitTurn(key) \/ PushControl(key) \/ PushCompact(key)
    PROVE  OwnerInv'
<1> USE DEF lifeVars, slotVars, runnerVars, callerVars, ledgerVars
<1>1. PICK k \in Kinds :
         /\ Register(k, key)
         /\ tickets' = (IF k = "Turn" THEN tickets \cup {nextOperationId'} ELSE tickets)
  BY DEF AdmitTurn, PushControl, PushCompact, PushOperation, Kinds
<1>2. UNCHANGED <<lifecycle, pc, work, status, processing, active, phase, call, todo, drained, publication>>
  BY DEF AdmitTurn, PushControl, PushCompact, PushOperation
<1>3. DriveOperations(operations \cup {nextOperationId'}, queue, prep)
  BY DEF AdmitTurn, PushControl, PushCompact, PushOperation
<1> QED  BY <1>1, <1>2, <1>3, RegisterOwner

LEMMA AdmitCancelledOwner ==
    ASSUME LedgerInv, LedgerInv', OwnerInv, NEW c \in Callers, NEW key \in Correlations, AdmitCancelled(c, key)
    PROVE  OwnerInv'
<1>1. UNCHANGED <<lifecycle, operations, preparing, prep, queue, status, active, processing, pc,
       work, publication>>
  BY DEF AdmitCancelled, Settle, lifeVars, admitVars, opVars, queueVars, ledgerVars, slotVars,
     cancelVars, runnerVars, callerVars
<1>2. PICK id : id = nextOperationId'
  OBVIOUS
<1>3. /\ id \in Ids /\ kind[id] = None /\ id \notin operations \cup queue /\ id # work /\ id # preparing
      /\ prep[id] = "none" /\ id \notin tickets /\ \A d \in Callers : id \notin Owed(d)
  <2>1. id \in Ids /\ id > nextOperationId
    BY <1>2, ActorAssumption DEF AdmitCancelled, Register, LedgerInv, TypeInv, TypeOK, Ids
  <2>2. kind[id] = None
    BY <2>1 DEF LedgerInv, KindInv
  <2>3. id # NoId
    BY <2>1, ActorAssumption DEF Ids, NoId
  <2>4. id \notin operations \cup queue /\ id # work /\ id # preparing
    BY <2>2, <2>3 DEF OwnerInv, AdmittedInv
  <2> QED  BY <2>1, <2>2, <2>4 DEF LedgerInv, KindInv, None
<1>4. /\ kind'[id] = "Turn" /\ \A j \in Ids \ {id} : kind'[j] = kind[j]
      /\ tickets' = tickets \cup {id} /\ phase[c] = "free" /\ lifecycle = "Open"
  BY <1>2, <1>3 DEF AdmitCancelled, Register, LedgerInv, TypeInv, TypeOK
<1>5. \A d \in Callers :
         /\ phase'[d] = (IF d = c THEN "deferred" ELSE phase[d])
         /\ call'[d] = (IF d = c THEN "admit" ELSE call[d])
         /\ todo'[d] = (IF d = c THEN {id} ELSE todo[d])
         /\ drained'[d] = (IF d = c THEN {} ELSE drained[d])
  BY <1>2 DEF AdmitCancelled, Settle, LedgerInv, TypeInv, TypeOK
<1>6. todo[c] = {} /\ drained[c] = {} /\ \A d \in Callers : Owed(d)' = IF d = c THEN {id} ELSE Owed(d)
  BY <1>4, <1>5 DEF OwnerInv, CallerStands, Owed
<1>7. /\ Panicked' = Panicked /\ InHand' = InHand
      /\ Turns(operations)' = Turns(operations) /\ Turns(queue)' = Turns(queue)
  BY <1>1, <1>3, <1>4 DEF Panicked, InHand, Turns, LedgerInv, TypeInv, TypeOK
<1>8. HeldSomewhere'
  <2>1. Owed(c) = {}
    BY <1>6 DEF Owed
  <2> QED  BY <1>1, <1>3, <1>4, <1>6, <1>7, <2>1 DEF OwnerInv, HeldSomewhere
<1>9. PlacesApart'
  BY <1>1, <1>7 DEF OwnerInv, PlacesApart
<1>10. CallersApart'
  <2>1. \A d \in Callers : todo'[d] \cap drained'[d] = {}
    BY <1>5 DEF OwnerInv, CallersApart
  <2>2. id \notin InHand \cup Panicked
    BY <1>3 DEF InHand, Panicked
  <2> QED  BY <1>1, <1>3, <1>6, <1>7, <2>1, <2>2 DEF OwnerInv, CallersApart
<1>11. CallerStands'
  BY <1>1, <1>2, <1>3, <1>4, <1>5, <1>6, <1>7 DEF OwnerInv, CallerStands, LedgerInv, TypeInv,
     TypeOK
<1>12. AdmittedInv'
  BY <1>1, <1>3, <1>4 DEF OwnerInv, AdmittedInv, LedgerInv, TypeInv, TypeOK, None
<1>13. SlotInv'
  <2>1. pc \in {"finish", "control"} => kind'[work] = kind[work]
    BY <1>3, <1>4 DEF LedgerInv, TypeInv, Holding
  <2> QED  BY <1>1, <2>1 DEF OwnerInv, SlotInv
<1> QED  BY <1>8, <1>9, <1>10, <1>11, <1>12, <1>13 DEF OwnerInv

LEMMA CloseOwner ==
    ASSUME LedgerInv, LedgerInv', OwnerInv, NEW c \in Callers, NEW l \in {"Closed", "Shutdown"}, Close(c, l)
    PROVE  OwnerInv'
<1>1. UNCHANGED <<kind, prep, queue, tickets, status, processing, pc, work, publication>>
  BY DEF Close, Settle, lifeVars, admitVars, opVars, queueVars, ledgerVars, slotVars, cancelVars,
     runnerVars, callerVars
<1>2. /\ phase[c] = "free" /\ lifecycle = "Open" /\ lifecycle' # "Open"
      /\ operations' = {} /\ preparing' = NoId /\ active' = NoId
  BY DEF Close
<1>3. \A d \in Callers :
         /\ phase'[d] = (IF d = c THEN "deferred" ELSE phase[d])
         /\ call'[d] = (IF d = c THEN "close" ELSE call[d])
         /\ todo'[d] = (IF d = c THEN Turns(operations) ELSE todo[d])
         /\ drained'[d] = (IF d = c THEN {} ELSE drained[d])
  BY DEF Close, Settle, LedgerInv, TypeInv, TypeOK
<1>4. todo[c] = {} /\ drained[c] = {} /\ \A d \in Callers : Owed(d)' = IF d = c THEN Turns(operations) ELSE Owed(d)
  BY <1>2, <1>3 DEF OwnerInv, CallerStands, Owed
<1>5. Panicked' = Panicked /\ InHand' = InHand /\ Turns(queue)' = Turns(queue) /\ Turns(operations)' = {}
  BY <1>1, <1>2 DEF Panicked, InHand, Turns
<1>6. HeldSomewhere'
  <2>1. Owed(c) = {}
    BY <1>4 DEF Owed
  <2> QED  BY <1>1, <1>4, <1>5, <2>1 DEF OwnerInv, HeldSomewhere
<1>7. PlacesApart'
  BY <1>1, <1>2, <1>3, <1>4, <1>5 DEF OwnerInv, PlacesApart, InHand, LedgerInv, TypeInv, TypeOK
<1>8. CallersApart'
  <2>1. \A d \in Callers : todo'[d] \cap drained'[d] = {}
    BY <1>3 DEF OwnerInv, CallersApart
  <2>2. \A t \in Turns(operations) : t \notin queue \cup InHand \cup Panicked
    BY DEF Turns, InHand, Panicked, OwnerInv, PlacesApart
  <2>3. \A d \in Callers : Turns(operations) \cap Owed(d) = {}
    BY DEF OwnerInv, CallersApart, Turns
  <2> QED  BY <1>1, <1>2, <1>4, <1>5, <2>1, <2>2, <2>3 DEF OwnerInv, CallersApart
<1>9. CallerStands'
  BY <1>1, <1>2, <1>3, <1>4, <1>5 DEF OwnerInv, CallerStands, LedgerInv, TypeInv, TypeOK
<1>10. AdmittedInv'
  BY <1>1, <1>2, <1>3, <1>4, <1>5 DEF OwnerInv, AdmittedInv, LedgerInv, TypeInv, TypeOK
<1>11. SlotInv'
  BY <1>1, <1>2, <1>3, <1>4, <1>5 DEF OwnerInv, SlotInv, Holding, LedgerInv, TypeInv, TypeOK
<1> QED  BY <1>6, <1>7, <1>8, <1>9, <1>10, <1>11 DEF OwnerInv

LEMMA CallerRetireOwner ==
    ASSUME LedgerInv, LedgerInv', OwnerInv, NEW c \in Callers, CallerRetire(c)
    PROVE  OwnerInv'
<1>1. UNCHANGED <<lifecycle, kind, operations, preparing, prep, queue, status, active, processing,
       pc, work, phase, call, drained>>
  BY DEF CallerRetire, RetireTurn, lifeVars, admitVars, opVars, queueVars, ledgerVars, slotVars,
     cancelVars, runnerVars, callerVars
<1>2. PICK t \in todo[c] : /\ RetireTurn(t, reason[c]) /\ todo' = [todo EXCEPT ![c] = @ \ {t}]
                        /\ publication' = IF outcomes[t] = None THEN [publication EXCEPT ![c] = t]
                                                                ELSE publication
  BY DEF CallerRetire
<1>3. /\ t \in Ids /\ t \in Owed(c) /\ t \notin drained[c] /\ t \in tickets
      /\ phase[c] \in {"deferred", "drained"}
  BY <1>2 DEF Owed, OwnerInv, HeldSomewhere, CallersApart, LedgerInv, TypeInv, TypeOK, CallerRetire
<1>4. outcomes[t] = None
  BY <1>3 DEF LedgerInv, OutcomeLedger, KindInv
<1>5. tickets' = tickets \ {t} /\ publication' = [publication EXCEPT ![c] = t]
  BY <1>2, <1>4 DEF RetireTurn
<1>6. \A d \in Callers : Owed(d)' = IF d = c THEN Owed(c) \ {t} ELSE Owed(d)
  BY <1>1, <1>2, <1>3 DEF Owed, LedgerInv, TypeInv, TypeOK
<1>7. HeldSomewhere'
  <2>1. t \notin operations \cup queue \cup InHand \cup Panicked /\ \A d \in Callers \ {c} : t \notin Owed(d)
    BY <1>3 DEF OwnerInv, CallersApart
  <2>2. /\ Turns(operations)' = Turns(operations) /\ Turns(queue)' = Turns(queue)
        /\ InHand' = InHand /\ Panicked' = Panicked
    BY <1>1 DEF Turns, InHand, Panicked
  <2> QED  BY <1>5, <1>6, <2>1, <2>2 DEF OwnerInv, HeldSomewhere, Turns
<1>8. CallersApart'
  <2>1. \A d \in Callers : todo'[d] \cap drained'[d] = {}
    BY <1>1, <1>2 DEF OwnerInv, CallersApart, LedgerInv, TypeInv, TypeOK
  <2>2. InHand' = InHand /\ Panicked' = Panicked
    BY <1>1 DEF InHand, Panicked
  <2> QED  BY <1>1, <1>6, <2>1, <2>2 DEF OwnerInv, CallersApart
<1>9. CallerStands'
  BY <1>1, <1>2, <1>3, <1>5 DEF OwnerInv, CallerStands, LedgerInv, TypeInv, TypeOK
<1>10. PlacesApart' /\ AdmittedInv' /\ SlotInv'
  BY <1>1 DEF OwnerInv, PlacesApart, InHand, AdmittedInv, SlotInv, Holding
<1> QED  BY <1>7, <1>8, <1>9, <1>10 DEF OwnerInv

LEMMA CallerPublishOwner ==
    ASSUME LedgerInv, LedgerInv', OwnerInv, NEW c \in Callers, CallerPublish(c)
    PROVE  OwnerInv'
<1>1. UNCHANGED <<lifecycle, kind, operations, preparing, prep, queue, tickets, status, active,
       processing, pc, work, phase, call, todo, drained>>
  BY DEF CallerPublish, lifeVars, admitVars, opVars, queueVars, ledgerVars, slotVars, cancelVars,
     runnerVars, callerVars
<1>2. publication' = [publication EXCEPT ![c] = NoId]
  BY DEF CallerPublish
<1>3. CallerStands'
  BY <1>1, <1>2 DEF OwnerInv, CallerStands, LedgerInv, TypeInv, TypeOK
<1>4. HeldSomewhere' /\ PlacesApart' /\ CallersApart' /\ AdmittedInv' /\ SlotInv'
  BY <1>1 DEF OwnerInv, HeldSomewhere, Turns, InHand, Panicked, Owed, PlacesApart, CallersApart,
     AdmittedInv, SlotInv, Holding
<1> QED  BY <1>3, <1>4 DEF OwnerInv

LEMMA CallerMovesOwner ==
    ASSUME LedgerInv, LedgerInv', OwnerInv, NEW c \in Callers, CallerDeferredDone(c) \/ CallerFire(c)
    PROVE  OwnerInv'
<1>1. UNCHANGED <<lifecycle, kind, operations, preparing, prep, queue, tickets, status, active,
       processing, pc, work, call, publication>>
  BY DEF CallerDeferredDone, CallerFire, lifeVars, admitVars, opVars, queueVars, ledgerVars,
     slotVars, cancelVars, runnerVars, callerVars
<1>2. /\ phase[c] \in {"deferred", "fire"} /\ todo[c] = {} /\ publication[c] = NoId
  BY DEF CallerDeferredDone, CallerFire, Settled, OwnerInv, CallerStands
<1>3. \A d \in Callers \ {c} : phase'[d] = phase[d] /\ todo'[d] = todo[d] /\ drained'[d] = drained[d]
  BY DEF CallerDeferredDone, CallerFire, LedgerInv, TypeInv, TypeOK
<1>4. \/ phase'[c] = "drained" /\ todo'[c] = drained[c] /\ drained'[c] = {} /\ call[c] # "close"
      \/ phase'[c] = "fire" /\ call[c] = "cancel_existing" /\ todo'[c] = {} /\ drained'[c] = drained[c]
      \/ phase'[c] = "drain" /\ call[c] = "close" /\ todo'[c] = {} /\ drained'[c] = drained[c]
  <2>1. CASE CallerFire(c)
    BY <2>1 DEF CallerFire, LedgerInv, TypeInv, TypeOK, OwnerInv, CallerStands
  <2>2. CASE CallerDeferredDone(c)
    BY <1>2, <2>2 DEF CallerDeferredDone, LedgerInv, TypeInv, TypeOK
  <2> QED  BY <2>1, <2>2
<1>5. HeldSomewhere'
  <2>1. \A d \in Callers : Owed(d)' = Owed(d)
    <3>1. Owed(c)' = Owed(c)
      BY <1>2, <1>4 DEF Owed
    <3>2. \A d \in Callers \ {c} : Owed(d)' = Owed(d)
      BY <1>3 DEF Owed
    <3> QED  BY <3>1, <3>2
  <2> QED  BY <1>1, <2>1 DEF OwnerInv, HeldSomewhere, Turns, InHand, Panicked
<1>6. CallersApart'
  <2>1. \A d \in Callers : Owed(d)' = Owed(d)
    <3>1. Owed(c)' = Owed(c)
      BY <1>2, <1>4 DEF Owed
    <3>2. \A d \in Callers \ {c} : Owed(d)' = Owed(d)
      BY <1>3 DEF Owed
    <3> QED  BY <3>1, <3>2
  <2>2. \A d \in Callers : todo'[d] \cap drained'[d] = {}
    BY <1>1, <1>2, <1>3, <1>4 DEF OwnerInv, CallersApart, LedgerInv, TypeInv, TypeOK
  <2> QED  BY <1>1, <2>1, <2>2 DEF OwnerInv, CallersApart, InHand, Panicked
<1>7. CallerStands'
  BY <1>1, <1>2, <1>3, <1>4 DEF OwnerInv, CallerStands
<1>8. PlacesApart' /\ AdmittedInv' /\ SlotInv'
  BY <1>1 DEF OwnerInv, PlacesApart, InHand, AdmittedInv, SlotInv, Holding
<1> QED  BY <1>5, <1>6, <1>7, <1>8 DEF OwnerInv

LEMMA CallerDrainOwner ==
    ASSUME LedgerInv, LedgerInv', OwnerInv, NEW c \in Callers, CallerDrain(c)
    PROVE  OwnerInv'
<1>1. UNCHANGED <<lifecycle, kind, operations, preparing, prep, tickets, status, active,
       processing, pc, work, call, drained, publication>>
  BY DEF CallerDrain, lifeVars, admitVars, opVars, queueVars, ledgerVars, slotVars, cancelVars,
     runnerVars, callerVars
<1>2. /\ phase[c] = "drain" /\ phase' = [phase EXCEPT ![c] = "drained"]
      /\ queue' = {} /\ todo' = [todo EXCEPT ![c] = Turns(queue)]
  BY DEF CallerDrain
<1>3. todo[c] = {} /\ drained[c] = {} /\ \A d \in Callers : Owed(d)' = IF d = c THEN Turns(queue) ELSE Owed(d)
  BY <1>1, <1>2 DEF OwnerInv, CallerStands, Owed, LedgerInv, TypeInv, TypeOK
<1>4. Panicked' = Panicked /\ InHand' = InHand /\ Turns(operations)' = Turns(operations) /\ Turns(queue)' = {}
  BY <1>1, <1>2 DEF Panicked, InHand, Turns
<1>5. HeldSomewhere'
  <2>1. Owed(c) = {}
    BY <1>3 DEF Owed
  <2> QED  BY <1>1, <1>3, <1>4, <2>1 DEF OwnerInv, HeldSomewhere
<1>6. PlacesApart'
  BY <1>1, <1>2, <1>3, <1>4 DEF OwnerInv, PlacesApart, InHand, LedgerInv, TypeInv, TypeOK
<1>7. CallersApart'
  <2>1. \A d \in Callers : todo'[d] \cap drained'[d] = {}
    BY <1>1, <1>2, <1>3 DEF OwnerInv, CallersApart, LedgerInv, TypeInv, TypeOK
  <2>2. \A t \in Turns(queue) : t \notin operations \cup InHand \cup Panicked
    BY DEF Turns, InHand, Panicked, OwnerInv, PlacesApart
  <2>3. \A d \in Callers : Turns(queue) \cap Owed(d) = {}
    BY DEF OwnerInv, CallersApart, Turns
  <2> QED  BY <1>1, <1>2, <1>3, <1>4, <2>1, <2>2, <2>3 DEF OwnerInv, CallersApart
<1>8. CallerStands'
  BY <1>1, <1>2, <1>3, <1>4 DEF OwnerInv, CallerStands, LedgerInv, TypeInv, TypeOK
<1>9. AdmittedInv'
  BY <1>1, <1>2, <1>3, <1>4 DEF OwnerInv, AdmittedInv, LedgerInv, TypeInv, TypeOK
<1>10. SlotInv'
  BY <1>1 DEF OwnerInv, SlotInv, Holding
<1> QED  BY <1>5, <1>6, <1>7, <1>8, <1>9, <1>10 DEF OwnerInv

LEMMA CallerDoneOwner ==
    ASSUME LedgerInv, LedgerInv', OwnerInv, NEW c \in Callers, CallerDone(c)
    PROVE  OwnerInv'
<1>1. UNCHANGED <<lifecycle, kind, operations, preparing, prep, queue, tickets, status, active,
       processing, pc, work, todo, drained, publication>>
  BY DEF CallerDone, lifeVars, admitVars, opVars, queueVars, ledgerVars, slotVars, cancelVars,
     runnerVars, callerVars
<1>2. /\ phase[c] = "drained" /\ todo[c] = {} /\ publication[c] = NoId /\ drained[c] = {}
      /\ phase' = [phase EXCEPT ![c] = "free"] /\ call' = [call EXCEPT ![c] = "none"]
  BY DEF CallerDone, Settled, OwnerInv, CallerStands
<1>3. CallerStands'
  BY <1>1, <1>2 DEF OwnerInv, CallerStands, LedgerInv, TypeInv, TypeOK
<1>4. HeldSomewhere' /\ PlacesApart' /\ CallersApart' /\ AdmittedInv' /\ SlotInv'
  BY <1>1 DEF OwnerInv, HeldSomewhere, Turns, InHand, Panicked, Owed, PlacesApart, CallersApart,
     AdmittedInv, SlotInv, Holding
<1> QED  BY <1>3, <1>4 DEF OwnerInv

-----------------------------------------------------------------------------
LEMMA InitOwner == Init => OwnerInv
<1> SUFFICES ASSUME Init PROVE OwnerInv
  OBVIOUS
<1>1. HeldSomewhere /\ PlacesApart /\ CallersApart
  BY DEF Init, HeldSomewhere, PlacesApart, CallersApart, Turns, InHand, Panicked, Owed
<1>2. CallerStands /\ AdmittedInv /\ SlotInv
  BY DEF Init, CallerStands, AdmittedInv, SlotInv, Holding
<1> QED  BY <1>1, <1>2 DEF OwnerInv

LEMMA OwnerStep == LedgerInv /\ LedgerInv' /\ OwnerInv /\ [Next]_vars => OwnerInv'
<1> SUFFICES ASSUME LedgerInv, LedgerInv', OwnerInv, [Next]_vars PROVE OwnerInv'
  OBVIOUS
<1>1. CASE Push
  BY <1>1, PushOwner DEF Push
<1>2. CASE Runner \/ RunnerInterrupt \/ RunnerRefused
  BY <1>2, RunnerPopOwner, RunnerIdleOwner, RunnerInstallOwner, RunnerTurnOwner, RunnerInterruptOwner,
     RunnerRetireOwner, RunnerPublishOwner, RunnerControlOwner, RunnerFinishOwner DEF Runner
<1>3. ASSUME NEW c \in Callers, Call(c) PROVE OwnerInv'
  BY <1>3, AdmitCancelledOwner, CancelCorrelationOwner, CancelTurnOwner, RemoveOwner, CancelExistingOwner,
     ClearOwner, CloseOwner DEF Call
<1>4. ASSUME NEW c \in Callers, CallerStep(c) PROVE OwnerInv'
  BY <1>4, CallerRetireOwner, CallerPublishOwner, CallerMovesOwner, CallerDrainOwner, CallerDoneOwner
     DEF CallerStep
<1>5. ASSUME NEW i \in Ids, Preparation(i) PROVE OwnerInv'
  BY <1>5, PrepareStaleOwner, PrepareReadyOwner, PreparePanicOwner, FailRetireOwner, FailEndsOwner
     DEF Preparation
<1>6. CASE UNCHANGED vars
  BY <1>6 DEF vars, lifeVars, admitVars, opVars, queueVars, ledgerVars, slotVars, runnerVars, callerVars,
     OwnerInv, HeldSomewhere, PlacesApart, CallersApart, CallerStands, AdmittedInv, SlotInv, Turns, InHand,
     Panicked, Owed
<1> QED  BY <1>1, <1>2, <1>3, <1>4, <1>5, <1>6 DEF Next

LEMMA OwnerAlways == Spec => [](LedgerInv /\ OwnerInv)
  BY LedgerAlways, InitOwner, OwnerStep, PTL DEF Spec

\* No cut, preparation or close loses a turn, and no two parties ever hold the
\* same one, for any number of callers and operations.
THEOREM OwnershipCorrect == Spec => []EveryTicketHeldOnce
<1>1. OwnerInv => EveryTicketHeldOnce
  BY DEF OwnerInv, HeldSomewhere, PlacesApart, CallersApart, EveryTicketHeldOnce
<1> QED  BY OwnerAlways, <1>1, PTL

\* Whoever has waited for a turn finds no slot of the actor that names it.
THEOREM ReusableCorrect == Spec => []WaiterSeesReusableActor
<1>1. ASSUME LedgerInv, OwnerInv PROVE WaiterSeesReusableActor
  <2> SUFFICES ASSUME NEW t \in Ids, resolved[t] # None
               PROVE  status # t /\ processing # t /\ active # t
    BY DEF WaiterSeesReusableActor
  <2>1. outcomes[t] # None
    BY <1>1 DEF LedgerInv, OutcomeLedger
  <2>2. kind[t] = "Turn" /\ t \notin tickets /\ t # NoId
    BY <1>1, <2>1, ActorAssumption DEF LedgerInv, KindInv, OutcomeLedger, Ids, NoId
  <2>3. t \notin InHand
    BY <1>1, <2>2 DEF OwnerInv, HeldSomewhere
  <2> QED  BY <1>1, <2>2, <2>3 DEF OwnerInv, SlotInv, InHand, Holding
<1> QED  BY OwnerAlways, <1>1, PTL

-----------------------------------------------------------------------------
(* Cuts: the runner. *)

LEMMA DoomFacts ==
    ASSUME LedgerInv, NEW S, NEW r \in Reasons, Doom(S, r)
    PROVE  \A t \in Ids : doomed'[t] # None <=> doomed[t] # None \/ t \in S
  BY DEF Doom, FirstReason, Reasons, None, LedgerInv, TypeInv, TypeOK

\* A turn that is being processed is in the runner's hand, and live.
LEMMA ProcessedInHand ==
    ASSUME LedgerInv, OwnerInv, processing # NoId, kind[processing] = "Turn"
    PROVE  processing = work /\ processing \in InHand
  BY DEF OwnerInv, SlotInv, InHand, Holding, LedgerInv, TypeInv, TypeOK

LEMMA InHandLive ==
    ASSUME LedgerInv, OwnerInv, NEW t \in InHand
    PROVE  t \in Ids /\ t = work /\ kind[t] = "Turn" /\ outcomes[t] = None
  BY DEF OwnerInv, HeldSomewhere, InHand, LedgerInv, OutcomeLedger

LEMMA RunnerPopCut ==
    ASSUME LedgerInv, LedgerInv', OwnerInv, OwnerInv', CutInv, RunnerPop
    PROVE  CutInv'
<1>1. UNCHANGED <<doomed, kind, operations, lifecycle, todo, drained, prep,
       cancellationGeneration, result, token, victim, outcomes>>
  BY DEF RunnerPop, lifeVars, admitVars, opVars, queueVars, ledgerVars, slotVars, cancelVars,
     runnerVars, callerVars
<1>2. PICK w \in queue : queue' = queue \ {w} /\ work' = w
  BY DEF RunnerPop
<1>3. /\ w \in Ids /\ pc' = "popped" /\ processingReason' = None
      /\ poppedGeneration' = cancellationGeneration
  BY <1>2 DEF RunnerPop, LedgerInv, TypeInv, TypeOK
<1>4. WaitingCut'
  BY <1>1, <1>2, <1>3 DEF CutInv, WaitingCut, Turns, Owed, Panicked, LedgerInv, TypeInv, TypeOK
<1>5. HandCut'
  <2>1. kind[w] = "Turn" => (doomed[w] # None <=> lifecycle # "Open")
    BY DEF CutInv, WaitingCut, Turns
  <2>2. cancellationGeneration \in Nat
    BY DEF LedgerInv, TypeInv, TypeOK
  <2> QED  BY <1>1, <1>2, <1>3, <2>1, <2>2 DEF HandCut
<1>6. TokenCut' /\ CancelledIffCut'
  BY <1>1 DEF CutInv, TokenCut, CancelledIffCut
<1> QED  BY <1>4, <1>5, <1>6 DEF CutInv

LEMMA RunnerIdleCut ==
    ASSUME LedgerInv, LedgerInv', OwnerInv, OwnerInv', CutInv, RunnerEmpty \/ RunnerWait \/ RunnerWake
    PROVE  CutInv'
<1>1. UNCHANGED <<doomed, kind, operations, queue, lifecycle, todo, drained, prep, work,
       processingReason, poppedGeneration, cancellationGeneration, result, token, victim,
       outcomes>>
  BY DEF RunnerEmpty, RunnerWait, RunnerWake, RunnerOnly, lifeVars, admitVars, opVars, queueVars,
     ledgerVars, slotVars, cancelVars, runnerVars, callerVars
<1>2. pc' \in {"loop", "drained", "waiting", "exited"}
  BY DEF RunnerEmpty, RunnerWait, RunnerWake
<1>3. HandCut'
  BY <1>1, <1>2 DEF CutInv, HandCut, LedgerInv, TypeInv, TypeOK
<1>4. WaitingCut' /\ TokenCut' /\ CancelledIffCut'
  BY <1>1 DEF CutInv, WaitingCut, Turns, Owed, Panicked, TokenCut, CancelledIffCut
<1> QED  BY <1>3, <1>4 DEF CutInv

LEMMA RunnerInstallCut ==
    ASSUME LedgerInv, LedgerInv', OwnerInv, OwnerInv', CutInv, RunnerInstall
    PROVE  CutInv'
<1>1. UNCHANGED <<doomed, kind, operations, queue, lifecycle, todo, drained, prep, work,
       processingReason, poppedGeneration, cancellationGeneration, token, victim, outcomes>>
  BY DEF RunnerInstall, RunnerTo, lifeVars, admitVars, opVars, queueVars, ledgerVars, slotVars,
     cancelVars, runnerVars, callerVars
<1>2. /\ pc = "popped" /\ kind[work] = "Turn"
      /\ \/ /\ pc' = "retire" /\ result' \in Reasons
            /\ processingReason # None \/ lifecycle # "Open"
         \/ pc' = "installed" /\ lifecycle = "Open" /\ processingReason = None
  <2>1. /\ processingReason \in Reasons \cup {None} /\ lifecycle \in {"Open", "Closed", "Shutdown"}
        /\ pc = "popped" /\ kind[work] = "Turn"
    BY DEF RunnerInstall, LedgerInv, TypeInv, TypeOK
  <2>2. cancellationGeneration # poppedGeneration => processingReason # None
    BY <2>1 DEF CutInv, HandCut
  <2> QED  BY <2>1, <2>2 DEF RunnerInstall, RunnerTo, Reasons
<1>3. HandCut'
  BY <1>1, <1>2 DEF CutInv, HandCut, LedgerInv, TypeInv, TypeOK
<1>4. WaitingCut' /\ TokenCut' /\ CancelledIffCut'
  BY <1>1 DEF CutInv, WaitingCut, Turns, Owed, Panicked, TokenCut, CancelledIffCut
<1> QED  BY <1>3, <1>4 DEF CutInv

LEMMA RunnerTurnCut ==
    ASSUME LedgerInv, LedgerInv', OwnerInv, OwnerInv', CutInv, RunnerPermit \/ RunnerStart \/ RunnerBackend
    PROVE  CutInv'
<1>1. UNCHANGED <<doomed, kind, operations, queue, lifecycle, todo, drained, prep, work,
       processingReason, poppedGeneration, cancellationGeneration, token, victim, outcomes>>
  BY DEF RunnerPermit, RunnerStart, RunnerBackend, RunnerTo, lifeVars, admitVars, opVars,
     queueVars, ledgerVars, slotVars, cancelVars, runnerVars, callerVars
<1>2. pc \in {"installed", "granted", "backend"} /\ work \in Ids /\ kind[work] = "Turn"
  BY DEF RunnerPermit, RunnerStart, RunnerBackend, LedgerInv, TypeInv, Holding, KindInv, TurnStates
<1>3. (token[work] # None \/ lifecycle # "Open" => doomed[work] # None) /\ token[work] \in Reasons \cup {None}
  BY <1>2 DEF CutInv, HandCut, TokenCut, LedgerInv, TypeInv, TypeOK
<1>4. \/ pc' \in {"granted", "backend"}
      \/ pc' = "retire" /\ (result' \in Reasons => doomed[work] # None)
  <2>1. "Completed" \notin Reasons /\ "Failed" \notin Reasons /\ "Closed" \in Reasons
    BY DEF Reasons
  <2> QED  BY <1>3, <2>1 DEF RunnerPermit, RunnerStart, RunnerBackend, RunnerTo, FirstReason
<1>5. HandCut'
  BY <1>1, <1>2, <1>3, <1>4 DEF CutInv, HandCut, LedgerInv, TypeInv, TypeOK
<1>6. WaitingCut' /\ TokenCut' /\ CancelledIffCut'
  BY <1>1 DEF CutInv, WaitingCut, Turns, Owed, Panicked, TokenCut, CancelledIffCut
<1> QED  BY <1>5, <1>6 DEF CutInv

LEMMA RunnerRefusedCut ==
    ASSUME LedgerInv, LedgerInv', OwnerInv, OwnerInv', CutInv, RunnerRefused
    PROVE  CutInv'
<1>1. UNCHANGED <<kind, operations, queue, lifecycle, todo, drained, prep, work, processingReason,
       poppedGeneration, cancellationGeneration, token, victim, outcomes>>
  BY DEF RunnerRefused, lifeVars, admitVars, opVars, queueVars, ledgerVars, slotVars, cancelVars,
     runnerVars, callerVars
<1>2. PICK r \in Refusals : pc' = "retire" /\ result' = r /\ Doom({work}, r)
  BY DEF RunnerRefused
<1>3. r \in Reasons /\ pc = "installed" /\ work \in InHand
  BY ActorAssumption DEF RunnerRefused, Reasons, InHand, LedgerInv, TypeInv, Holding, KindInv, TurnStates
<1>4. work \in Ids /\ kind[work] = "Turn" /\ outcomes[work] = None
  BY <1>3, InHandLive
<1>5. \A t \in Ids : doomed'[t] # None <=> doomed[t] # None \/ t = work
  BY <1>2, <1>3, DoomFacts
<1>6. /\ work \notin operations \cup queue \cup Panicked
  BY <1>3 DEF OwnerInv, PlacesApart, Panicked, InHand
<1>7. WaitingCut'
  BY <1>1, <1>4, <1>5, <1>6 DEF CutInv, WaitingCut, Turns, Owed, Panicked, LedgerInv, TypeInv, TypeOK
<1>8. HandCut'
  BY <1>1, <1>2, <1>3, <1>4, <1>5, <1>6 DEF CutInv, HandCut, LedgerInv, TypeInv, TypeOK
<1>9. TokenCut'
  BY <1>1, <1>5 DEF CutInv, TokenCut, LedgerInv, TypeInv, TypeOK, NoId
<1>10. CancelledIffCut'
  BY <1>1, <1>4, <1>5 DEF CutInv, CancelledIffCut
<1> QED  BY <1>7, <1>8, <1>9, <1>10 DEF CutInv

LEMMA RunnerInterruptCut ==
    ASSUME LedgerInv, LedgerInv', OwnerInv, OwnerInv', CutInv, RunnerInterrupt
    PROVE  CutInv'
<1>1. UNCHANGED <<doomed, kind, operations, lifecycle, todo, drained, prep, pc, work,
       processingReason, poppedGeneration, cancellationGeneration, result, token, victim,
       outcomes>>
  BY DEF RunnerInterrupt, lifeVars, admitVars, opVars, queueVars, ledgerVars, slotVars,
     cancelVars, runnerVars, callerVars
<1>2. queue' \subseteq queue
  BY DEF RunnerInterrupt
<1>3. WaitingCut'
  BY <1>1, <1>2 DEF CutInv, WaitingCut, Turns, Owed, Panicked, LedgerInv, TypeInv, TypeOK
<1>4. HandCut' /\ TokenCut' /\ CancelledIffCut'
  BY <1>1 DEF CutInv, HandCut, TokenCut, CancelledIffCut
<1> QED  BY <1>3, <1>4 DEF CutInv

LEMMA RunnerRetireCut ==
    ASSUME LedgerInv, LedgerInv', OwnerInv, OwnerInv', CutInv, RunnerRetire
    PROVE  CutInv'
<1>1. UNCHANGED <<doomed, kind, operations, queue, lifecycle, todo, drained, prep, work,
       poppedGeneration, cancellationGeneration, token, victim>>
  BY DEF RunnerRetire, lifeVars, admitVars, opVars, queueVars, ledgerVars, slotVars, cancelVars,
     runnerVars, callerVars
<1>2. pc = "retire" /\ pc' \in {"publish", "finish"} /\ RetireTurn(work, result) /\ work \in InHand
  BY DEF RunnerRetire, InHand, LedgerInv, TypeInv, Holding, KindInv, TurnStates
<1>3. work \in Ids /\ outcomes[work] = None /\ processing = work
  BY <1>2, InHandLive DEF OwnerInv, SlotInv
<1>4. outcomes' = [outcomes EXCEPT ![work] =
                     IF processingReason # None /\ result \notin Reasons THEN processingReason ELSE result]
  BY <1>2, <1>3 DEF RetireTurn
<1>5. outcomes'[work] \in Reasons <=> processingReason # None \/ result \in Reasons
  BY <1>3, <1>4 DEF LedgerInv, TypeInv, TypeOK
<1>6. \A t \in Ids \ {work} : outcomes'[t] = outcomes[t]
  BY <1>4 DEF LedgerInv, TypeInv, TypeOK
<1>7. HandCut'
  BY <1>1, <1>2, <1>3, <1>4, <1>5, <1>6 DEF CutInv, HandCut, LedgerInv, TypeInv, TypeOK
<1>8. CancelledIffCut'
  BY <1>1, <1>2, <1>3, <1>5, <1>6 DEF CutInv, CancelledIffCut, HandCut
<1>9. WaitingCut' /\ TokenCut'
  BY <1>1 DEF CutInv, WaitingCut, Turns, Owed, Panicked, TokenCut
<1> QED  BY <1>7, <1>8, <1>9 DEF CutInv

LEMMA RunnerRestCut ==
    ASSUME LedgerInv, LedgerInv', OwnerInv, OwnerInv', CutInv, RunnerPublish \/ RunnerInstallControl \/ RunnerControlDone
    PROVE  CutInv'
<1>1. UNCHANGED <<doomed, kind, operations, queue, lifecycle, todo, drained, prep, work,
       processingReason, poppedGeneration, cancellationGeneration, token, victim, outcomes>>
  BY DEF RunnerPublish, RunnerInstallControl, RunnerControlDone, RunnerTo, lifeVars, admitVars,
     opVars, queueVars, ledgerVars, slotVars, cancelVars, runnerVars, callerVars
<1>2. pc' \in {"finish", "control"}
  BY DEF RunnerPublish, RunnerInstallControl, RunnerControlDone, RunnerTo
<1>3. HandCut'
  BY <1>1, <1>2 DEF CutInv, HandCut, LedgerInv, TypeInv, TypeOK
<1>4. WaitingCut' /\ TokenCut' /\ CancelledIffCut'
  BY <1>1 DEF CutInv, WaitingCut, Turns, Owed, Panicked, TokenCut, CancelledIffCut
<1> QED  BY <1>3, <1>4 DEF CutInv

LEMMA RunnerFinishCut ==
    ASSUME LedgerInv, LedgerInv', OwnerInv, OwnerInv', CutInv, RunnerFinish
    PROVE  CutInv'
<1>1. UNCHANGED <<doomed, kind, operations, queue, lifecycle, todo, drained, prep,
       cancellationGeneration, result, token, victim, outcomes>>
  BY DEF RunnerFinish, lifeVars, admitVars, opVars, queueVars, ledgerVars, slotVars, cancelVars,
     runnerVars, callerVars
<1>2. pc' = "loop" /\ poppedGeneration' = 0
  BY DEF RunnerFinish
<1>3. HandCut'
  BY <1>1, <1>2 DEF CutInv, HandCut, LedgerInv, TypeInv, TypeOK
<1>4. WaitingCut' /\ TokenCut' /\ CancelledIffCut'
  BY <1>1 DEF CutInv, WaitingCut, Turns, Owed, Panicked, TokenCut, CancelledIffCut
<1> QED  BY <1>3, <1>4 DEF CutInv

-----------------------------------------------------------------------------
(* Cuts: the preparation tasks and the callers after their cuts. *)

LEMMA PrepareStaleCut ==
    ASSUME LedgerInv, LedgerInv', OwnerInv, OwnerInv', CutInv, NEW i \in Ids, PrepareStale(i)
    PROVE  CutInv'
<1>1. UNCHANGED <<doomed, kind, operations, queue, lifecycle, todo, drained, pc, work,
       processingReason, poppedGeneration, cancellationGeneration, result, token, victim,
       outcomes>>
  BY DEF PrepareStale, lifeVars, admitVars, opVars, queueVars, ledgerVars, slotVars, cancelVars,
     runnerVars, callerVars
<1>2. prep' = [prep EXCEPT ![i] = "none"]
  BY DEF PrepareStale
<1>3. WaitingCut'
  BY <1>1, <1>2 DEF CutInv, WaitingCut, Turns, Owed, Panicked, LedgerInv, TypeInv, TypeOK
<1>4. HandCut' /\ TokenCut' /\ CancelledIffCut'
  BY <1>1 DEF CutInv, HandCut, TokenCut, CancelledIffCut
<1> QED  BY <1>3, <1>4 DEF CutInv

LEMMA PrepareReadyCut ==
    ASSUME LedgerInv, LedgerInv', OwnerInv, OwnerInv', CutInv, NEW i \in Ids, PrepareReady(i)
    PROVE  CutInv'
<1>1. UNCHANGED <<doomed, kind, lifecycle, todo, drained, pc, work, processingReason,
       poppedGeneration, cancellationGeneration, result, token, victim, outcomes>>
  BY DEF PrepareReady, lifeVars, admitVars, opVars, queueVars, ledgerVars, slotVars, cancelVars,
     runnerVars, callerVars
<1>2. /\ i \in operations /\ lifecycle = "Open" /\ kind[i] = "Turn"
      /\ DriveOperations(operations \ {i}, queue \cup {i}, [prep EXCEPT ![i] = "none"])
  BY DEF PrepareReady, Current, LedgerInv, KindInv
<1>3. PICK ready \in SUBSET (operations \ {i}) :
         Driven(ready, operations \ {i}, queue \cup {i}, [prep EXCEPT ![i] = "none"])
  BY <1>2, DriveMoves DEF LedgerInv, TypeInv, TypeOK, PrepStates
<1>4. /\ operations' \subseteq operations /\ queue' \subseteq queue \cup operations
      /\ Panicked' \subseteq Panicked \cup {i}
  BY <1>2, <1>3 DEF Driven, Panicked, LedgerInv, TypeInv, TypeOK
<1>5. doomed[i] = None
  BY <1>2 DEF CutInv, WaitingCut, Turns
<1>6. WaitingCut'
  <2>1. \A t \in Turns(operations)' : t \in Turns(operations)
    BY <1>1, <1>4 DEF Turns
  <2>2. \A t \in Turns(queue)' : t \in Turns(operations) \/ t \in Turns(queue)
    BY <1>1, <1>4 DEF Turns
  <2> QED  BY <1>1, <1>2, <1>4, <1>5, <2>1, <2>2 DEF CutInv, WaitingCut, Owed
<1>7. HandCut' /\ TokenCut' /\ CancelledIffCut'
  BY <1>1 DEF CutInv, HandCut, TokenCut, CancelledIffCut
<1> QED  BY <1>6, <1>7 DEF CutInv

LEMMA PreparePanicCut ==
    ASSUME LedgerInv, LedgerInv', OwnerInv, OwnerInv', CutInv, NEW i \in Ids, PreparePanic(i)
    PROVE  CutInv'
<1>1. UNCHANGED <<doomed, kind, lifecycle, todo, drained, pc, work, processingReason,
       poppedGeneration, cancellationGeneration, result, token, victim, outcomes>>
  BY DEF PreparePanic, lifeVars, admitVars, opVars, queueVars, ledgerVars, slotVars, cancelVars,
     runnerVars, callerVars
<1>2. /\ i \in operations /\ lifecycle = "Open" /\ kind[i] = "Turn"
      /\ DriveOperations(operations \ {i}, queue, [prep EXCEPT ![i] = "failing"])
  BY DEF PreparePanic, Current, LedgerInv, KindInv
<1>3. PICK ready \in SUBSET (operations \ {i}) :
         Driven(ready, operations \ {i}, queue, [prep EXCEPT ![i] = "failing"])
  BY <1>2, DriveMoves DEF LedgerInv, TypeInv, TypeOK, PrepStates
<1>4. /\ operations' \subseteq operations /\ queue' \subseteq queue \cup operations
      /\ Panicked' \subseteq Panicked \cup {i}
  BY <1>2, <1>3 DEF Driven, Panicked, LedgerInv, TypeInv, TypeOK
<1>5. doomed[i] = None
  BY <1>2 DEF CutInv, WaitingCut, Turns
<1>6. WaitingCut'
  <2>1. \A t \in Turns(operations)' : t \in Turns(operations)
    BY <1>1, <1>4 DEF Turns
  <2>2. \A t \in Turns(queue)' : t \in Turns(operations) \/ t \in Turns(queue)
    BY <1>1, <1>4 DEF Turns
  <2> QED  BY <1>1, <1>2, <1>4, <1>5, <2>1, <2>2 DEF CutInv, WaitingCut, Owed
<1>7. HandCut' /\ TokenCut' /\ CancelledIffCut'
  BY <1>1 DEF CutInv, HandCut, TokenCut, CancelledIffCut
<1> QED  BY <1>6, <1>7 DEF CutInv

LEMMA FailRetireCut ==
    ASSUME LedgerInv, LedgerInv', OwnerInv, OwnerInv', CutInv, NEW i \in Ids, FailRetire(i)
    PROVE  CutInv'
<1>1. UNCHANGED <<doomed, kind, operations, queue, lifecycle, todo, drained, pc, work,
       processingReason, poppedGeneration, cancellationGeneration, result, token, victim>>
  BY DEF FailRetire, lifeVars, admitVars, opVars, queueVars, ledgerVars, slotVars, cancelVars,
     runnerVars, callerVars
<1>2. prep[i] = "failing" /\ RetireTurn(i, "Failed") /\ i \in Panicked /\ Panicked' \subseteq Panicked
  BY DEF FailRetire, Panicked, LedgerInv, TypeInv, TypeOK
<1>3. kind[i] = "Turn" /\ processing # i /\ doomed[i] = None
  <2>1. kind[i] = "Turn" /\ doomed[i] = None /\ i # NoId
    BY <1>2, ActorAssumption DEF LedgerInv, KindInv, CutInv, WaitingCut, Ids, NoId
  <2>2. i \notin InHand
    BY <1>2 DEF OwnerInv, PlacesApart
  <2> QED  BY <2>1, <2>2, ProcessedInHand
<1>4. \A t \in Ids : outcomes'[t] = IF t = i /\ outcomes[i] = None THEN "Failed" ELSE outcomes[t]
  BY <1>2, <1>3 DEF RetireTurn, LedgerInv, TypeInv, TypeOK
<1>5. WaitingCut'
  BY <1>1, <1>2 DEF CutInv, WaitingCut, Turns, Owed
<1>6. CancelledIffCut'
  BY <1>1, <1>3, <1>4 DEF CutInv, CancelledIffCut, Reasons
<1>7. HandCut' /\ TokenCut'
  BY <1>1 DEF CutInv, HandCut, TokenCut
<1> QED  BY <1>5, <1>6, <1>7 DEF CutInv

LEMMA FailEndsCut ==
    ASSUME LedgerInv, LedgerInv', OwnerInv, OwnerInv', CutInv, NEW i \in Ids, FailPublish(i) \/ FailDone(i)
    PROVE  CutInv'
<1>1. UNCHANGED <<doomed, kind, operations, queue, lifecycle, todo, drained, pc, work,
       processingReason, poppedGeneration, cancellationGeneration, result, token, victim,
       outcomes>>
  BY DEF FailPublish, FailDone, lifeVars, admitVars, opVars, queueVars, ledgerVars, slotVars,
     cancelVars, runnerVars, callerVars
<1>2. Panicked' \subseteq Panicked
  BY DEF FailPublish, FailDone, Panicked, LedgerInv, TypeInv, TypeOK
<1>3. WaitingCut'
  BY <1>1, <1>2 DEF CutInv, WaitingCut, Turns, Owed
<1>4. HandCut' /\ TokenCut' /\ CancelledIffCut'
  BY <1>1 DEF CutInv, HandCut, TokenCut, CancelledIffCut
<1> QED  BY <1>3, <1>4 DEF CutInv

LEMMA CallerRetireCut ==
    ASSUME LedgerInv, LedgerInv', OwnerInv, OwnerInv', CutInv, NEW c \in Callers, CallerRetire(c)
    PROVE  CutInv'
<1>1. UNCHANGED <<doomed, kind, operations, queue, lifecycle, drained, prep, pc, work,
       processingReason, poppedGeneration, cancellationGeneration, result, token, victim>>
  BY DEF CallerRetire, lifeVars, admitVars, opVars, queueVars, ledgerVars, slotVars, cancelVars,
     runnerVars, callerVars
<1>2. PICK t \in todo[c] : RetireTurn(t, reason[c]) /\ todo' = [todo EXCEPT ![c] = @ \ {t}] /\ phase[c] # "free"
  BY DEF CallerRetire
<1>3. t \in Ids /\ doomed[t] # None /\ reason[c] \in Reasons
  BY <1>2 DEF CutInv, WaitingCut, Owed, LedgerInv, KindInv, TypeInv, TypeOK
<1>4. \A u \in Ids : outcomes'[u] = outcomes[u] \/ (u = t /\ outcomes'[u] \in Reasons)
  BY <1>2, <1>3 DEF RetireTurn, LedgerInv, TypeInv, TypeOK
<1>5. \A d \in Callers : Owed(d)' \subseteq Owed(d)
  BY <1>1, <1>2 DEF Owed, LedgerInv, TypeInv, TypeOK
<1>6. WaitingCut'
  BY <1>1, <1>5 DEF CutInv, WaitingCut, Turns, Panicked
<1>7. CancelledIffCut'
  BY <1>1, <1>3, <1>4 DEF CutInv, CancelledIffCut
<1>8. HandCut' /\ TokenCut'
  BY <1>1 DEF CutInv, HandCut, TokenCut
<1> QED  BY <1>6, <1>7, <1>8 DEF CutInv

LEMMA CallerRestCut ==
    ASSUME LedgerInv, LedgerInv', OwnerInv, OwnerInv', CutInv, NEW c \in Callers, CallerPublish(c) \/ CallerDeferredDone(c) \/ CallerDone(c)
    PROVE  CutInv'
<1>1. UNCHANGED <<doomed, kind, operations, queue, lifecycle, prep, pc, work, processingReason,
       poppedGeneration, cancellationGeneration, result, token, victim, outcomes>>
  BY DEF CallerPublish, CallerDeferredDone, CallerDone, lifeVars, admitVars, opVars, queueVars,
     ledgerVars, slotVars, cancelVars, runnerVars, callerVars
<1>2. \A d \in Callers : Owed(d)' \subseteq Owed(d)
  <2>1. CASE CallerPublish(c) \/ CallerDone(c)
    BY <2>1 DEF CallerPublish, CallerDone, Owed
  <2>2. CASE CallerDeferredDone(c)
    <3>1. \/ UNCHANGED <<todo, drained>>
          \/ todo' = [todo EXCEPT ![c] = drained[c]] /\ drained' = [drained EXCEPT ![c] = {}]
      BY <2>2 DEF CallerDeferredDone
    <3> QED  BY <3>1 DEF Owed, LedgerInv, TypeInv, TypeOK
  <2> QED  BY <2>1, <2>2
<1>3. WaitingCut'
  BY <1>1, <1>2 DEF CutInv, WaitingCut, Turns, Panicked
<1>4. HandCut' /\ TokenCut' /\ CancelledIffCut'
  BY <1>1 DEF CutInv, HandCut, TokenCut, CancelledIffCut
<1> QED  BY <1>3, <1>4 DEF CutInv

LEMMA CallerFireCut ==
    ASSUME LedgerInv, LedgerInv', OwnerInv, OwnerInv', CutInv, NEW c \in Callers, CallerFire(c)
    PROVE  CutInv'
<1>1. UNCHANGED <<doomed, kind, operations, queue, lifecycle, prep, pc, work, processingReason,
       poppedGeneration, cancellationGeneration, result, outcomes>>
  BY DEF CallerFire, lifeVars, admitVars, opVars, queueVars, ledgerVars, slotVars, cancelVars,
     runnerVars, callerVars
<1>2. /\ token' = (IF victim[c] # NoId THEN [token EXCEPT ![victim[c]] = FirstReason(@, reason[c])] ELSE token)
      /\ victim' = [victim EXCEPT ![c] = NoId] /\ \A d \in Callers : Owed(d)' \subseteq Owed(d)
  BY DEF CallerFire, Owed, LedgerInv, TypeInv, TypeOK
<1>3. \A t \in Ids : token'[t] = token[t] \/ (victim[c] # NoId /\ t = victim[c])
  BY <1>2 DEF LedgerInv, TypeInv, TypeOK
<1>4. \A d \in Callers : victim'[d] \in {victim[d], NoId}
  BY <1>2 DEF LedgerInv, TypeInv, TypeOK
<1>5. WaitingCut'
  BY <1>1, <1>2 DEF CutInv, WaitingCut, Turns, Panicked
<1>6. TokenCut'
  BY <1>1, <1>3, <1>4 DEF CutInv, TokenCut
<1>7. HandCut' /\ CancelledIffCut'
  BY <1>1 DEF CutInv, HandCut, CancelledIffCut
<1> QED  BY <1>5, <1>6, <1>7 DEF CutInv

LEMMA CallerDrainCut ==
    ASSUME LedgerInv, LedgerInv', OwnerInv, OwnerInv', CutInv, NEW c \in Callers, CallerDrain(c)
    PROVE  CutInv'
<1>1. UNCHANGED <<doomed, kind, operations, lifecycle, drained, prep, pc, work, processingReason,
       poppedGeneration, cancellationGeneration, result, token, victim, outcomes>>
  BY DEF CallerDrain, lifeVars, admitVars, opVars, queueVars, ledgerVars, slotVars, cancelVars,
     runnerVars, callerVars
<1>2. queue' = {} /\ lifecycle # "Open"
  BY DEF CallerDrain, OwnerInv, CallerStands
<1>3. \A d \in Callers : Owed(d)' \subseteq Owed(d) \cup Turns(queue)
  BY <1>1 DEF CallerDrain, Owed, LedgerInv, TypeInv, TypeOK
<1>4. WaitingCut'
  BY <1>1, <1>2, <1>3 DEF CutInv, WaitingCut, Turns, Panicked
<1>5. HandCut' /\ TokenCut' /\ CancelledIffCut'
  BY <1>1 DEF CutInv, HandCut, TokenCut, CancelledIffCut
<1> QED  BY <1>4, <1>5 DEF CutInv

-----------------------------------------------------------------------------
(* Cuts: admission and the cuts themselves. *)

LEMMA RegisterCut ==
    ASSUME LedgerInv, LedgerInv', OwnerInv, OwnerInv', CutInv, NEW k \in Kinds, NEW key, Register(k, key), NEW id, id = nextOperationId',
           DriveOperations(operations \cup {id}, queue, prep),
           UNCHANGED <<lifecycle, pc, work, todo, drained, doomed, processingReason, poppedGeneration,
                       cancellationGeneration, result, token, victim, outcomes>>
    PROVE  CutInv'
<1>1. UNCHANGED <<doomed, lifecycle, todo, drained, pc, work, processingReason, poppedGeneration,
       cancellationGeneration, result, token, victim, outcomes>>
  BY DEF Settle
<1>2. id \in Ids /\ kind[id] = None /\ doomed[id] = None /\ lifecycle = "Open"
  <2>1. id \in Ids /\ id > nextOperationId
    BY ActorAssumption DEF Register, LedgerInv, TypeInv, TypeOK, Ids
  <2> QED  BY <2>1 DEF Register, LedgerInv, KindInv, CutInv, WaitingCut, None
<1>3. \A j \in Ids \ {id} : kind'[j] = kind[j]
  BY <1>2 DEF Register, LedgerInv, TypeInv, TypeOK
<1>4. PICK ready \in SUBSET (operations \cup {id}) : Driven(ready, operations \cup {id}, queue, prep)
  <2>1. TypeOK /\ operations \cup {id} \in SUBSET Ids /\ prep \in [Ids -> PrepStates]
    BY <1>2 DEF LedgerInv, TypeInv, TypeOK
  <2> QED  BY <2>1, DriveMoves
<1>5. /\ operations' \subseteq operations \cup {id} /\ queue' \subseteq queue \cup operations \cup {id}
      /\ Panicked' \subseteq Panicked
  BY <1>4 DEF Driven, Panicked
<1>6. WaitingCut'
  <2>1. \A t \in operations' \cup queue' : t \in Ids /\ (t # id => kind'[t] = kind[t])
    BY <1>2, <1>3, <1>5 DEF LedgerInv, TypeInv, TypeOK
  <2>2. \A t \in (Turns(operations) \cup Turns(queue))' : t = id \/ t \in Turns(operations) \/ t \in Turns(queue)
    BY <1>5, <2>1 DEF Turns
  <2>3. \A t \in Turns(operations) \cup Turns(queue) \cup {id} : doomed[t] = None
    BY <1>2 DEF CutInv, WaitingCut
  <2>4. \A d \in Callers : Owed(d)' = Owed(d)
    BY <1>1 DEF Owed
  <2>5. \A t \in Ids : doomed'[t] # None => kind'[t] = "Turn"
    BY <1>1, <1>2, <1>3 DEF CutInv, WaitingCut
  <2> QED  BY <1>1, <1>2, <1>5, <2>2, <2>3, <2>4, <2>5 DEF CutInv, WaitingCut
<1>7. HandCut'
  <2>1. work # NoId => kind'[work] = kind[work]
    BY <1>2, <1>3 DEF OwnerInv, AdmittedInv, LedgerInv, TypeInv, TypeOK
  <2>2. pc = "popped" => work # NoId
    BY ActorAssumption DEF LedgerInv, TypeInv, Holding, Ids, NoId
  <2> QED  BY <1>1, <2>1, <2>2 DEF CutInv, HandCut
<1>8. TokenCut'
  <2>1. \A t \in Ids : token[t] # None => t # id
    BY <1>2 DEF CutInv, TokenCut
  <2>2. \A c \in Callers : victim[c] # NoId => victim[c] # id /\ victim[c] \in Ids
    BY <1>2 DEF CutInv, TokenCut, LedgerInv, TypeInv, TypeOK
  <2> QED  BY <1>1, <1>3, <2>1, <2>2 DEF CutInv, TokenCut
<1>9. CancelledIffCut'
  BY <1>1 DEF CutInv, CancelledIffCut
<1> QED  BY <1>6, <1>7, <1>8, <1>9 DEF CutInv

LEMMA PushCut ==
    ASSUME LedgerInv, LedgerInv', OwnerInv, OwnerInv', CutInv, NEW key \in Correlations,
           AdmitTurn(key) \/ PushControl(key) \/ PushCompact(key)
    PROVE  CutInv'
<1> USE DEF lifeVars, slotVars, runnerVars, callerVars, ledgerVars, cancelVars
<1>1. PICK k \in Kinds : Register(k, key)
  BY DEF AdmitTurn, PushControl, PushCompact, PushOperation, Kinds
<1>2. UNCHANGED <<lifecycle, pc, work, todo, drained, doomed, processingReason, poppedGeneration,
                  cancellationGeneration, result, token, victim, outcomes>>
  BY DEF AdmitTurn, PushControl, PushCompact, PushOperation
<1>3. DriveOperations(operations \cup {nextOperationId'}, queue, prep)
  BY DEF AdmitTurn, PushControl, PushCompact, PushOperation
<1> QED  BY <1>1, <1>2, <1>3, RegisterCut

LEMMA AdmitCancelledCut ==
    ASSUME LedgerInv, LedgerInv', OwnerInv, OwnerInv', CutInv, NEW c \in Callers, NEW key \in Correlations, AdmitCancelled(c, key)
    PROVE  CutInv'
<1>1. UNCHANGED <<operations, queue, lifecycle, prep, pc, work, processingReason,
       poppedGeneration, cancellationGeneration, result, token, outcomes>>
  BY DEF AdmitCancelled, Settle, lifeVars, admitVars, opVars, queueVars, ledgerVars, slotVars,
     cancelVars, runnerVars, callerVars
<1>2. PICK id : id = nextOperationId'
  OBVIOUS
<1>3. id \in Ids /\ kind[id] = None /\ doomed[id] = None /\ outcomes[id] = None
  <2>1. id \in Ids /\ id > nextOperationId
    BY <1>2, ActorAssumption DEF AdmitCancelled, Register, LedgerInv, TypeInv, TypeOK, Ids
  <2> QED  BY <2>1 DEF LedgerInv, KindInv, CutInv, WaitingCut, None
<1>4. kind'[id] = "Turn" /\ \A j \in Ids \ {id} : kind'[j] = kind[j]
  BY <1>2, <1>3 DEF AdmitCancelled, Register, LedgerInv, TypeInv, TypeOK
<1>5. \A t \in Ids : doomed'[t] # None <=> doomed[t] # None \/ t = id
  <2>1. cancelledCorrelations[key] \in Reasons /\ Doom({id}, cancelledCorrelations[key])
    BY <1>2 DEF AdmitCancelled, LedgerInv, TypeInv, TypeOK
  <2> QED  BY <2>1, DoomFacts
<1>6. \A d \in Callers : Owed(d)' \subseteq Owed(d) \cup {id} /\ victim'[d] \in {victim[d], NoId}
  BY <1>2 DEF AdmitCancelled, Settle, Owed, LedgerInv, TypeInv, TypeOK
<1>7. id \notin operations \cup queue /\ id # work /\ prep[id] = "none"
  BY <1>3, ActorAssumption DEF OwnerInv, AdmittedInv, LedgerInv, KindInv, Ids, NoId, None
<1>8. WaitingCut'
  <2>1. Turns(operations)' = Turns(operations) /\ Turns(queue)' = Turns(queue) /\ Panicked' = Panicked
    BY <1>1, <1>4, <1>7 DEF Turns, Panicked, LedgerInv, TypeInv, TypeOK
  <2>2. \A t \in Turns(operations) \cup Turns(queue) \cup Panicked : t \in Ids /\ t # id
    BY <1>7 DEF Turns, Panicked, LedgerInv, TypeInv, TypeOK
  <2>3. \A d \in Callers : \A t \in Owed(d)' : doomed'[t] # None
    BY <1>3, <1>5, <1>6 DEF CutInv, WaitingCut, Owed, LedgerInv, TypeInv, TypeOK
  <2>4. \A t \in Ids : doomed'[t] # None => kind'[t] = "Turn"
    BY <1>4, <1>5 DEF CutInv, WaitingCut
  <2> QED  BY <1>1, <1>5, <2>1, <2>2, <2>3, <2>4 DEF CutInv, WaitingCut
<1>9. HandCut'
  <2>1. pc \in Holding => work \in Ids /\ kind'[work] = kind[work] /\ (doomed'[work] # None <=> doomed[work] # None)
    BY <1>4, <1>5, <1>7 DEF LedgerInv, TypeInv
  <2> QED  BY <1>1, <2>1 DEF CutInv, HandCut, Holding
<1>10. TokenCut'
  <2>1. \A t \in Ids : token[t] # None => t # id
    BY <1>3 DEF CutInv, TokenCut
  <2>2. \A d \in Callers : victim[d] # NoId => victim[d] # id /\ victim[d] \in Ids
    BY <1>3 DEF CutInv, TokenCut, LedgerInv, TypeInv, TypeOK
  <2> QED  BY <1>1, <1>4, <1>5, <1>6, <2>1, <2>2 DEF CutInv, TokenCut
<1>11. CancelledIffCut'
  BY <1>1, <1>3, <1>5 DEF CutInv, CancelledIffCut
<1> QED  BY <1>8, <1>9, <1>10, <1>11 DEF CutInv

-----------------------------------------------------------------------------
(* Cuts: the calls that cut. *)

\* What a cut takes out of the deques it dooms and owes; what it hits in the
\* runner's hand it dooms and the runner is told.
CutsOut(goneOps, goneQ, hit) ==
    /\ DriveOperations(operations \ goneOps, queue \ goneQ, prep)
    /\ \A t \in Ids : doomed'[t] # None <=> doomed[t] # None \/ t \in Turns(goneOps \cup goneQ \cup hit)
    /\ \A d \in Callers : Owed(d)' \subseteq Owed(d) \cup Turns(goneOps \cup goneQ)
    /\ \A d \in Callers : victim'[d] \in {victim[d], NoId} \cup hit
    /\ \A t \in Ids : token'[t] # None => token[t] # None \/ t \in hit
    /\ processingReason' # None <=> processingReason # None \/ hit # {}
    /\ \/ cancellationGeneration' = cancellationGeneration
       \/ cancellationGeneration' = cancellationGeneration + 1 /\ hit = {processing} \ {NoId}
    /\ UNCHANGED <<lifecycle, kind, outcomes, pc, work, poppedGeneration, result, processing>>

LEMMA CutsOutCut ==
    ASSUME LedgerInv, LedgerInv', OwnerInv, OwnerInv', CutInv,
           NEW goneOps \in SUBSET operations, NEW goneQ \in SUBSET queue,
           NEW hit \in SUBSET ({processing} \ {NoId}), CutsOut(goneOps, goneQ, hit)
    PROVE  CutInv'
<1> DEFINE cut == Turns(goneOps \cup goneQ \cup hit)
<1>1. UNCHANGED <<lifecycle, kind, outcomes, pc, work, poppedGeneration, result, processing>>
  BY DEF CutsOut
<1>2. PICK ready \in SUBSET (operations \ goneOps) :
         Driven(ready, operations \ goneOps, queue \ goneQ, prep)
  BY DriveMoves DEF CutsOut, LedgerInv, TypeInv, TypeOK
<1>3. /\ operations' \subseteq operations \ goneOps
      /\ queue' \subseteq (queue \ goneQ) \cup (operations \ goneOps)
      /\ lifecycle # "Open" => queue' \subseteq queue \ goneQ
      /\ Panicked' \subseteq Panicked
  BY <1>2 DEF Driven, Panicked, LedgerInv, TypeInv, TypeOK
<1>4. \A t \in hit : t = processing /\ t = work /\ t \in Ids /\ kind[t] # None
  BY DEF OwnerInv, SlotInv, AdmittedInv, LedgerInv, TypeInv, TypeOK
<1>5. \A t \in hit : kind[t] = "Turn" => t \in InHand
  BY <1>4, ProcessedInHand
<1>6. \A t \in cut : /\ t \in Ids /\ kind[t] = "Turn" /\ outcomes[t] = None
                     /\ t \notin operations' \cup queue' \cup Panicked
  <2> TAKE t \in cut
  <2>1. kind[t] = "Turn" /\ t \in goneOps \cup goneQ \cup hit
    BY DEF Turns
  <2>2. CASE t \in goneOps \cup goneQ
    <3>1. t \in tickets /\ t \in Ids
      BY <2>1, <2>2 DEF OwnerInv, HeldSomewhere, Turns, LedgerInv, TypeInv, TypeOK
    <3>2. t \notin operations' \cup queue' \cup Panicked
      BY <1>3, <2>2 DEF OwnerInv, PlacesApart, Panicked
    <3> QED  BY <2>1, <3>1, <3>2 DEF LedgerInv, OutcomeLedger
  <2>3. CASE t \in hit
    <3>1. t \in InHand /\ t = work
      BY <1>4, <1>5, <2>1, <2>3
    <3>2. t \notin operations \cup queue \cup Panicked
      BY <3>1 DEF OwnerInv, PlacesApart, Panicked
    <3> QED  BY <1>3, <2>1, <3>1, <3>2, InHandLive
  <2> QED  BY <2>1, <2>2, <2>3
<1>7. \A t \in Ids : doomed'[t] # None <=> doomed[t] # None \/ t \in cut
  BY DEF CutsOut
<1>8. Turns(goneOps \cup goneQ) \subseteq cut /\ \A t \in hit : kind[t] = "Turn" => t \in cut
  BY DEF Turns
<1> HIDE DEF cut
<1>9. WaitingCut'
  <2>1. \A t \in Ids : doomed'[t] # None => kind'[t] = "Turn"
    BY <1>1, <1>6, <1>7 DEF CutInv, WaitingCut
  <2>2. /\ \A t \in Turns(operations)' : t \in Turns(operations) /\ t \in Ids /\ t \notin cut
        /\ \A t \in Turns(queue)' : /\ t \in Turns(queue) \/ (t \in Turns(operations) /\ lifecycle = "Open")
                                    /\ t \in Ids /\ t \notin cut
    BY <1>1, <1>3, <1>6 DEF Turns, LedgerInv, TypeInv, TypeOK
  <2>3. \A t \in Turns(operations)' : doomed'[t] = None
    BY <1>7, <2>2 DEF CutInv, WaitingCut
  <2>4. \A t \in Turns(queue)' : doomed'[t] # None <=> lifecycle' # "Open"
    BY <1>1, <1>7, <2>2 DEF CutInv, WaitingCut
  <2>5. ASSUME NEW d \in Callers, NEW t \in Owed(d)' PROVE doomed'[t] # None
    <3>1. t \in Ids /\ (t \in Owed(d) \/ t \in cut)
      BY <1>6, <1>8 DEF CutsOut, Owed, LedgerInv, TypeInv, TypeOK
    <3> QED  BY <1>7, <3>1 DEF CutInv, WaitingCut
  <2>6. \A t \in Panicked' : doomed'[t] = None
    BY <1>3, <1>6, <1>7 DEF CutInv, WaitingCut, Panicked
  <2> QED  BY <2>1, <2>3, <2>4, <2>5, <2>6 DEF WaitingCut
<1>10. HandCut'
  <2>1. /\ poppedGeneration <= cancellationGeneration'
        /\ cancellationGeneration' # cancellationGeneration => hit = {processing} \ {NoId}
    BY DEF CutsOut, CutInv, HandCut, LedgerInv, TypeInv, TypeOK
  <2>2. processingReason' # None <=> processingReason # None \/ hit # {}
    BY DEF CutsOut
  <2>3. CASE pc \notin {"popped", "installed", "granted", "backend", "retire"}
    BY <1>1, <2>1, <2>3 DEF HandCut
  <2>4. CASE pc \in {"popped", "installed", "granted", "backend", "retire"}
    <3>1. work \in Ids /\ work # NoId /\ processing = work
      BY <2>4, ActorAssumption DEF OwnerInv, SlotInv, LedgerInv, TypeInv, Holding, Ids, NoId
    <3>2. hit # {} => hit = {work}
      BY <1>4
    <3>3. kind[work] = "Turn" => (work \in cut <=> hit # {})
      <4>1. work \notin goneOps \cup goneQ
        BY DEF OwnerInv, PlacesApart
      <4> QED  BY <3>2, <4>1 DEF cut, Turns
    <3>4. kind[work] = "Turn" => (doomed'[work] # None <=> doomed[work] # None \/ hit # {})
      BY <1>7, <3>1, <3>3
    <3>5. pc # "popped" => kind[work] = "Turn"
      BY <2>4 DEF LedgerInv, KindInv, TurnStates
    <3>6. pc = "popped" /\ cancellationGeneration' # poppedGeneration => processingReason' # None
      BY <2>1, <2>2, <3>1 DEF CutInv, HandCut
    <3>7. pc = "popped" /\ kind[work] = "Turn" =>
             (doomed'[work] # None <=> processingReason' # None \/ lifecycle # "Open")
      BY <2>2, <3>4 DEF CutInv, HandCut
    <3>8. pc \in {"installed", "granted", "backend"} =>
             /\ doomed'[work] # None <=> processingReason' # None
             /\ lifecycle # "Open" => processingReason' # None
      BY <2>2, <3>4, <3>5 DEF CutInv, HandCut
    <3>9. pc = "retire" => (doomed'[work] # None <=> processingReason' # None \/ result \in Reasons)
      BY <2>2, <3>4, <3>5 DEF CutInv, HandCut
    <3> QED  BY <1>1, <2>1, <3>6, <3>7, <3>8, <3>9 DEF HandCut
  <2> QED  BY <2>3, <2>4
<1>11. TokenCut'
  <2>1. \A t \in Ids : token'[t] # None => token[t] # None \/ t \in hit
    BY DEF CutsOut
  <2>2. \A d \in Callers : victim'[d] \in {victim[d], NoId} \cup hit
    BY DEF CutsOut
  <2>3. \A d \in Callers : victim[d] # NoId => victim[d] \in Ids
    BY DEF LedgerInv, TypeInv, TypeOK
  <2>4. \A t \in hit : t \in Ids /\ kind[t] # None /\ (kind[t] = "Turn" => doomed'[t] # None)
    BY <1>4, <1>7, <1>8
  <2>5. \A t \in Ids : doomed[t] # None => doomed'[t] # None
    BY <1>7
  <2> QED  BY <1>1, <2>1, <2>2, <2>3, <2>4, <2>5 DEF CutInv, TokenCut
<1>12. CancelledIffCut'
  BY <1>1, <1>6, <1>7 DEF CutInv, CancelledIffCut
<1> QED  BY <1>9, <1>10, <1>11, <1>12 DEF CutInv

\* What the caller of a cut owes after it.
LEMMA SettleOwed ==
    ASSUME LedgerInv, NEW c \in Callers, NEW op, NEW A, NEW B, NEW fire, NEW r, Settle(c, op, A, B, fire, r)
    PROVE  /\ \A d \in Callers : Owed(d)' \subseteq Owed(d) \cup A \cup B
           /\ \A d \in Callers : victim'[d] \in {victim[d], fire}
  BY DEF Settle, Owed, LedgerInv, TypeInv, TypeOK

LEMMA CancelExistingCut ==
    ASSUME LedgerInv, LedgerInv', OwnerInv, OwnerInv', CutInv, NEW c \in Callers, CancelExisting(c)
    PROVE  CutInv'
<1> DEFINE hit == {processing} \ {NoId}
<1>1. /\ UNCHANGED <<lifecycle, kind, outcomes, pc, work, poppedGeneration, result, processing>>
      /\ cancellationGeneration' = cancellationGeneration + 1 /\ UNCHANGED token
  BY DEF CancelExisting, lifeVars, admitVars, ledgerVars, slotVars, cancelVars, runnerVars
<1>2. operations \ operations = {} /\ queue \ queue = {}
  OBVIOUS
<1>3. DriveOperations(operations \ operations, queue \ queue, prep)
  BY <1>2 DEF CancelExisting
<1>4. active \in {NoId} \cup hit
  BY DEF OwnerInv, SlotInv
<1>5. \A t \in Ids : doomed'[t] # None <=> doomed[t] # None \/ t \in Turns(operations \cup queue \cup hit)
  BY DoomFacts DEF CancelExisting, Reasons
<1>6. /\ \A d \in Callers : Owed(d)' \subseteq Owed(d) \cup Turns(operations) \cup Turns(queue)
      /\ \A d \in Callers : victim'[d] \in {victim[d], active}
  BY SettleOwed DEF CancelExisting
<1>7. processingReason' # None <=> processingReason # None \/ hit # {}
  BY DEF CancelExisting, FirstReason, None
<1>8. Turns(operations) \cup Turns(queue) \subseteq Turns(operations \cup queue)
  BY DEF Turns
<1>9. CutsOut(operations, queue, hit)
  BY <1>1, <1>3, <1>4, <1>5, <1>6, <1>7, <1>8 DEF CutsOut
<1> QED  BY <1>9, CutsOutCut

LEMMA ClearCut ==
    ASSUME LedgerInv, LedgerInv', OwnerInv, OwnerInv', CutInv, NEW c \in Callers, Clear(c)
    PROVE  CutInv'
<1>1. UNCHANGED <<lifecycle, kind, outcomes, pc, work, poppedGeneration, result, processing>> /\ UNCHANGED <<token, processingReason, cancellationGeneration>>
  BY DEF Clear, lifeVars, admitVars, ledgerVars, slotVars, cancelVars, runnerVars
<1>2. operations \ operations = {} /\ queue \ queue = {} /\ operations \cup queue \cup {} = operations \cup queue
  OBVIOUS
<1>3. DriveOperations(operations \ operations, queue \ queue, prep)
  BY <1>2 DEF Clear
<1>4. \A t \in Ids : doomed'[t] # None <=> doomed[t] # None \/ t \in Turns(operations \cup queue \cup {})
  BY <1>2, DoomFacts DEF Clear, Reasons
<1>5. /\ \A d \in Callers : Owed(d)' \subseteq Owed(d) \cup Turns(operations) \cup Turns(queue)
      /\ \A d \in Callers : victim'[d] \in {victim[d], NoId}
  BY SettleOwed DEF Clear
<1>6. Turns(operations) \cup Turns(queue) \subseteq Turns(operations \cup queue)
  BY DEF Turns
<1>7. CutsOut(operations, queue, {})
  BY <1>1, <1>3, <1>4, <1>5, <1>6 DEF CutsOut
<1> QED  BY <1>7, CutsOutCut

LEMMA CancelTurnCut ==
    ASSUME LedgerInv, LedgerInv', OwnerInv, OwnerInv', CutInv, NEW c \in Callers, NEW t \in Ids, CancelTurn(c, t)
    PROVE  CutInv'
<1> DEFINE goneOps == operations \cap {t}
           goneQ   == queue \cap {t}
           hit     == {processing} \cap {t}
<1>1. UNCHANGED <<lifecycle, kind, outcomes, pc, work, poppedGeneration, result, processing>> /\ UNCHANGED cancellationGeneration
  BY DEF CancelTurn, lifeVars, admitVars, ledgerVars, slotVars, cancelVars, runnerVars
<1>2. /\ operations \ goneOps = operations \ {t} /\ queue \ goneQ = queue \ {t}
      /\ goneOps \cup goneQ \cup hit = (operations \cup queue \cup {processing}) \cap {t}
  OBVIOUS
<1>3. kind[t] = "Turn" /\ t # NoId
  BY ActorAssumption DEF CancelTurn, LedgerInv, KindInv, Ids, NoId
<1>4. \A S \in SUBSET {t} : Turns(S) = S
  BY <1>3 DEF Turns
<1>5. hit \in SUBSET ({processing} \ {NoId}) /\ goneOps \in SUBSET operations /\ goneQ \in SUBSET queue
  BY <1>3
<1>6. DriveOperations(operations \ goneOps, queue \ goneQ, prep)
  BY <1>2 DEF CancelTurn
<1>7. \A u \in Ids : doomed'[u] # None <=> doomed[u] # None \/ u \in Turns(goneOps \cup goneQ \cup hit)
  <2>1. Turns(goneOps \cup goneQ \cup hit) = (operations \cup queue \cup {processing}) \cap {t}
    BY <1>2, <1>4
  <2> QED  BY <2>1, DoomFacts DEF CancelTurn, Reasons
<1>8. /\ \A d \in Callers : Owed(d)' \subseteq Owed(d) \cup goneOps \cup goneQ
      /\ \A d \in Callers : victim'[d] \in {victim[d], NoId}
  BY SettleOwed DEF CancelTurn
<1>9. Turns(goneOps \cup goneQ) = goneOps \cup goneQ
  BY <1>4
<1>10. \A u \in Ids : token'[u] # None => token[u] # None \/ u \in hit
  <2>1. status = t /\ active # NoId => active = t /\ processing = t
    BY <1>3 DEF OwnerInv, SlotInv
  <2>2. token' = token \/ (processing = t /\ token' = [token EXCEPT ![t] = FirstReason(@, "User")])
    BY <2>1 DEF CancelTurn
  <2> QED  BY <2>2 DEF LedgerInv, TypeInv, TypeOK
<1>11. processingReason' # None <=> processingReason # None \/ hit # {}
  BY DEF CancelTurn, FirstReason, None
<1> HIDE DEF goneOps, goneQ, hit
<1>12. CutsOut(goneOps, goneQ, hit)
  BY <1>1, <1>6, <1>7, <1>8, <1>9, <1>10, <1>11 DEF CutsOut
<1> QED  BY <1>5, <1>12, CutsOutCut

LEMMA RemoveCut ==
    ASSUME LedgerInv, LedgerInv', OwnerInv, OwnerInv', CutInv, NEW c \in Callers, NEW t \in Ids, Remove(c, t)
    PROVE  CutInv'
<1> DEFINE goneOps == operations \cap {t}
           goneQ   == queue \cap {t}
<1>1. UNCHANGED <<lifecycle, kind, outcomes, pc, work, poppedGeneration, result, processing>> /\ UNCHANGED <<token, processingReason, cancellationGeneration>>
  BY DEF Remove, lifeVars, admitVars, ledgerVars, slotVars, cancelVars, runnerVars
<1>2. /\ operations \ goneOps = operations \ {t} /\ queue \ goneQ = queue \ {t}
      /\ goneOps \cup goneQ \cup {} = (operations \cup queue) \cap {t}
  OBVIOUS
<1>3. \A S \in SUBSET {t} : Turns(S) = S
  BY DEF Remove, Turns
<1>4. DriveOperations(operations \ goneOps, queue \ goneQ, prep)
  BY <1>2 DEF Remove
<1>5. \A u \in Ids : doomed'[u] # None <=> doomed[u] # None \/ u \in Turns(goneOps \cup goneQ \cup {})
  <2>1. Turns(goneOps \cup goneQ \cup {}) = (operations \cup queue) \cap {t}
    BY <1>2, <1>3
  <2> QED  BY <2>1, DoomFacts DEF Remove, Reasons
<1>6. /\ \A d \in Callers : Owed(d)' \subseteq Owed(d) \cup goneOps \cup goneQ
      /\ \A d \in Callers : victim'[d] \in {victim[d], NoId}
  <2>1. CASE t \in operations \cup queue
    BY <2>1, SettleOwed DEF Remove
  <2>2. CASE t \notin operations \cup queue
    BY <2>2 DEF Remove, callerVars, Owed
  <2> QED  BY <2>1, <2>2
<1>7. Turns(goneOps \cup goneQ) = goneOps \cup goneQ
  BY <1>3
<1>8. goneOps \in SUBSET operations /\ goneQ \in SUBSET queue
  OBVIOUS
<1> HIDE DEF goneOps, goneQ
<1>9. CutsOut(goneOps, goneQ, {})
  BY <1>1, <1>4, <1>5, <1>6, <1>7 DEF CutsOut
<1> QED  BY <1>8, <1>9, CutsOutCut

LEMMA CancelCorrelationCut ==
    ASSUME LedgerInv, LedgerInv', OwnerInv, OwnerInv', CutInv, NEW c \in Callers, NEW key \in Correlations, CancelCorrelation(c, key)
    PROVE  CutInv'
<1> DEFINE carries(i) == i # NoId /\ correlation[i] = key
           matched(S) == {i \in S : carries(i) /\ kind[i] # "Control"}
           goneOps == matched(operations)
           goneQ   == matched(queue)
           hit     == {i \in {processing} : carries(i)}
<1>1. UNCHANGED <<lifecycle, kind, outcomes, pc, work, poppedGeneration, result, processing>> /\ UNCHANGED cancellationGeneration
  BY DEF CancelCorrelation, lifeVars, admitVars, ledgerVars, slotVars, cancelVars, runnerVars
<1>2. /\ DriveOperations(operations \ goneOps, queue \ goneQ, prep)
      /\ Settle(c, "cancel_correlation", Turns(goneOps), Turns(goneQ), NoId, "User")
      /\ Doom(Turns(matched(operations \cup queue \cup ({processing} \ {NoId}))), "User")
  BY DEF CancelCorrelation
<1>3. Turns(matched(operations \cup queue \cup ({processing} \ {NoId}))) = Turns(goneOps \cup goneQ \cup hit)
  BY DEF Turns
<1>4. Turns(goneOps) \cup Turns(goneQ) = Turns(goneOps \cup goneQ)
  BY DEF Turns
<1>5. \A u \in Ids : token'[u] # None => token[u] # None \/ u \in hit
  <2>1. active # NoId => active = processing
    BY DEF OwnerInv, SlotInv
  <2> QED  BY <2>1 DEF CancelCorrelation, LedgerInv, TypeInv, TypeOK
<1>6. processingReason' # None <=> processingReason # None \/ hit # {}
  BY DEF CancelCorrelation, FirstReason, None
<1>7. goneOps \in SUBSET operations /\ goneQ \in SUBSET queue /\ hit \in SUBSET ({processing} \ {NoId})
  OBVIOUS
<1> HIDE DEF goneOps, goneQ, hit, matched
<1>8. /\ \A d \in Callers : Owed(d)' \subseteq Owed(d) \cup Turns(goneOps) \cup Turns(goneQ)
      /\ \A d \in Callers : victim'[d] \in {victim[d], NoId}
  BY <1>2, SettleOwed
<1>9. \A u \in Ids : doomed'[u] # None <=> doomed[u] # None \/ u \in Turns(goneOps \cup goneQ \cup hit)
  BY <1>2, <1>3, DoomFacts DEF Reasons
<1>10. CutsOut(goneOps, goneQ, hit)
  BY <1>1, <1>2, <1>4, <1>5, <1>6, <1>8, <1>9 DEF CutsOut
<1> QED  BY <1>7, <1>10, CutsOutCut

LEMMA CloseCut ==
    ASSUME LedgerInv, LedgerInv', OwnerInv, OwnerInv', CutInv, NEW c \in Callers, NEW l \in {"Closed", "Shutdown"}, Close(c, l)
    PROVE  CutInv'
<1> DEFINE hit == {processing} \ {NoId}
           cut == Turns(operations \cup queue \cup hit)
<1>1. /\ UNCHANGED <<kind, outcomes, pc, work, poppedGeneration, result, processing, prep, queue,
                     cancellationGeneration>>
      /\ operations' = {} /\ lifecycle = "Open" /\ lifecycle' = l /\ l # "Open" /\ l \in Reasons
  BY DEF Close, queueVars, Reasons, lifeVars, admitVars, ledgerVars, slotVars, cancelVars, runnerVars
<1>2. \A t \in Ids : doomed'[t] # None <=> doomed[t] # None \/ t \in cut
  BY <1>1, DoomFacts DEF Close
<1>3. /\ \A d \in Callers : Owed(d)' \subseteq Owed(d) \cup Turns(operations)
      /\ \A d \in Callers : victim'[d] \in {victim[d], NoId}
  BY SettleOwed DEF Close
<1>4. processingReason' # None <=> processingReason # None \/ hit # {}
  BY <1>1 DEF Close, FirstReason, Reasons, None
<1>5. \A t \in Ids : token'[t] # None => token[t] # None \/ t \in hit
  <2>1. active # NoId => active \in hit
    BY DEF OwnerInv, SlotInv
  <2> QED  BY <2>1 DEF Close, LedgerInv, TypeInv, TypeOK
<1>6. \A t \in hit : t = work /\ t \in Ids /\ kind[t] # None /\ (kind[t] = "Turn" => t \in InHand)
  <2>1. processing # NoId => processing = work /\ work \in Ids /\ kind[work] # None
    BY DEF OwnerInv, SlotInv, AdmittedInv, LedgerInv, TypeInv, TypeOK
  <2> QED  BY <2>1, ProcessedInHand
<1>7. \A t \in cut : t \in Ids /\ kind[t] = "Turn" /\ outcomes[t] = None /\ t \notin Panicked
  <2> TAKE t \in cut
  <2>1. kind[t] = "Turn" /\ t \in operations \cup queue \cup hit
    BY DEF Turns
  <2>2. CASE t \in operations \cup queue
    <3>1. t \in tickets /\ t \in Ids
      BY <2>1, <2>2 DEF OwnerInv, HeldSomewhere, Turns, LedgerInv, TypeInv, TypeOK
    <3>2. t \notin Panicked
      BY <2>2 DEF OwnerInv, PlacesApart, Panicked
    <3> QED  BY <2>1, <3>1, <3>2 DEF LedgerInv, OutcomeLedger
  <2>3. CASE t \in hit
    <3>1. t \in InHand
      BY <1>6, <2>1, <2>3
    <3>2. t \notin Panicked
      BY <3>1 DEF OwnerInv, PlacesApart, Panicked
    <3> QED  BY <2>1, <3>1, <3>2, InHandLive
  <2> QED  BY <2>1, <2>2, <2>3
<1>8. /\ Turns(operations) \subseteq cut /\ Turns(queue) \subseteq cut
      /\ \A t \in hit : kind[t] = "Turn" => t \in cut
  BY DEF Turns
<1> HIDE DEF cut
<1>9. WaitingCut'
  <2>1. \A t \in Ids : doomed'[t] # None => kind'[t] = "Turn"
    BY <1>1, <1>2, <1>7 DEF CutInv, WaitingCut
  <2>2. Turns(operations)' = {} /\ Turns(queue)' = Turns(queue) /\ Panicked' = Panicked
    BY <1>1 DEF Turns, Panicked
  <2>3. \A t \in Turns(queue)' : doomed'[t] # None
    BY <1>2, <1>7, <1>8, <2>2
  <2>4. ASSUME NEW d \in Callers, NEW t \in Owed(d)' PROVE doomed'[t] # None
    <3>1. t \in Ids /\ (t \in Owed(d) \/ t \in cut)
      BY <1>3, <1>7, <1>8 DEF Owed, LedgerInv, TypeInv, TypeOK
    <3> QED  BY <1>2, <3>1 DEF CutInv, WaitingCut
  <2>5. \A t \in Panicked' : doomed'[t] = None
    BY <1>2, <1>7, <2>2 DEF CutInv, WaitingCut, Panicked
  <2> QED  BY <1>1, <2>1, <2>2, <2>3, <2>4, <2>5 DEF WaitingCut
<1>10. HandCut'
  <2>1. CASE pc \notin {"popped", "installed", "granted", "backend", "retire"}
    BY <1>1, <2>1 DEF CutInv, HandCut
  <2>2. CASE pc \in {"popped", "installed", "granted", "backend", "retire"}
    <3>1. work \in Ids /\ work \in hit
      BY <2>2, ActorAssumption DEF OwnerInv, SlotInv, LedgerInv, TypeInv, Holding, Ids, NoId
    <3>2. kind[work] = "Turn" => doomed'[work] # None
      BY <1>2, <1>8, <3>1
    <3>3. pc # "popped" => kind[work] = "Turn"
      BY <2>2 DEF LedgerInv, KindInv, TurnStates
    <3>4. processingReason' # None
      BY <1>4, <3>1
    <3> QED  BY <1>1, <3>2, <3>3, <3>4 DEF CutInv, HandCut
  <2> QED  BY <2>1, <2>2
<1>11. TokenCut'
  <2>1. \A t \in hit : kind[t] = "Turn" => doomed'[t] # None
    BY <1>2, <1>6, <1>8
  <2>2. \A d \in Callers : victim[d] # NoId => victim[d] \in Ids
    BY DEF LedgerInv, TypeInv, TypeOK
  <2>3. \A t \in Ids : doomed[t] # None => doomed'[t] # None
    BY <1>2
  <2> HIDE DEF hit
  <2> QED  BY <1>1, <1>3, <1>5, <1>6, <2>1, <2>2, <2>3 DEF CutInv, TokenCut
<1>12. CancelledIffCut'
  BY <1>1, <1>2, <1>7 DEF CutInv, CancelledIffCut
<1> QED  BY <1>9, <1>10, <1>11, <1>12 DEF CutInv

-----------------------------------------------------------------------------
LEMMA InitCut == Init => CutInv
<1> SUFFICES ASSUME Init PROVE CutInv
  OBVIOUS
<1>1. WaitingCut /\ HandCut
  BY DEF Init, WaitingCut, HandCut, Turns, Owed, Panicked, None
<1>2. TokenCut /\ CancelledIffCut
  BY DEF Init, TokenCut, CancelledIffCut, None
<1> QED  BY <1>1, <1>2 DEF CutInv

LEMMA CutStep == LedgerInv /\ LedgerInv' /\ OwnerInv /\ OwnerInv' /\ CutInv /\ [Next]_vars => CutInv'
<1> SUFFICES ASSUME LedgerInv, LedgerInv', OwnerInv, OwnerInv', CutInv, [Next]_vars PROVE CutInv'
  OBVIOUS
<1>1. CASE Push
  BY <1>1, PushCut DEF Push
<1>2. CASE Runner \/ RunnerInterrupt \/ RunnerRefused
  BY <1>2, RunnerPopCut, RunnerIdleCut, RunnerInstallCut, RunnerTurnCut, RunnerRefusedCut, RunnerInterruptCut,
     RunnerRetireCut, RunnerRestCut, RunnerFinishCut DEF Runner
<1>3. ASSUME NEW c \in Callers, Call(c) PROVE CutInv'
  BY <1>3, AdmitCancelledCut, CancelCorrelationCut, CancelTurnCut, RemoveCut, CancelExistingCut, ClearCut,
     CloseCut DEF Call
<1>4. ASSUME NEW c \in Callers, CallerStep(c) PROVE CutInv'
  BY <1>4, CallerRetireCut, CallerRestCut, CallerFireCut, CallerDrainCut DEF CallerStep
<1>5. ASSUME NEW i \in Ids, Preparation(i) PROVE CutInv'
  BY <1>5, PrepareStaleCut, PrepareReadyCut, PreparePanicCut, FailRetireCut, FailEndsCut DEF Preparation
<1>6. CASE UNCHANGED vars
  BY <1>6 DEF vars, lifeVars, admitVars, opVars, queueVars, ledgerVars, slotVars, cancelVars, runnerVars,
     callerVars, CutInv, WaitingCut, HandCut, TokenCut, CancelledIffCut, Turns, Panicked, Owed
<1> QED  BY <1>1, <1>2, <1>3, <1>4, <1>5, <1>6 DEF Next

LEMMA CutAlways == Spec => [](LedgerInv /\ OwnerInv /\ CutInv)
  BY OwnerAlways, InitCut, CutStep, PTL DEF Spec

\* A turn ends cancelled exactly when a cut covered it while it was pending, for
\* any interleaving of any number of callers with the runner: in particular a
\* cut that lands between the pop of a turn and its install is not forgotten.
THEOREM CancellationCorrect == Spec => []CancelledIffCut
  BY CutAlways, PTL DEF CutInv

-----------------------------------------------------------------------------
(* Progress: the runner. *)

\* Whoever has asked whether the actor is idle has announced it, or some work
\* is left.
LEMMA AskedIdle ==
    ASSUME LedgerInv', OwnerInv', PublishIdle
    PROVE  IdleInv'
<1> SUFFICES ASSUME idlePending', lifecycle' = "Open"
             PROVE  \/ pc' \in Holding \/ publishing' # {} \/ failing' # {}
                    \/ operations' # {} \/ queue' # {} \/ tickets' # {}
  BY DEF IdleInv
<1>1. status' # NoId \/ active' # NoId \/ processing' # NoId => pc' \in Holding
  BY DEF OwnerInv, SlotInv, Holding
<1> QED  BY <1>1 DEF PublishIdle, HasPendingWork

LEMMA RunnerPopFlow ==
    ASSUME LedgerInv, LedgerInv', OwnerInv, OwnerInv', FlowInv, RunnerPop
    PROVE  FlowInv'
<1>1. UNCHANGED <<lifecycle, operations, preparing, prep, notifyToken, tickets, publishing,
       failing, phase, call, publication>>
  BY DEF RunnerPop, lifeVars, admitVars, opVars, queueVars, ledgerVars, slotVars, cancelVars,
     runnerVars, callerVars
<1>2. PICK w \in queue : queue' = queue \ {w} /\ work' = w /\ \A v \in queue : w <= v
  BY DEF RunnerPop
<1>3. pc = "loop" /\ pc' = "popped" /\ queue \subseteq Nat /\ operations \subseteq Nat
  <2>1. Ids \subseteq Nat
    BY ActorAssumption DEF Ids
  <2> QED  BY <2>1 DEF RunnerPop, LedgerInv, TypeInv, TypeOK
<1>4. Order'
  BY <1>1, <1>2, <1>3 DEF FlowInv, Order, RunsInAdmissionOrder, LedgerInv, TypeInv, TypeOK
<1>5. WakeInv'
  BY <1>1, <1>2, <1>3 DEF FlowInv, WakeInv, LedgerInv, TypeInv, TypeOK
<1>6. PublisherLives'
  BY <1>1, <1>2, <1>3 DEF FlowInv, PublisherLives, LedgerInv, TypeInv, TypeOK
<1>7. IdleInv'
  BY <1>1, <1>2, <1>3 DEF IdleInv, Holding
<1>8. HeadIsPrepared'
  BY <1>1 DEF FlowInv, HeadIsPrepared
<1> QED  BY <1>4, <1>5, <1>6, <1>7, <1>8 DEF FlowInv

LEMMA RunnerIdleFlow ==
    ASSUME LedgerInv, LedgerInv', OwnerInv, OwnerInv', FlowInv, RunnerEmpty \/ RunnerWait \/ RunnerWake
    PROVE  FlowInv'
<1>1. UNCHANGED <<lifecycle, operations, preparing, prep, queue, tickets, publishing, failing,
       idlePending, work, phase, call, publication>>
  BY DEF RunnerEmpty, RunnerWait, RunnerWake, RunnerOnly, lifeVars, admitVars, opVars, queueVars,
     ledgerVars, slotVars, cancelVars, runnerVars, callerVars
<1>2. \/ pc = "loop" /\ queue = {} /\ pc' = "drained" /\ notifyToken' = notifyToken
      \/ pc = "drained" /\ lifecycle = "Open" /\ pc' = "waiting" /\ notifyToken' = notifyToken
      \/ pc \in {"drained", "waiting"} /\ pc' \in {"loop", "exited"}
  BY DEF RunnerEmpty, RunnerWait, RunnerWake
<1>3. WakeInv'
  BY <1>1, <1>2 DEF FlowInv, WakeInv, LedgerInv, TypeInv, TypeOK
<1>4. PublisherLives'
  BY <1>1, <1>2 DEF FlowInv, PublisherLives, LedgerInv, TypeInv, TypeOK
<1>5. IdleInv'
  BY <1>1, <1>2 DEF FlowInv, IdleInv, WillAsk, Holding
<1>6. Order' /\ HeadIsPrepared'
  BY <1>1 DEF FlowInv, Order, RunsInAdmissionOrder, HeadIsPrepared
<1> QED  BY <1>3, <1>4, <1>5, <1>6 DEF FlowInv

LEMMA RunnerTurnFlow ==
    ASSUME LedgerInv, LedgerInv', OwnerInv, OwnerInv', FlowInv, RunnerInstall \/ RunnerPermit \/ RunnerStart \/ RunnerBackend \/ RunnerInstallControl \/ RunnerControlDone \/ RunnerRefused
    PROVE  FlowInv'
<1>1. UNCHANGED <<lifecycle, operations, preparing, prep, queue, notifyToken, tickets, publishing,
       failing, idlePending, work, phase, call, publication>>
  BY DEF RunnerInstall, RunnerPermit, RunnerStart, RunnerBackend, RunnerInstallControl,
     RunnerControlDone, RunnerRefused, RunnerTo, lifeVars, admitVars, opVars, queueVars,
     ledgerVars, slotVars, cancelVars, runnerVars, callerVars
<1>2. pc \in Holding /\ pc # "publish" /\ pc' \in Holding
  BY DEF RunnerInstall, RunnerPermit, RunnerStart, RunnerBackend, RunnerInstallControl, RunnerControlDone, RunnerRefused, RunnerTo, Holding
<1>3. WakeInv'
  BY <1>1, <1>2 DEF WakeInv, Holding
<1>4. PublisherLives'
  BY <1>1, <1>2 DEF FlowInv, PublisherLives, LedgerInv, TypeInv, TypeOK
<1>5. IdleInv'
  BY <1>1, <1>2 DEF IdleInv, Holding
<1>6. Order' /\ HeadIsPrepared'
  BY <1>1 DEF FlowInv, Order, RunsInAdmissionOrder, HeadIsPrepared
<1> QED  BY <1>3, <1>4, <1>5, <1>6 DEF FlowInv

LEMMA RunnerInterruptFlow ==
    ASSUME LedgerInv, LedgerInv', OwnerInv, OwnerInv', FlowInv, RunnerInterrupt
    PROVE  FlowInv'
<1>1. UNCHANGED <<lifecycle, operations, preparing, prep, notifyToken, tickets, publishing,
       failing, idlePending, pc, work, phase, call, publication>>
  BY DEF RunnerInterrupt, lifeVars, admitVars, opVars, queueVars, ledgerVars, slotVars,
     cancelVars, runnerVars, callerVars
<1>2. queue' \subseteq queue /\ pc = "backend"
  BY DEF RunnerInterrupt
<1>3. Order'
  BY <1>1, <1>2 DEF FlowInv, Order, RunsInAdmissionOrder, LedgerInv, TypeInv, TypeOK
<1>4. WakeInv'
  BY <1>1, <1>2 DEF FlowInv, WakeInv, LedgerInv, TypeInv, TypeOK
<1>5. IdleInv'
  BY <1>1, <1>2 DEF IdleInv, Holding
<1>6. HeadIsPrepared' /\ PublisherLives'
  BY <1>1 DEF FlowInv, HeadIsPrepared, PublisherLives
<1> QED  BY <1>3, <1>4, <1>5, <1>6 DEF FlowInv

LEMMA RunnerRetireFlow ==
    ASSUME LedgerInv, LedgerInv', OwnerInv, OwnerInv', FlowInv, RunnerRetire
    PROVE  FlowInv'
<1>1. UNCHANGED <<lifecycle, operations, preparing, prep, queue, notifyToken, failing,
       idlePending, work, phase, call, publication>>
  BY DEF RunnerRetire, lifeVars, admitVars, opVars, queueVars, ledgerVars, slotVars, cancelVars,
     runnerVars, callerVars
<1>2. pc = "retire" /\ outcomes[work] = None
  <2>1. pc = "retire" /\ work \in InHand
    BY DEF RunnerRetire, InHand, LedgerInv, TypeInv, Holding, KindInv, TurnStates
  <2> QED  BY <2>1, InHandLive
<1>3. pc' = "publish" /\ publishing' = publishing \cup {work}
  BY <1>2 DEF RunnerRetire, RetireTurn
<1>4. WakeInv'
  BY <1>1, <1>2, <1>3 DEF FlowInv, WakeInv, LedgerInv, TypeInv, TypeOK
<1>5. PublisherLives'
  BY <1>1, <1>2, <1>3 DEF FlowInv, PublisherLives, LedgerInv, TypeInv, TypeOK
<1>6. IdleInv'
  BY <1>1, <1>2, <1>3 DEF IdleInv, Holding
<1>7. Order' /\ HeadIsPrepared'
  BY <1>1 DEF FlowInv, Order, RunsInAdmissionOrder, HeadIsPrepared
<1> QED  BY <1>4, <1>5, <1>6, <1>7 DEF FlowInv

LEMMA RunnerPublishFlow ==
    ASSUME LedgerInv, LedgerInv', OwnerInv, OwnerInv', FlowInv, RunnerPublish
    PROVE  FlowInv'
<1>1. UNCHANGED <<lifecycle, operations, preparing, prep, queue, notifyToken, tickets, failing,
       work, phase, call, publication>>
  BY DEF RunnerPublish, lifeVars, admitVars, opVars, queueVars, ledgerVars, slotVars, cancelVars,
     runnerVars, callerVars
<1>2. pc = "publish" /\ pc' = "finish" /\ publishing' = publishing \ {work}
  BY DEF RunnerPublish, Publish
<1>3. WakeInv'
  BY <1>1, <1>2 DEF FlowInv, WakeInv, LedgerInv, TypeInv, TypeOK
<1>4. PublisherLives'
  BY <1>1, <1>2 DEF FlowInv, PublisherLives, LedgerInv, TypeInv, TypeOK
<1>5. IdleInv'
  BY <1>1, <1>2 DEF IdleInv, Holding
<1>6. Order' /\ HeadIsPrepared'
  BY <1>1 DEF FlowInv, Order, RunsInAdmissionOrder, HeadIsPrepared
<1> QED  BY <1>3, <1>4, <1>5, <1>6 DEF FlowInv

LEMMA RunnerFinishFlow ==
    ASSUME LedgerInv, LedgerInv', OwnerInv, OwnerInv', FlowInv, RunnerFinish
    PROVE  FlowInv'
<1>1. UNCHANGED <<lifecycle, operations, preparing, prep, queue, notifyToken, tickets, publishing,
       failing, phase, call, publication>>
  BY DEF RunnerFinish, lifeVars, admitVars, opVars, queueVars, ledgerVars, slotVars, cancelVars,
     runnerVars, callerVars
<1>2. pc = "finish" /\ pc' = "loop" /\ work' = NoId
  BY DEF RunnerFinish
<1>3. Order'
  BY <1>1, <1>2 DEF FlowInv, Order, RunsInAdmissionOrder, LedgerInv, TypeInv, TypeOK
<1>4. WakeInv'
  BY <1>1, <1>2 DEF FlowInv, WakeInv, LedgerInv, TypeInv, TypeOK
<1>5. PublisherLives'
  BY <1>1, <1>2 DEF FlowInv, PublisherLives, LedgerInv, TypeInv, TypeOK
<1>6. IdleInv'
  BY AskedIdle DEF RunnerFinish
<1>7. HeadIsPrepared'
  BY <1>1 DEF FlowInv, HeadIsPrepared
<1> QED  BY <1>3, <1>4, <1>5, <1>6, <1>7 DEF FlowInv

-----------------------------------------------------------------------------
(* Progress: the callers after their cuts. *)

LEMMA CallerRetireFlow ==
    ASSUME LedgerInv, LedgerInv', OwnerInv, OwnerInv', FlowInv, NEW c \in Callers, CallerRetire(c)
    PROVE  FlowInv'
<1>1. UNCHANGED <<lifecycle, operations, preparing, prep, queue, notifyToken, failing,
       idlePending, pc, work, phase, call>>
  BY DEF CallerRetire, lifeVars, admitVars, opVars, queueVars, ledgerVars, slotVars, cancelVars,
     runnerVars, callerVars
<1>2. PICK t \in todo[c] : /\ RetireTurn(t, reason[c]) /\ publication[c] = NoId
                            /\ publication' = IF outcomes[t] = None THEN [publication EXCEPT ![c] = t]
                                                                    ELSE publication
  BY DEF CallerRetire
<1>3. outcomes[t] = None
  <2>1. t \in Owed(c)
    BY <1>2 DEF Owed
  <2>2. t \in tickets /\ t \in Ids
    BY <2>1 DEF OwnerInv, HeldSomewhere, Owed, LedgerInv, TypeInv, TypeOK
  <2> QED  BY <2>2 DEF LedgerInv, KindInv, OutcomeLedger
<1>4. publishing' = publishing \cup {t} /\ publication' = [publication EXCEPT ![c] = t]
  BY <1>2, <1>3 DEF RetireTurn
<1>5. \A u \in publishing : u # NoId
  BY ActorAssumption DEF LedgerInv, TypeInv, TypeOK, Ids, NoId
<1>6. PublisherLives'
  BY <1>1, <1>2, <1>3, <1>4, <1>5 DEF FlowInv, PublisherLives, LedgerInv, TypeInv, TypeOK
<1>7. IdleInv'
  BY <1>1, <1>2, <1>3, <1>4, <1>5 DEF FlowInv, IdleInv, WillAsk, LedgerInv, TypeInv, TypeOK
<1>8. Order' /\ HeadIsPrepared' /\ WakeInv'
  BY <1>1 DEF FlowInv, Order, RunsInAdmissionOrder, HeadIsPrepared, WakeInv
<1> QED  BY <1>6, <1>7, <1>8 DEF FlowInv

LEMMA CallerPublishFlow ==
    ASSUME LedgerInv, LedgerInv', OwnerInv, OwnerInv', FlowInv, NEW c \in Callers, CallerPublish(c)
    PROVE  FlowInv'
<1>1. UNCHANGED <<lifecycle, operations, preparing, prep, queue, notifyToken, tickets, failing,
       pc, work, phase, call>>
  BY DEF CallerPublish, lifeVars, admitVars, opVars, queueVars, ledgerVars, slotVars, cancelVars,
     runnerVars, callerVars
<1>2. publishing' = publishing \ {publication[c]} /\ publication' = [publication EXCEPT ![c] = NoId]
  BY DEF CallerPublish, Publish
<1>3. PublisherLives'
  BY <1>1, <1>2 DEF FlowInv, PublisherLives, LedgerInv, TypeInv, TypeOK
<1>4. IdleInv'
  BY AskedIdle DEF CallerPublish
<1>5. Order' /\ HeadIsPrepared' /\ WakeInv'
  BY <1>1 DEF FlowInv, Order, RunsInAdmissionOrder, HeadIsPrepared, WakeInv
<1> QED  BY <1>3, <1>4, <1>5 DEF FlowInv

LEMMA CallerDeferredDoneFlow ==
    ASSUME LedgerInv, LedgerInv', OwnerInv, OwnerInv', FlowInv, NEW c \in Callers, CallerDeferredDone(c)
    PROVE  FlowInv'
<1>1. UNCHANGED <<lifecycle, operations, preparing, prep, queue, notifyToken, tickets, publishing,
       failing, pc, work, call, publication>>
  BY DEF CallerDeferredDone, lifeVars, admitVars, opVars, queueVars, ledgerVars, slotVars,
     cancelVars, runnerVars, callerVars
<1>2. phase'[c] # "free" /\ \A d \in Callers \ {c} : phase'[d] = phase[d]
  BY DEF CallerDeferredDone, LedgerInv, TypeInv, TypeOK
<1>3. WakeInv'
  BY <1>1, <1>2 DEF FlowInv, WakeInv, LedgerInv, TypeInv, TypeOK
<1>4. IdleInv'
  BY AskedIdle DEF CallerDeferredDone
<1>5. Order' /\ HeadIsPrepared' /\ PublisherLives'
  BY <1>1 DEF FlowInv, Order, RunsInAdmissionOrder, HeadIsPrepared, PublisherLives
<1> QED  BY <1>3, <1>4, <1>5 DEF FlowInv

LEMMA CallerFireFlow ==
    ASSUME LedgerInv, LedgerInv', OwnerInv, OwnerInv', FlowInv, NEW c \in Callers, CallerFire(c)
    PROVE  FlowInv'
<1>1. UNCHANGED <<lifecycle, operations, preparing, prep, queue, notifyToken, tickets, publishing,
       failing, idlePending, pc, work, call, publication>>
  BY DEF CallerFire, lifeVars, admitVars, opVars, queueVars, ledgerVars, slotVars, cancelVars,
     runnerVars, callerVars
<1>2. call[c] = "cancel_existing" /\ phase'[c] # "free" /\ \A d \in Callers \ {c} : phase'[d] = phase[d]
  BY DEF CallerFire, LedgerInv, TypeInv, TypeOK, OwnerInv, CallerStands
<1>3. WakeInv'
  BY <1>1, <1>2 DEF FlowInv, WakeInv, LedgerInv, TypeInv, TypeOK
<1>4. IdleInv'
  BY <1>1, <1>2 DEF FlowInv, IdleInv, WillAsk, LedgerInv, TypeInv, TypeOK
<1>5. Order' /\ HeadIsPrepared' /\ PublisherLives'
  BY <1>1 DEF FlowInv, Order, RunsInAdmissionOrder, HeadIsPrepared, PublisherLives
<1> QED  BY <1>3, <1>4, <1>5 DEF FlowInv

LEMMA CallerDrainFlow ==
    ASSUME LedgerInv, LedgerInv', OwnerInv, OwnerInv', FlowInv, NEW c \in Callers, CallerDrain(c)
    PROVE  FlowInv'
<1>1. UNCHANGED <<lifecycle, operations, preparing, prep, notifyToken, tickets, publishing,
       failing, idlePending, pc, work, call, publication>>
  BY DEF CallerDrain, lifeVars, admitVars, opVars, queueVars, ledgerVars, slotVars, cancelVars,
     runnerVars, callerVars
<1>2. call[c] = "close" /\ queue' = {} /\ lifecycle # "Open" /\ phase'[c] # "free" /\ \A d \in Callers \ {c} : phase'[d] = phase[d]
  BY DEF CallerDrain, LedgerInv, TypeInv, TypeOK, OwnerInv, CallerStands
<1>3. Order'
  BY <1>1, <1>2 DEF FlowInv, Order, RunsInAdmissionOrder, LedgerInv, TypeInv, TypeOK
<1>4. WakeInv'
  BY <1>1, <1>2 DEF FlowInv, WakeInv, LedgerInv, TypeInv, TypeOK
<1>5. IdleInv'
  BY <1>1, <1>2 DEF FlowInv, IdleInv, WillAsk, LedgerInv, TypeInv, TypeOK
<1>6. HeadIsPrepared' /\ PublisherLives'
  BY <1>1 DEF FlowInv, HeadIsPrepared, PublisherLives
<1> QED  BY <1>3, <1>4, <1>5, <1>6 DEF FlowInv

LEMMA CallerDoneFlow ==
    ASSUME LedgerInv, LedgerInv', OwnerInv, OwnerInv', FlowInv, NEW c \in Callers, CallerDone(c)
    PROVE  FlowInv'
<1>1. UNCHANGED <<lifecycle, operations, preparing, prep, queue, tickets, publishing, failing, pc,
       work, publication>>
  BY DEF CallerDone, lifeVars, admitVars, opVars, queueVars, ledgerVars, slotVars, cancelVars,
     runnerVars, callerVars
<1>2. /\ phase[c] = "drained" /\ \A d \in Callers \ {c} : phase'[d] = phase[d] /\ call'[d] = call[d]
      /\ call[c] = "close" \/ notifyToken' = notifyToken
      /\ call[c] = "close" => notifyToken'
  BY DEF CallerDone, Settled, LedgerInv, TypeInv, TypeOK
<1>3. WakeInv'
  BY <1>1, <1>2 DEF FlowInv, WakeInv
<1>4. IdleInv'
  <2>1. CASE call[c] \in {"cancel_existing", "clear", "cancel_correlation", "close"}
    BY <2>1, AskedIdle DEF CallerDone
  <2>2. CASE call[c] \notin {"cancel_existing", "clear", "cancel_correlation", "close"}
    <3>1. idlePending' = idlePending /\ ~WillAsk(c)
      BY <1>2, <2>2 DEF CallerDone, WillAsk
    <3>2. \A d \in Callers \ {c} : WillAsk(d)' = WillAsk(d)
      BY <1>2 DEF WillAsk
    <3> QED  BY <1>1, <3>1, <3>2 DEF FlowInv, IdleInv
  <2> QED  BY <2>1, <2>2
<1>5. Order' /\ HeadIsPrepared' /\ PublisherLives'
  BY <1>1 DEF FlowInv, Order, RunsInAdmissionOrder, HeadIsPrepared, PublisherLives
<1> QED  BY <1>3, <1>4, <1>5 DEF FlowInv

-----------------------------------------------------------------------------
(* Progress: driving the operation FIFO. *)

LEMMA DriveOrder ==
    ASSUME NEW ops \in SUBSET Ids, NEW q \in SUBSET Ids, NEW tasks, NEW ready \in SUBSET ops,
           Driven(ready, ops, q, tasks), \A i \in q, j \in ops : i < j,
           work' # NoId => \A j \in ops \cup q : work' < j
    PROVE  Order'
<1>1. operations' = ops \ ready /\ queue' = q \cup ready /\ \A i \in ready, j \in ops \ ready : i < j
  BY DEF Driven
<1> QED  BY <1>1 DEF Order, RunsInAdmissionOrder

LEMMA DriveHead ==
    ASSUME NEW ops \in SUBSET Ids, NEW q, NEW tasks, NEW ready \in SUBSET ops,
           Driven(ready, ops, q, tasks), lifecycle' = lifecycle,
           lifecycle = "Open" /\ preparing \in ops => tasks[preparing] = "running"
    PROVE  HeadIsPrepared'
<1> SUFFICES ASSUME lifecycle = "Open", operations' # {}
             PROVE  /\ preparing' \in operations' /\ \A j \in operations' : preparing' <= j
                    /\ prep'[preparing'] = "running"
  BY DEF HeadIsPrepared
<1>1. /\ preparing' \in operations' /\ \A j \in operations' : preparing' <= j
      /\ preparing' # preparing => prep'[preparing'] = "running"
      /\ operations' \subseteq ops
      /\ \A i \in Ids : prep'[i] = tasks[i] \/ prep'[i] = "running"
  BY DEF Driven
<1> QED  BY <1>1

LEMMA DriveWake ==
    ASSUME LedgerInv, FlowInv, NEW ops, NEW q, NEW tasks, NEW ready \in SUBSET ops,
           Driven(ready, ops, q, tasks), lifecycle' = lifecycle, pc' = pc,
           lifecycle # "Open" => q \subseteq queue,
           \A d \in Callers : phase[d] # "free" /\ call[d] = "close" => phase'[d] # "free" /\ call'[d] = "close"
    PROVE  WakeInv'
<1>1. notifyToken => notifyToken'
  BY DEF Driven
<1>2. queue' \subseteq queue \/ notifyToken'
  BY DEF Driven
<1> QED  BY <1>1, <1>2 DEF FlowInv, WakeInv

LEMMA DrivePublishers ==
    ASSUME OwnerInv, FlowInv, LedgerInv, NEW ops, NEW q, NEW tasks, NEW ready \in SUBSET ops,
           Driven(ready, ops, q, tasks), UNCHANGED <<publishing, publication, pc, work>>,
           \A i \in Ids : prep[i] \in {"failing", "publishing", "failed"} => i \notin ops /\ tasks[i] = prep[i],
           \A i \in failing' : i \in failing \/ (i \in Ids /\ i \notin ops /\ tasks[i] = "failing")
    PROVE  PublisherLives'
<1>1. \A i \in Ids : prep'[i] = tasks[i] \/ i \in ops
  BY DEF Driven
<1>2. publishing \subseteq Ids /\ failing \subseteq Ids
  BY DEF LedgerInv, TypeInv, TypeOK
<1> QED  BY <1>1, <1>2 DEF FlowInv, PublisherLives

-----------------------------------------------------------------------------
(* Progress: the preparation tasks. *)

LEMMA PrepareStaleFlow ==
    ASSUME LedgerInv, LedgerInv', OwnerInv, OwnerInv', FlowInv, NEW i \in Ids, PrepareStale(i)
    PROVE  FlowInv'
<1>1. UNCHANGED <<lifecycle, operations, preparing, queue, notifyToken, tickets, publishing,
       failing, idlePending, pc, work, phase, call, publication>>
  BY DEF PrepareStale, lifeVars, admitVars, opVars, queueVars, ledgerVars, slotVars, cancelVars,
     runnerVars, callerVars
<1>2. prep[i] = "running" /\ ~Current(i) /\ prep' = [prep EXCEPT ![i] = "none"]
  BY DEF PrepareStale
<1>3. HeadIsPrepared'
  BY <1>1, <1>2 DEF FlowInv, HeadIsPrepared, Current, LedgerInv, TypeInv, TypeOK
<1>4. PublisherLives'
  BY <1>1, <1>2 DEF FlowInv, PublisherLives, LedgerInv, TypeInv, TypeOK
<1>5. Order' /\ WakeInv' /\ IdleInv'
  BY <1>1 DEF FlowInv, Order, RunsInAdmissionOrder, WakeInv, IdleInv, WillAsk
<1> QED  BY <1>3, <1>4, <1>5 DEF FlowInv

LEMMA PrepareReadyFlow ==
    ASSUME LedgerInv, LedgerInv', OwnerInv, OwnerInv', FlowInv, NEW i \in Ids, PrepareReady(i)
    PROVE  FlowInv'
<1>1. UNCHANGED <<lifecycle, tickets, publishing, pc, work, phase, call, publication>>
  BY DEF PrepareReady, lifeVars, admitVars, opVars, queueVars, ledgerVars, slotVars, cancelVars,
     runnerVars, callerVars
<1>2. /\ i \in operations /\ lifecycle = "Open" /\ preparing = i /\ \A j \in operations : i <= j
      /\ prep[i] = "running" /\ failing' = failing
      /\ DriveOperations(operations \ {i}, queue \cup {i}, [prep EXCEPT ![i] = "none"])
  BY DEF PrepareReady, Current, ledgerVars
<1>3. /\ operations \ {i} \in SUBSET Ids /\ queue \cup {i} \in SUBSET Ids /\ queue \in SUBSET Ids /\ Ids \subseteq Nat
      /\ [prep EXCEPT ![i] = "none"] \in [Ids -> PrepStates]
  <2>1. Ids \subseteq Nat
    BY ActorAssumption DEF Ids
  <2> QED  BY <2>1 DEF LedgerInv, TypeInv, TypeOK, PrepStates
<1>4. PICK ready \in SUBSET (operations \ {i}) :
         Driven(ready, operations \ {i}, queue \cup {i}, [prep EXCEPT ![i] = "none"])
  BY <1>2, <1>3, DriveMoves DEF LedgerInv, TypeInv
<1>5. Order'
  <2>1. \A k \in queue \cup {i}, j \in operations \ {i} : k < j
    BY <1>2, <1>3 DEF FlowInv, Order
  <2>2. work' # NoId => \A j \in (operations \ {i}) \cup (queue \cup {i}) : work' < j
    BY <1>1, <1>2 DEF FlowInv, Order, RunsInAdmissionOrder
  <2> QED  BY <1>3, <1>4, <2>1, <2>2, DriveOrder
<1>6. HeadIsPrepared'
  BY <1>1, <1>2, <1>3, <1>4, DriveHead
<1>7. WakeInv'
  BY <1>1, <1>2, <1>4, DriveWake
<1>8. PublisherLives'
  <2>1. \A j \in Ids : prep[j] \in {"failing", "publishing", "failed"} =>
           j \notin operations \ {i} /\ [prep EXCEPT ![i] = "none"][j] = prep[j]
    BY <1>2 DEF OwnerInv, PlacesApart, LedgerInv, TypeInv, TypeOK
  <2>2. [prep EXCEPT ![i] = "none"][i] = "none"
    BY DEF LedgerInv, TypeInv, TypeOK
  <2> QED  BY <1>1, <1>2, <1>4, <2>1, <2>2, DrivePublishers
<1>9. IdleInv'
  <2>1. i \in queue'
    BY <1>4 DEF Driven
  <2> QED  BY <2>1 DEF IdleInv
<1> QED  BY <1>5, <1>6, <1>7, <1>8, <1>9 DEF FlowInv

LEMMA PreparePanicFlow ==
    ASSUME LedgerInv, LedgerInv', OwnerInv, OwnerInv', FlowInv, NEW i \in Ids, PreparePanic(i)
    PROVE  FlowInv'
<1>1. UNCHANGED <<lifecycle, tickets, publishing, pc, work, phase, call, publication>>
  BY DEF PreparePanic, lifeVars, admitVars, opVars, queueVars, ledgerVars, slotVars, cancelVars,
     runnerVars, callerVars
<1>2. /\ i \in operations /\ lifecycle = "Open" /\ preparing = i /\ \A j \in operations : i <= j
      /\ prep[i] = "running" /\ failing' = failing \cup {i}
      /\ DriveOperations(operations \ {i}, queue, [prep EXCEPT ![i] = "failing"])
  BY DEF PreparePanic, Current, ledgerVars
<1>3. /\ operations \ {i} \in SUBSET Ids /\ queue \cup {i} \in SUBSET Ids /\ queue \in SUBSET Ids /\ Ids \subseteq Nat
      /\ [prep EXCEPT ![i] = "failing"] \in [Ids -> PrepStates]
  <2>1. Ids \subseteq Nat
    BY ActorAssumption DEF Ids
  <2> QED  BY <2>1 DEF LedgerInv, TypeInv, TypeOK, PrepStates
<1>4. PICK ready \in SUBSET (operations \ {i}) :
         Driven(ready, operations \ {i}, queue, [prep EXCEPT ![i] = "failing"])
  BY <1>2, <1>3, DriveMoves DEF LedgerInv, TypeInv
<1>5. Order'
  <2>1. \A k \in queue, j \in operations \ {i} : k < j
    BY <1>2, <1>3 DEF FlowInv, Order
  <2>2. work' # NoId => \A j \in (operations \ {i}) \cup (queue) : work' < j
    BY <1>1, <1>2 DEF FlowInv, Order, RunsInAdmissionOrder
  <2> QED  BY <1>3, <1>4, <2>1, <2>2, DriveOrder
<1>6. HeadIsPrepared'
  BY <1>1, <1>2, <1>3, <1>4, DriveHead
<1>7. WakeInv'
  BY <1>1, <1>2, <1>4, DriveWake
<1>8. PublisherLives'
  <2>1. \A j \in Ids : prep[j] \in {"failing", "publishing", "failed"} =>
           j \notin operations \ {i} /\ [prep EXCEPT ![i] = "failing"][j] = prep[j]
    BY <1>2 DEF OwnerInv, PlacesApart, LedgerInv, TypeInv, TypeOK
  <2>2. [prep EXCEPT ![i] = "failing"][i] = "failing"
    BY DEF LedgerInv, TypeInv, TypeOK
  <2> QED  BY <1>1, <1>2, <1>4, <2>1, <2>2, DrivePublishers
<1>9. IdleInv'
  BY <1>2 DEF IdleInv
<1> QED  BY <1>5, <1>6, <1>7, <1>8, <1>9 DEF FlowInv

LEMMA FailRetireFlow ==
    ASSUME LedgerInv, LedgerInv', OwnerInv, OwnerInv', FlowInv, NEW i \in Ids, FailRetire(i)
    PROVE  FlowInv'
<1>1. UNCHANGED <<lifecycle, operations, preparing, queue, notifyToken, failing, idlePending, pc,
       work, phase, call, publication>>
  BY DEF FailRetire, lifeVars, admitVars, opVars, queueVars, ledgerVars, slotVars, cancelVars,
     runnerVars, callerVars
<1>2. prep[i] = "failing" /\ outcomes[i] = None
  <2>1. prep[i] = "failing" /\ i \in tickets /\ kind[i] = "Turn"
    BY DEF FailRetire, OwnerInv, HeldSomewhere, Panicked, LedgerInv, KindInv
  <2> QED  BY <2>1 DEF LedgerInv, OutcomeLedger
<1>3. prep' = [prep EXCEPT ![i] = "publishing"] /\ publishing' = publishing \cup {i}
  BY <1>2 DEF FailRetire, RetireTurn
<1>4. HeadIsPrepared'
  BY <1>1, <1>2, <1>3 DEF FlowInv, HeadIsPrepared, LedgerInv, TypeInv, TypeOK
<1>5. PublisherLives'
  BY <1>1, <1>2, <1>3 DEF FlowInv, PublisherLives, LedgerInv, TypeInv, TypeOK
<1>6. IdleInv'
  BY <1>1, <1>2, <1>3 DEF FlowInv, IdleInv, WillAsk, LedgerInv, TypeInv, TypeOK
<1>7. Order' /\ WakeInv'
  BY <1>1 DEF FlowInv, Order, RunsInAdmissionOrder, WakeInv
<1> QED  BY <1>4, <1>5, <1>6, <1>7 DEF FlowInv

LEMMA FailPublishFlow ==
    ASSUME LedgerInv, LedgerInv', OwnerInv, OwnerInv', FlowInv, NEW i \in Ids, FailPublish(i)
    PROVE  FlowInv'
<1>1. UNCHANGED <<lifecycle, operations, preparing, queue, notifyToken, tickets, failing, pc,
       work, phase, call, publication>>
  BY DEF FailPublish, lifeVars, admitVars, opVars, queueVars, ledgerVars, slotVars, cancelVars,
     runnerVars, callerVars
<1>2. prep[i] = "publishing" /\ prep' = [prep EXCEPT ![i] = "failed"] /\ publishing' = publishing \ {i}
  BY DEF FailPublish, Publish
<1>3. HeadIsPrepared'
  BY <1>1, <1>2 DEF FlowInv, HeadIsPrepared, LedgerInv, TypeInv, TypeOK
<1>4. PublisherLives'
  BY <1>1, <1>2 DEF FlowInv, PublisherLives, LedgerInv, TypeInv, TypeOK
<1>5. IdleInv'
  BY AskedIdle DEF FailPublish
<1>6. Order' /\ WakeInv'
  BY <1>1 DEF FlowInv, Order, RunsInAdmissionOrder, WakeInv
<1> QED  BY <1>3, <1>4, <1>5, <1>6 DEF FlowInv

LEMMA FailDoneFlow ==
    ASSUME LedgerInv, LedgerInv', OwnerInv, OwnerInv', FlowInv, NEW i \in Ids, FailDone(i)
    PROVE  FlowInv'
<1>1. UNCHANGED <<lifecycle, operations, preparing, queue, notifyToken, tickets, publishing, pc,
       work, phase, call, publication>>
  BY DEF FailDone, lifeVars, admitVars, opVars, queueVars, ledgerVars, slotVars, cancelVars,
     runnerVars, callerVars
<1>2. prep[i] = "failed" /\ prep' = [prep EXCEPT ![i] = "none"] /\ failing' = failing \ {i}
  BY DEF FailDone
<1>3. HeadIsPrepared'
  BY <1>1, <1>2 DEF FlowInv, HeadIsPrepared, LedgerInv, TypeInv, TypeOK
<1>4. PublisherLives'
  BY <1>1, <1>2 DEF FlowInv, PublisherLives, LedgerInv, TypeInv, TypeOK
<1>5. IdleInv'
  BY AskedIdle DEF FailDone
<1>6. Order' /\ WakeInv'
  BY <1>1 DEF FlowInv, Order, RunsInAdmissionOrder, WakeInv
<1> QED  BY <1>3, <1>4, <1>5, <1>6 DEF FlowInv

-----------------------------------------------------------------------------
(* Progress: admission and the cuts. *)

LEMMA RegisterFlow ==
    ASSUME LedgerInv, LedgerInv', OwnerInv, OwnerInv', FlowInv, NEW k \in Kinds, NEW key, Register(k, key),
           NEW id, id = nextOperationId', DriveOperations(operations \cup {id}, queue, prep),
           UNCHANGED <<lifecycle, pc, work, phase, call, publication, publishing, failing>>
    PROVE  FlowInv'
<1>1. id \in Ids /\ id > nextOperationId /\ kind[id] = None /\ Ids \subseteq Nat
  <2>1. id \in Ids /\ id > nextOperationId /\ Ids \subseteq Nat
    BY ActorAssumption DEF Register, LedgerInv, TypeInv, TypeOK, Ids
  <2> QED  BY <2>1 DEF LedgerInv, KindInv
<1>2. \A j \in Ids : kind[j] # None => j < id
  <2>1. nextOperationId \in Nat
    BY DEF LedgerInv, TypeInv, TypeOK
  <2> QED  BY <1>1, <2>1 DEF LedgerInv, KindInv
<1>3. /\ operations \cup {id} \in SUBSET Ids /\ queue \in SUBSET Ids
      /\ work # NoId => work \in Ids
      /\ TypeOK /\ prep \in [Ids -> PrepStates]
  BY <1>1 DEF LedgerInv, TypeInv, TypeOK
<1>4. PICK ready \in SUBSET (operations \cup {id}) : Driven(ready, operations \cup {id}, queue, prep)
  BY <1>3, DriveMoves
<1>5. Order'
  <2>1. \A i \in queue, j \in operations \cup {id} : i < j
    BY <1>2, <1>3 DEF OwnerInv, AdmittedInv, FlowInv, Order
  <2>2. work' # NoId => \A j \in (operations \cup {id}) \cup queue : work' < j
    BY <1>2, <1>3 DEF OwnerInv, AdmittedInv, FlowInv, Order, RunsInAdmissionOrder
  <2> QED  BY <1>3, <1>4, <2>1, <2>2, DriveOrder
<1>6. HeadIsPrepared'
  <2>1. preparing # id
    BY <1>1, ActorAssumption DEF OwnerInv, AdmittedInv, Ids, NoId
  <2>2. lifecycle = "Open" /\ preparing \in operations \cup {id} => prep[preparing] = "running"
    BY <2>1 DEF FlowInv, HeadIsPrepared
  <2> QED  BY <1>3, <1>4, <2>2, DriveHead
<1>7. WakeInv'
  BY <1>4, DriveWake
<1>8. PublisherLives'
  <2>1. \A i \in Ids : prep[i] \in {"failing", "publishing", "failed"} => i \notin operations \cup {id}
    BY <1>1 DEF OwnerInv, PlacesApart, LedgerInv, KindInv, None
  <2> QED  BY <1>4, <2>1, DrivePublishers
<1>9. IdleInv'
  <2>1. id \in operations' \cup queue'
    BY <1>4 DEF Driven
  <2> QED  BY <2>1 DEF IdleInv
<1> QED  BY <1>5, <1>6, <1>7, <1>8, <1>9 DEF FlowInv

LEMMA PushFlow ==
    ASSUME LedgerInv, LedgerInv', OwnerInv, OwnerInv', FlowInv, NEW key \in Correlations,
           AdmitTurn(key) \/ PushControl(key) \/ PushCompact(key)
    PROVE  FlowInv'
<1> USE DEF lifeVars, slotVars, runnerVars, callerVars, ledgerVars, cancelVars
<1>1. PICK k \in Kinds : Register(k, key)
  BY DEF AdmitTurn, PushControl, PushCompact, PushOperation, Kinds
<1>2. UNCHANGED <<lifecycle, pc, work, phase, call, publication, publishing, failing>>
  BY DEF AdmitTurn, PushControl, PushCompact, PushOperation
<1>3. DriveOperations(operations \cup {nextOperationId'}, queue, prep)
  BY DEF AdmitTurn, PushControl, PushCompact, PushOperation
<1> QED  BY <1>1, <1>2, <1>3, RegisterFlow

LEMMA AdmitCancelledFlow ==
    ASSUME LedgerInv, LedgerInv', OwnerInv, OwnerInv', FlowInv, NEW c \in Callers, NEW key \in Correlations, AdmitCancelled(c, key)
    PROVE  FlowInv'
<1>1. UNCHANGED <<lifecycle, operations, preparing, prep, queue, notifyToken, publishing, failing,
       idlePending, pc, work, publication>>
  BY DEF AdmitCancelled, Settle, lifeVars, admitVars, opVars, queueVars, ledgerVars, slotVars,
     cancelVars, runnerVars, callerVars
<1>2. lifecycle = "Open" /\ phase'[c] = "deferred"
  BY DEF AdmitCancelled, Register, Settle, LedgerInv, TypeInv, TypeOK
<1>3. WakeInv'
  BY <1>1, <1>2 DEF FlowInv, WakeInv, LedgerInv, TypeInv, TypeOK
<1>4. IdleInv'
  BY <1>2 DEF IdleInv, WillAsk
<1>5. Order' /\ HeadIsPrepared' /\ PublisherLives'
  BY <1>1 DEF FlowInv, Order, RunsInAdmissionOrder, HeadIsPrepared, PublisherLives
<1> QED  BY <1>3, <1>4, <1>5 DEF FlowInv

\* A caller that has just cut will still ask whether the actor is idle.
LEMMA SettleFlow ==
    ASSUME LedgerInv, NEW c \in Callers, phase[c] = "free", NEW op, NEW A, NEW B, NEW fire, NEW r,
           Settle(c, op, A, B, fire, r)
    PROVE  /\ \A d \in Callers : phase[d] # "free" /\ call[d] = "close" => phase'[d] # "free" /\ call'[d] = "close"
           /\ \E d \in Callers : WillAsk(d)'
           /\ phase'[c] = "deferred" /\ call'[c] = op /\ publication' = publication
<1>1. phase'[c] = "deferred" /\ call'[c] = op /\ publication' = publication
  BY DEF Settle, LedgerInv, TypeInv, TypeOK
<1>2. \A d \in Callers \ {c} : phase'[d] = phase[d] /\ call'[d] = call[d]
  BY DEF Settle, LedgerInv, TypeInv, TypeOK
<1>3. WillAsk(c)'
  BY <1>1 DEF WillAsk
<1> QED  BY <1>1, <1>2, <1>3

LEMMA CutFlow ==
    ASSUME LedgerInv, LedgerInv', OwnerInv, OwnerInv', FlowInv,
           NEW goneOps \in SUBSET operations, NEW goneQ \in SUBSET queue,
           DriveOperations(operations \ goneOps, queue \ goneQ, prep),
           UNCHANGED <<lifecycle, pc, work, publication, publishing, failing>>,
           \A d \in Callers : phase[d] # "free" /\ call[d] = "close" => phase'[d] # "free" /\ call'[d] = "close",
           \/ \E d \in Callers : WillAsk(d)'
           \/ goneOps = {} /\ goneQ = {} /\ UNCHANGED <<phase, call, tickets>>
    PROVE  FlowInv'
<1>1. /\ operations \ goneOps \in SUBSET Ids /\ queue \ goneQ \in SUBSET Ids
      /\ TypeOK /\ prep \in [Ids -> PrepStates]
  BY DEF LedgerInv, TypeInv, TypeOK
<1>2. PICK ready \in SUBSET (operations \ goneOps) :
         Driven(ready, operations \ goneOps, queue \ goneQ, prep)
  BY <1>1, DriveMoves
<1>3. Order'
  <2>1. /\ \A i \in queue \ goneQ, j \in operations \ goneOps : i < j
        /\ work' # NoId => \A j \in (operations \ goneOps) \cup (queue \ goneQ) : work' < j
    BY DEF FlowInv, Order, RunsInAdmissionOrder
  <2> QED  BY <1>1, <1>2, <2>1, DriveOrder
<1>4. HeadIsPrepared'
  <2>1. lifecycle = "Open" /\ preparing \in operations \ goneOps => prep[preparing] = "running"
    BY DEF FlowInv, HeadIsPrepared
  <2> QED  BY <1>1, <1>2, <2>1, DriveHead
<1>5. WakeInv'
  BY <1>2, DriveWake
<1>6. PublisherLives'
  <2>1. \A i \in Ids : prep[i] \in {"failing", "publishing", "failed"} => i \notin operations \ goneOps
    BY DEF OwnerInv, PlacesApart
  <2> QED  BY <1>2, <2>1, DrivePublishers
<1>7. IdleInv'
  <2>1. CASE \E d \in Callers : WillAsk(d)'
    BY <2>1 DEF IdleInv
  <2>2. CASE goneOps = {} /\ goneQ = {} /\ UNCHANGED <<phase, call, tickets>>
    <3>1. /\ operations' \cup queue' = operations \cup queue
          /\ operations \ goneOps = operations /\ queue \ goneQ = queue
      BY <1>2, <2>2 DEF Driven
    <3>2. idlePending' = (idlePending \/ HasPendingWork(operations, queue))
      BY <3>1 DEF DriveOperations
    <3>3. CASE idlePending
      <4>1. \A d \in Callers : WillAsk(d)' = WillAsk(d)
        BY <2>2 DEF WillAsk
      <4> QED  BY <2>2, <3>1, <3>3, <4>1 DEF FlowInv, IdleInv
    <3>4. CASE HasPendingWork(operations, queue)
      <4>1. status' # NoId \/ active' # NoId \/ processing' # NoId => pc' \in Holding
        BY DEF OwnerInv, SlotInv, Holding
      <4> QED  BY <3>1, <3>4, <4>1 DEF HasPendingWork, IdleInv
    <3> QED  BY <3>2, <3>3, <3>4 DEF IdleInv
  <2> QED  BY <2>1, <2>2
<1> QED  BY <1>3, <1>4, <1>5, <1>6, <1>7 DEF FlowInv

LEMMA CancelExistingFlow ==
    ASSUME LedgerInv, LedgerInv', OwnerInv, OwnerInv', FlowInv, NEW c \in Callers, CancelExisting(c)
    PROVE  FlowInv'
<1>1. phase[c] = "free" /\ Settle(c, "cancel_existing", Turns(operations), Turns(queue), active, "User")
  BY DEF CancelExisting
<1>2. UNCHANGED <<lifecycle, pc, work, publication, publishing, failing>>
  BY <1>1 DEF CancelExisting, Settle, lifeVars, ledgerVars, runnerVars
<1>3. operations \ operations = {} /\ queue \ queue = {}
  OBVIOUS
<1>4. DriveOperations(operations \ operations, queue \ queue, prep)
  BY <1>3 DEF CancelExisting
<1>5. /\ \A d \in Callers : phase[d] # "free" /\ call[d] = "close" => phase'[d] # "free" /\ call'[d] = "close"
      /\ \E d \in Callers : WillAsk(d)'
  BY <1>1, SettleFlow
<1> QED  BY <1>2, <1>4, <1>5, CutFlow

LEMMA ClearFlow ==
    ASSUME LedgerInv, LedgerInv', OwnerInv, OwnerInv', FlowInv, NEW c \in Callers, Clear(c)
    PROVE  FlowInv'
<1>1. phase[c] = "free" /\ Settle(c, "clear", Turns(operations), Turns(queue), NoId, "User")
  BY DEF Clear
<1>2. UNCHANGED <<lifecycle, pc, work, publication, publishing, failing>>
  BY <1>1 DEF Clear, Settle, lifeVars, ledgerVars, runnerVars
<1>3. operations \ operations = {} /\ queue \ queue = {}
  OBVIOUS
<1>4. DriveOperations(operations \ operations, queue \ queue, prep)
  BY <1>3 DEF Clear
<1>5. /\ \A d \in Callers : phase[d] # "free" /\ call[d] = "close" => phase'[d] # "free" /\ call'[d] = "close"
      /\ \E d \in Callers : WillAsk(d)'
  BY <1>1, SettleFlow
<1> QED  BY <1>2, <1>4, <1>5, CutFlow

LEMMA CancelTurnFlow ==
    ASSUME LedgerInv, LedgerInv', OwnerInv, OwnerInv', FlowInv, NEW c \in Callers, NEW t \in Ids, CancelTurn(c, t)
    PROVE  FlowInv'
<1>1. phase[c] = "free" /\ Settle(c, "cancel_turn", operations \cap {t}, queue \cap {t}, NoId, "User")
  BY DEF CancelTurn
<1>2. UNCHANGED <<lifecycle, pc, work, publication, publishing, failing>>
  BY <1>1 DEF CancelTurn, Settle, lifeVars, ledgerVars, runnerVars
<1>3. /\ operations \ (operations \cap {t}) = operations \ {t} /\ queue \ (queue \cap {t}) = queue \ {t}
      /\ operations \cap {t} \in SUBSET operations /\ queue \cap {t} \in SUBSET queue
  OBVIOUS
<1>4. DriveOperations(operations \ (operations \cap {t}), queue \ (queue \cap {t}), prep)
  BY <1>3 DEF CancelTurn
<1>5. /\ \A d \in Callers : phase[d] # "free" /\ call[d] = "close" => phase'[d] # "free" /\ call'[d] = "close"
      /\ \E d \in Callers : WillAsk(d)'
  BY <1>1, SettleFlow
<1> QED  BY <1>2, <1>3, <1>4, <1>5, CutFlow

LEMMA RemoveFlow ==
    ASSUME LedgerInv, LedgerInv', OwnerInv, OwnerInv', FlowInv, NEW c \in Callers, NEW t \in Ids, Remove(c, t)
    PROVE  FlowInv'
<1>1. UNCHANGED <<lifecycle, pc, work, publication, publishing, failing>> /\ UNCHANGED tickets
  BY DEF Remove, Settle, callerVars, lifeVars, ledgerVars, runnerVars
<1>2. /\ operations \ (operations \cap {t}) = operations \ {t} /\ queue \ (queue \cap {t}) = queue \ {t}
      /\ operations \cap {t} \in SUBSET operations /\ queue \cap {t} \in SUBSET queue
  OBVIOUS
<1>3. DriveOperations(operations \ (operations \cap {t}), queue \ (queue \cap {t}), prep)
  BY <1>2 DEF Remove
<1>4. CASE t \in operations \cup queue
  <2>1. phase[c] = "free" /\ Settle(c, "remove", operations \cap {t}, queue \cap {t}, NoId, "User")
    BY <1>4 DEF Remove
  <2>2. /\ \A d \in Callers : phase[d] # "free" /\ call[d] = "close" => phase'[d] # "free" /\ call'[d] = "close"
      /\ \E d \in Callers : WillAsk(d)'
    BY <2>1, SettleFlow
  <2> QED  BY <1>1, <1>2, <1>3, <2>2, CutFlow
<1>5. CASE t \notin operations \cup queue
  <2>1. UNCHANGED <<phase, call>>
    BY <1>5 DEF Remove, callerVars
  <2>2. operations \cap {t} = {} /\ queue \cap {t} = {}
    BY <1>5
  <2> QED  BY <1>1, <1>2, <1>3, <2>1, <2>2, CutFlow
<1> QED  BY <1>4, <1>5

LEMMA CancelCorrelationFlow ==
    ASSUME LedgerInv, LedgerInv', OwnerInv, OwnerInv', FlowInv, NEW c \in Callers, NEW key \in Correlations, CancelCorrelation(c, key)
    PROVE  FlowInv'
<1> DEFINE matched(S) == {i \in S : (i # NoId /\ correlation[i] = key) /\ kind[i] # "Control"}
           goneOps == matched(operations)
           goneQ   == matched(queue)
<1>1. /\ DriveOperations(operations \ goneOps, queue \ goneQ, prep) /\ phase[c] = "free"
      /\ Settle(c, "cancel_correlation", Turns(goneOps), Turns(goneQ), NoId, "User")
  BY DEF CancelCorrelation
<1>2. UNCHANGED <<lifecycle, pc, work, publication, publishing, failing>>
  BY <1>1 DEF CancelCorrelation, Settle, lifeVars, ledgerVars, runnerVars
<1>3. goneOps \in SUBSET operations /\ goneQ \in SUBSET queue
  OBVIOUS
<1> HIDE DEF goneOps, goneQ
<1>4. /\ \A d \in Callers : phase[d] # "free" /\ call[d] = "close" => phase'[d] # "free" /\ call'[d] = "close"
      /\ \E d \in Callers : WillAsk(d)'
  BY <1>1, SettleFlow
<1> QED  BY <1>1, <1>2, <1>3, <1>4, CutFlow

LEMMA CloseFlow ==
    ASSUME LedgerInv, LedgerInv', OwnerInv, OwnerInv', FlowInv, NEW c \in Callers, NEW l \in {"Closed", "Shutdown"}, Close(c, l)
    PROVE  FlowInv'
<1>1. UNCHANGED <<prep, queue, notifyToken, tickets, publishing, failing, idlePending, pc, work,
       publication>>
  BY DEF Close, Settle, lifeVars, admitVars, opVars, queueVars, ledgerVars, slotVars, cancelVars,
     runnerVars, callerVars
<1>2. operations' = {} /\ lifecycle' # "Open" /\ phase'[c] # "free" /\ call'[c] = "close"
  BY DEF Close, Settle, LedgerInv, TypeInv, TypeOK
<1>3. Order'
  BY <1>1, <1>2 DEF FlowInv, Order, RunsInAdmissionOrder, LedgerInv, TypeInv, TypeOK
<1>4. HeadIsPrepared'
  BY <1>2 DEF HeadIsPrepared
<1>5. WakeInv'
  BY <1>1, <1>2 DEF FlowInv, WakeInv
<1>6. IdleInv'
  BY <1>2 DEF IdleInv
<1>7. PublisherLives'
  BY <1>1 DEF FlowInv, PublisherLives
<1> QED  BY <1>3, <1>4, <1>5, <1>6, <1>7 DEF FlowInv

-----------------------------------------------------------------------------
LEMMA InitFlow == Init => FlowInv
  BY DEF Init, FlowInv, Order, RunsInAdmissionOrder, HeadIsPrepared, WakeInv, PublisherLives, IdleInv

LEMMA FlowStep == LedgerInv /\ LedgerInv' /\ OwnerInv /\ OwnerInv' /\ FlowInv /\ [Next]_vars => FlowInv'
<1> SUFFICES ASSUME LedgerInv, LedgerInv', OwnerInv, OwnerInv', FlowInv, [Next]_vars PROVE FlowInv'
  OBVIOUS
<1>1. CASE Push
  BY <1>1, PushFlow DEF Push
<1>2. CASE Runner \/ RunnerInterrupt \/ RunnerRefused
  BY <1>2, RunnerPopFlow, RunnerIdleFlow, RunnerTurnFlow, RunnerInterruptFlow, RunnerRetireFlow,
     RunnerPublishFlow, RunnerFinishFlow DEF Runner
<1>3. ASSUME NEW c \in Callers, Call(c) PROVE FlowInv'
  BY <1>3, AdmitCancelledFlow, CancelCorrelationFlow, CancelTurnFlow, RemoveFlow, CancelExistingFlow, ClearFlow,
     CloseFlow DEF Call
<1>4. ASSUME NEW c \in Callers, CallerStep(c) PROVE FlowInv'
  BY <1>4, CallerRetireFlow, CallerPublishFlow, CallerDeferredDoneFlow, CallerFireFlow, CallerDrainFlow,
     CallerDoneFlow DEF CallerStep
<1>5. ASSUME NEW i \in Ids, Preparation(i) PROVE FlowInv'
  BY <1>5, PrepareStaleFlow, PrepareReadyFlow, PreparePanicFlow, FailRetireFlow, FailPublishFlow, FailDoneFlow
     DEF Preparation
<1>6. CASE UNCHANGED vars
  BY <1>6 DEF vars, lifeVars, admitVars, opVars, queueVars, ledgerVars, slotVars, runnerVars, callerVars,
     FlowInv, Order, RunsInAdmissionOrder, HeadIsPrepared, WakeInv, PublisherLives, IdleInv, WillAsk
<1> QED  BY <1>1, <1>2, <1>3, <1>4, <1>5, <1>6 DEF Next

LEMMA FlowAlways == Spec => [](LedgerInv /\ OwnerInv /\ FlowInv)
  BY OwnerAlways, InitFlow, FlowStep, PTL DEF Spec

LEMMA QuietMeansDone ==
    ASSUME LedgerInv, OwnerInv, FlowInv, Quiescent
    PROVE  /\ lifecycle = "Open"
           /\ operations = {} /\ queue = {} /\ tickets = {}
           /\ ~idlePending
<1>1. /\ pc = "waiting" /\ ~notifyToken /\ \A c \in Callers : phase[c] = "free"
      /\ \A i \in Ids : prep[i] = "none"
  BY DEF Quiescent
<1>2. lifecycle = "Open" /\ queue = {}
  BY <1>1 DEF FlowInv, WakeInv
<1>3. operations = {}
  BY <1>1, <1>2 DEF FlowInv, HeadIsPrepared, LedgerInv, TypeInv, TypeOK
<1>4. \A c \in Callers : todo[c] = {} /\ drained[c] = {} /\ publication[c] = NoId
  BY <1>1 DEF OwnerInv, CallerStands
<1>5. tickets = {}
  <2>1. InHand = {} /\ Panicked = {} /\ \A c \in Callers : Owed(c) = {}
    BY <1>1, <1>4 DEF InHand, Panicked, Owed
  <2>2. tickets \subseteq Ids
    BY DEF LedgerInv, TypeInv, TypeOK
  <2> QED  BY <1>2, <1>3, <2>1, <2>2 DEF OwnerInv, HeldSomewhere, Turns
<1>6. publishing = {} /\ failing = {}
  <2>1. publishing \subseteq Ids /\ failing \subseteq Ids /\ NoId \notin Ids
    BY ActorAssumption DEF LedgerInv, TypeInv, TypeOK, Ids, NoId
  <2> QED  BY <1>1, <1>4, <2>1 DEF FlowInv, PublisherLives
<1>7. ~idlePending
  BY <1>1, <1>2, <1>3, <1>5, <1>6 DEF FlowInv, IdleInv, WillAsk, Holding
<1> QED  BY <1>2, <1>3, <1>5, <1>7

\* Accepted work neither stalls nor is overtaken: an actor on which nothing can
\* run has nothing left to run and has said so, the head of the FIFO is always
\* being prepared, and work leaves in admission order, for every number of
\* callers and operations.
THEOREM ProgressCorrect == Spec => []NothingStallsOrOvertakes
<1>1. LedgerInv /\ OwnerInv /\ FlowInv => NothingStallsOrOvertakes
  BY QuietMeansDone DEF NothingStallsOrOvertakes, NothingMissedWhenQuiescent, FlowInv, Order
<1> QED  BY FlowAlways, <1>1, PTL

=============================================================================
