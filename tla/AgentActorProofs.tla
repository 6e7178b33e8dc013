-------------------------- MODULE AgentActorProofs --------------------------
(***************************************************************************)
(* Machine-checked proofs about AgentActor, for every value of its         *)
(* constants: type correctness; the outcome ledger; and that the actor     *)
(* implements TurnLedger.                                                  *)
(***************************************************************************)
EXTENDS AgentActor, TLAPS

\* The runner holds a piece of work exactly between the pop and the end of step.
Holding == {"popped", "installed", "granted", "backend", "control", "retire", "publish", "finish"}

TypeInv == TypeOK /\ (pc \in Holding => work \in Ids)

-----------------------------------------------------------------------------
(* Type correctness.                                                       *)

LEMMA DriveType ==
    ASSUME TypeOK, NEW ops, NEW q, NEW tasks,
           ops \subseteq Ids, q \subseteq Ids,
           tasks \in [Ids -> PrepStates],
           DriveOperations(ops, q, tasks)
    PROVE  /\ operations' \subseteq Ids /\ queue' \subseteq Ids
           /\ preparing' \in Ids \cup {NoId}
           /\ prep' \in [Ids -> PrepStates]
           /\ notifyToken' \in BOOLEAN /\ idlePending' \in BOOLEAN
  <1>1. idlePending' \in BOOLEAN
    BY DEF DriveOperations
  <1>2. CASE lifecycle # "Open"
    BY <1>1, <1>2 DEF TypeOK, DriveOperations
  <1>3. CASE lifecycle = "Open"
    <2> DEFINE waiting == {i \in ops : Prepares /\ kind'[i] = "Turn"}
               ready   == {i \in ops : \A j \in waiting : i < j}
    <2>1. operations' \subseteq Ids /\ queue' \subseteq Ids /\ notifyToken' \in BOOLEAN
      BY <1>3 DEF DriveOperations
    <2>2. preparing' \in Ids \cup {NoId} /\ prep' \in [Ids -> PrepStates]
      BY <1>3 DEF DriveOperations, PrepStates
    <2>3. QED
      BY <1>1, <2>1, <2>2
  <1>4. QED
    BY <1>2, <1>3

LEMMA DriveTypes ==
    ASSUME TypeOK, NEW ops, NEW q, ops \subseteq Ids, q \subseteq Ids,
           DriveOperations(ops, q, prep)
    PROVE  /\ operations' \subseteq Ids /\ queue' \subseteq Ids
           /\ preparing' \in Ids \cup {NoId}
           /\ prep' \in [Ids -> PrepStates]
           /\ notifyToken' \in BOOLEAN /\ idlePending' \in BOOLEAN
  BY DriveType DEF TypeOK

\* An admission allocates an operation id within the bound.
LEMMA RegisterType ==
    ASSUME TypeOK, NEW k \in Kinds, NEW key \in Correlations, Register(k, key)
    PROVE  /\ nextOperationId' \in Ids /\ nextOperationId' \in 0..MaxOperations
           /\ kind' \in [Ids -> Kinds \cup {None}]
           /\ correlation' \in [Ids -> Correlations \cup {NoKey}]
  BY ActorAssumption DEF Register, TypeOK, Ids

\* What a cut leaves its caller to do is well typed.
LEMMA SettleType ==
    ASSUME TypeOK, NEW c \in Callers, NEW op, NEW deferred, NEW queued, NEW fire, NEW r,
           op \in Calls, deferred \subseteq Ids, queued \subseteq Ids,
           fire \in Ids \cup {NoId}, r \in Reasons,
           Settle(c, op, deferred, queued, fire, r)
    PROVE  /\ phase' \in [Callers -> Phases] /\ call' \in [Callers -> Calls]
           /\ todo' \in [Callers -> SUBSET Ids] /\ drained' \in [Callers -> SUBSET Ids]
           /\ victim' \in [Callers -> Ids \cup {NoId}]
           /\ reason' \in [Callers -> Reasons \cup {None}]
           /\ publication' \in [Callers -> Ids \cup {NoId}]
  BY DEF Settle, TypeOK, Phases

LEMMA DoomType ==
    ASSUME TypeOK, NEW S, NEW r \in Reasons, Doom(S, r)
    PROVE  doomed' \in [Ids -> Reasons \cup {None}]
  BY DEF Doom, TypeOK, FirstReason

LEMMA RetireType ==
    ASSUME TypeOK, NEW t \in Ids, NEW o \in Outcomes, RetireTurn(t, o)
    PROVE  /\ outcomes' \in [Ids -> Outcomes \cup {None}]
           /\ tickets' \subseteq Ids /\ publishing' \subseteq Ids
  BY DEF RetireTurn, TypeOK, Outcomes

LEMMA PublishType ==
    ASSUME TypeOK, NEW t \in Ids, Publish(t)
    PROVE  /\ resolved' \in [Ids -> Outcomes \cup {None}]
           /\ ended' \in [Ids -> Nat]
           /\ publishing' \subseteq Ids
  BY DEF Publish, TypeOK, FirstReason

LEMMA PushType ==
    ASSUME TypeInv, NEW key \in Correlations,
           AdmitTurn(key) \/ PushControl(key) \/ PushCompact(key)
    PROVE  TypeInv'
  <1> USE DEF lifeVars, slotVars, cancelVars, runnerVars, callerVars, ledgerVars
  <1>1. TypeOK
    BY DEF TypeInv
  <1>2. PICK k \in Kinds : Register(k, key)
    BY DEF AdmitTurn, PushControl, PushCompact, PushOperation, Kinds
  <1>3. /\ nextOperationId' \in Ids /\ nextOperationId' \in 0..MaxOperations
        /\ kind' \in [Ids -> Kinds \cup {None}]
        /\ correlation' \in [Ids -> Correlations \cup {NoKey}]
    BY <1>1, <1>2, RegisterType
  <1>4. /\ operations \cup {nextOperationId'} \subseteq Ids /\ queue \subseteq Ids
        /\ DriveOperations(operations \cup {nextOperationId'}, queue, prep)
    BY <1>1, <1>3 DEF TypeOK, AdmitTurn, PushControl, PushCompact, PushOperation
  <1>5. /\ operations' \subseteq Ids /\ queue' \subseteq Ids
        /\ preparing' \in Ids \cup {NoId} /\ prep' \in [Ids -> PrepStates]
        /\ notifyToken' \in BOOLEAN /\ idlePending' \in BOOLEAN
    BY <1>1, <1>4, DriveTypes
  <1>6. CASE AdmitTurn(key)
    BY <1>3, <1>5, <1>6 DEF AdmitTurn, TypeInv, TypeOK
  <1>7. CASE PushControl(key) \/ PushCompact(key)
    BY <1>3, <1>5, <1>7, ZenonT(60) DEF PushControl, PushCompact, PushOperation, TypeInv, TypeOK
  <1>8. QED
    BY <1>6, <1>7

LEMMA AdmitCancelledType ==
    ASSUME TypeInv, NEW c \in Callers, NEW key \in Correlations, AdmitCancelled(c, key)
    PROVE  TypeInv'
  <1>1. TypeOK
    BY DEF TypeInv
  <1>2. /\ nextOperationId' \in Ids /\ nextOperationId' \in 0..MaxOperations
        /\ kind' \in [Ids -> Kinds \cup {None}]
        /\ correlation' \in [Ids -> Correlations \cup {NoKey}]
    BY <1>1, RegisterType DEF AdmitCancelled, Kinds
  <1>3. cancelledCorrelations[key] \in Reasons
    BY <1>1 DEF TypeOK, AdmitCancelled
  <1>4. /\ phase' \in [Callers -> Phases] /\ call' \in [Callers -> Calls]
        /\ todo' \in [Callers -> SUBSET Ids] /\ drained' \in [Callers -> SUBSET Ids]
        /\ victim' \in [Callers -> Ids \cup {NoId}]
        /\ reason' \in [Callers -> Reasons \cup {None}]
        /\ publication' \in [Callers -> Ids \cup {NoId}]
    BY <1>1, <1>2, <1>3 DEF AdmitCancelled, Settle, TypeOK, Phases, Calls
  <1>5. doomed' \in [Ids -> Reasons \cup {None}]
    BY <1>1, <1>3, DoomType DEF AdmitCancelled
  <1>6. tickets' \subseteq Ids
    BY <1>1, <1>2 DEF AdmitCancelled, TypeOK
  <1>7. QED
    BY <1>2, <1>4, <1>5, <1>6
    DEF AdmitCancelled, TypeInv, TypeOK, lifeVars, opVars, queueVars, slotVars, cancelVars, runnerVars

LEMMA CancelExistingType ==
    ASSUME TypeInv, NEW c \in Callers, CancelExisting(c) PROVE TypeInv'
  <1> USE DEF lifeVars, admitVars, opVars, queueVars, ledgerVars, slotVars, cancelVars, runnerVars, callerVars
  <1>1. TypeOK
    BY DEF TypeInv
  <1>2. /\ phase' \in [Callers -> Phases] /\ call' \in [Callers -> Calls]
        /\ todo' \in [Callers -> SUBSET Ids] /\ drained' \in [Callers -> SUBSET Ids]
        /\ victim' \in [Callers -> Ids \cup {NoId}]
        /\ reason' \in [Callers -> Reasons \cup {None}]
        /\ publication' \in [Callers -> Ids \cup {NoId}]
        /\ doomed' \in [Ids -> Reasons \cup {None}]
    BY <1>1, DoomType DEF CancelExisting, Settle, Turns, TypeOK, Phases, Calls, Reasons
  <1>3. /\ operations' \subseteq Ids /\ queue' \subseteq Ids
        /\ preparing' \in Ids \cup {NoId} /\ prep' \in [Ids -> PrepStates]
        /\ notifyToken' \in BOOLEAN /\ idlePending' \in BOOLEAN
    BY <1>1, DriveTypes DEF CancelExisting, Turns, TypeOK
  <1>4. QED
    BY <1>2, <1>3 DEF CancelExisting, TypeInv, TypeOK, FirstReason, Reasons

LEMMA CancelTurnType ==
    ASSUME TypeInv, NEW c \in Callers, NEW t \in Ids, CancelTurn(c, t) PROVE TypeInv'
  <1> USE DEF lifeVars, admitVars, opVars, queueVars, ledgerVars, slotVars, cancelVars, runnerVars, callerVars
  <1>1. TypeOK
    BY DEF TypeInv
  <1>2. /\ phase' \in [Callers -> Phases] /\ call' \in [Callers -> Calls]
        /\ todo' \in [Callers -> SUBSET Ids] /\ drained' \in [Callers -> SUBSET Ids]
        /\ victim' \in [Callers -> Ids \cup {NoId}]
        /\ reason' \in [Callers -> Reasons \cup {None}]
        /\ publication' \in [Callers -> Ids \cup {NoId}]
        /\ doomed' \in [Ids -> Reasons \cup {None}]
    BY <1>1, DoomType DEF CancelTurn, Settle, Turns, TypeOK, Phases, Calls, Reasons
  <1>3. /\ operations' \subseteq Ids /\ queue' \subseteq Ids
        /\ preparing' \in Ids \cup {NoId} /\ prep' \in [Ids -> PrepStates]
        /\ notifyToken' \in BOOLEAN /\ idlePending' \in BOOLEAN
    BY <1>1, DriveTypes DEF CancelTurn, Turns, TypeOK
  <1>4. QED
    BY <1>2, <1>3, SMTT(30) DEF CancelTurn, TypeInv, TypeOK, FirstReason, Reasons

LEMMA RemoveType ==
    ASSUME TypeInv, NEW c \in Callers, NEW t \in Ids, Remove(c, t) PROVE TypeInv'
  <1> USE DEF lifeVars, admitVars, opVars, queueVars, ledgerVars, slotVars, cancelVars, runnerVars, callerVars
  <1>1. TypeOK
    BY DEF TypeInv
  <1>2. /\ phase' \in [Callers -> Phases] /\ call' \in [Callers -> Calls]
        /\ todo' \in [Callers -> SUBSET Ids] /\ drained' \in [Callers -> SUBSET Ids]
        /\ victim' \in [Callers -> Ids \cup {NoId}]
        /\ reason' \in [Callers -> Reasons \cup {None}]
        /\ publication' \in [Callers -> Ids \cup {NoId}]
        /\ doomed' \in [Ids -> Reasons \cup {None}]
    <2>1. doomed' \in [Ids -> Reasons \cup {None}]
      BY <1>1, DoomType DEF Remove, Reasons
    <2>2. CASE t \in operations \cup queue
      <3>1. /\ operations \cap {t} \subseteq Ids /\ queue \cap {t} \subseteq Ids
            /\ "remove" \in Calls /\ "User" \in Reasons
        BY DEF Calls, Reasons
      <3>2. Settle(c, "remove", operations \cap {t}, queue \cap {t}, NoId, "User")
        BY <2>2 DEF Remove
      <3>3. QED
        BY <1>1, <2>1, <3>1, <3>2, SettleType
    <2>3. CASE t \notin operations \cup queue
      BY <1>1, <2>1, <2>3 DEF Remove, TypeOK
    <2>4. QED
      BY <2>2, <2>3
  <1>3. /\ operations' \subseteq Ids /\ queue' \subseteq Ids
        /\ preparing' \in Ids \cup {NoId} /\ prep' \in [Ids -> PrepStates]
        /\ notifyToken' \in BOOLEAN /\ idlePending' \in BOOLEAN
    BY <1>1, DriveTypes DEF Remove, Turns, TypeOK
  <1>4. QED
    BY <1>2, <1>3 DEF Remove, TypeInv, TypeOK, FirstReason, Reasons

LEMMA ClearType ==
    ASSUME TypeInv, NEW c \in Callers, Clear(c) PROVE TypeInv'
  <1> USE DEF lifeVars, admitVars, opVars, queueVars, ledgerVars, slotVars, cancelVars, runnerVars, callerVars
  <1>1. TypeOK
    BY DEF TypeInv
  <1>2. /\ phase' \in [Callers -> Phases] /\ call' \in [Callers -> Calls]
        /\ todo' \in [Callers -> SUBSET Ids] /\ drained' \in [Callers -> SUBSET Ids]
        /\ victim' \in [Callers -> Ids \cup {NoId}]
        /\ reason' \in [Callers -> Reasons \cup {None}]
        /\ publication' \in [Callers -> Ids \cup {NoId}]
        /\ doomed' \in [Ids -> Reasons \cup {None}]
    BY <1>1, DoomType DEF Clear, Settle, Turns, TypeOK, Phases, Calls, Reasons
  <1>3. /\ operations' \subseteq Ids /\ queue' \subseteq Ids
        /\ preparing' \in Ids \cup {NoId} /\ prep' \in [Ids -> PrepStates]
        /\ notifyToken' \in BOOLEAN /\ idlePending' \in BOOLEAN
    BY <1>1, DriveTypes DEF Clear, Turns, TypeOK
  <1>4. QED
    BY <1>2, <1>3 DEF Clear, TypeInv, TypeOK, FirstReason, Reasons

LEMMA CancelCorrelationType ==
    ASSUME TypeInv, NEW c \in Callers, NEW key \in Correlations, CancelCorrelation(c, key) PROVE TypeInv'
  <1> USE DEF lifeVars, admitVars, opVars, queueVars, ledgerVars, slotVars, cancelVars, runnerVars, callerVars
  <1>1. TypeOK
    BY DEF TypeInv
  <1>2. /\ phase' \in [Callers -> Phases] /\ call' \in [Callers -> Calls]
        /\ todo' \in [Callers -> SUBSET Ids] /\ drained' \in [Callers -> SUBSET Ids]
        /\ victim' \in [Callers -> Ids \cup {NoId}]
        /\ reason' \in [Callers -> Reasons \cup {None}]
        /\ publication' \in [Callers -> Ids \cup {NoId}]
        /\ doomed' \in [Ids -> Reasons \cup {None}]
    BY <1>1, DoomType DEF CancelCorrelation, Settle, Turns, TypeOK, Phases, Calls, Reasons
  <1>3. /\ operations' \subseteq Ids /\ queue' \subseteq Ids
        /\ preparing' \in Ids \cup {NoId} /\ prep' \in [Ids -> PrepStates]
        /\ notifyToken' \in BOOLEAN /\ idlePending' \in BOOLEAN
    BY <1>1, DriveTypes DEF CancelCorrelation, Turns, TypeOK
  <1>4. QED
    BY <1>2, <1>3, SMTT(30) DEF CancelCorrelation, TypeInv, TypeOK, FirstReason, Reasons

LEMMA CloseType ==
    ASSUME TypeInv, NEW c \in Callers, NEW l \in {"Closed", "Shutdown"}, Close(c, l)
    PROVE  TypeInv'
  <1> USE DEF lifeVars, admitVars, opVars, queueVars, ledgerVars, slotVars, cancelVars, runnerVars, callerVars
  <1>1. TypeOK
    BY DEF TypeInv
  <1>2. /\ phase' \in [Callers -> Phases] /\ call' \in [Callers -> Calls]
        /\ todo' \in [Callers -> SUBSET Ids] /\ drained' \in [Callers -> SUBSET Ids]
        /\ victim' \in [Callers -> Ids \cup {NoId}]
        /\ reason' \in [Callers -> Reasons \cup {None}]
        /\ publication' \in [Callers -> Ids \cup {NoId}]
        /\ doomed' \in [Ids -> Reasons \cup {None}]
    BY <1>1, DoomType DEF Close, Settle, Turns, TypeOK, Phases, Calls, Reasons
  <1>3. QED
    BY <1>2 DEF Close, TypeInv, TypeOK, FirstReason, Reasons

LEMMA CallerStepType ==
    ASSUME TypeInv, NEW c \in Callers, CallerStep(c) PROVE TypeInv'
  <1> USE DEF lifeVars, admitVars, opVars, queueVars, ledgerVars, slotVars, cancelVars, runnerVars, callerVars
  <1>1. TypeOK
    BY DEF TypeInv
  <1>2. CASE CallerRetire(c)
    BY <1>2 DEF CallerRetire, RetireTurn, TypeInv, TypeOK, Outcomes
  <1>3. CASE CallerPublish(c)
    <2>1. publication[c] \in Ids
      BY <1>1, <1>3 DEF CallerPublish, TypeOK
    <2>2. /\ resolved' \in [Ids -> Outcomes \cup {None}]
          /\ ended' \in [Ids -> Nat] /\ publishing' \subseteq Ids
      BY <1>1, <1>3, <2>1, PublishType DEF CallerPublish
    <2>3. QED
      BY <1>3, <2>2 DEF CallerPublish, FinishClose, PublishIdle, TypeInv, TypeOK
  <1>4. CASE CallerDeferredDone(c)
    BY <1>4, SMTT(30) DEF CallerDeferredDone, PublishIdle, TypeInv, TypeOK, Phases
  <1>5. CASE CallerFire(c)
    BY <1>5 DEF CallerFire, TypeInv, TypeOK, Phases, FirstReason
  <1>6. CASE CallerDrain(c)
    BY <1>6 DEF CallerDrain, TypeInv, TypeOK, Phases, Turns
  <1>7. CASE CallerDone(c)
    <2>1. closePending' \in BOOLEAN /\ notifyToken' \in BOOLEAN /\ wakeFlag' \in BOOLEAN
      BY <1>1, <1>7 DEF CallerDone, FinishClose, TypeOK
    <2>2. idlePending' \in BOOLEAN
      BY <1>1, <1>7 DEF CallerDone, PublishIdle, TypeOK
    <2>3. QED
      BY <1>7, <2>1, <2>2 DEF CallerDone, TypeInv, TypeOK, Phases, Calls
  <1>8. QED
    BY <1>2, <1>3, <1>4, <1>5, <1>6, <1>7 DEF CallerStep

LEMMA PreparationType ==
    ASSUME TypeInv, NEW i \in Ids, Preparation(i) PROVE TypeInv'
  <1> USE DEF lifeVars, admitVars, opVars, queueVars, ledgerVars, slotVars, cancelVars, runnerVars, callerVars
  <1>1. TypeOK
    BY DEF TypeInv
  <1>2. CASE PrepareStale(i)
    BY <1>2 DEF PrepareStale, TypeInv, TypeOK, PrepStates
  <1>3. CASE PrepareReady(i)
    <2> DEFINE tasks == [prep EXCEPT ![i] = "none"]
    <2>1. /\ operations \ {i} \subseteq Ids /\ queue \cup {i} \subseteq Ids
          /\ tasks \in [Ids -> PrepStates]
          /\ DriveOperations(operations \ {i}, queue \cup {i}, tasks)
      BY <1>1, <1>3 DEF PrepareReady, TypeOK, PrepStates
    <2>2. /\ operations' \subseteq Ids /\ queue' \subseteq Ids
          /\ preparing' \in Ids \cup {NoId} /\ prep' \in [Ids -> PrepStates]
          /\ notifyToken' \in BOOLEAN /\ idlePending' \in BOOLEAN
      <3> HIDE DEF tasks
      <3> QED
        BY <1>1, <2>1, DriveType
    <2>3. QED
      BY <1>3, <2>2 DEF PrepareReady, TypeInv, TypeOK
  <1>4. CASE PreparePanic(i)
    <2> DEFINE tasks == [prep EXCEPT ![i] = "failing"]
    <2>1. /\ operations \ {i} \subseteq Ids /\ queue \subseteq Ids
          /\ tasks \in [Ids -> PrepStates]
          /\ DriveOperations(operations \ {i}, queue, tasks)
      BY <1>1, <1>4 DEF PreparePanic, TypeOK, PrepStates
    <2>2. /\ operations' \subseteq Ids /\ queue' \subseteq Ids
          /\ preparing' \in Ids \cup {NoId} /\ prep' \in [Ids -> PrepStates]
          /\ notifyToken' \in BOOLEAN /\ idlePending' \in BOOLEAN
      <3> HIDE DEF tasks
      <3> QED
        BY <1>1, <2>1, DriveType
    <2>3. QED
      BY <1>4, <2>2 DEF PreparePanic, TypeInv, TypeOK
  <1>5. CASE FailRetire(i)
    <2>1. "Failed" \in Outcomes
      BY DEF Outcomes
    <2>2. QED
      BY <1>1, <1>5, <2>1, RetireType DEF FailRetire, TypeInv, TypeOK, PrepStates
  <1>6. CASE FailPublish(i)
    BY <1>1, <1>6, PublishType DEF FailPublish, FinishClose, PublishIdle, TypeInv, TypeOK, PrepStates
  <1>7. CASE FailDone(i)
    BY <1>7 DEF FailDone, FinishClose, PublishIdle, TypeInv, TypeOK, PrepStates
  <1>8. QED
    BY <1>2, <1>3, <1>4, <1>5, <1>6, <1>7 DEF Preparation

LEMMA RunnerType ==
    ASSUME TypeInv, Runner \/ RunnerInterrupt \/ RunnerRefused PROVE TypeInv'
  <1> USE DEF lifeVars, admitVars, opVars, queueVars, ledgerVars, slotVars, cancelVars, runnerVars, callerVars
  <1>1. TypeOK
    BY DEF TypeInv
  <1>2. CASE RunnerPop
    BY <1>2 DEF RunnerPop, RetireSupersededPrecancels, TypeInv, TypeOK, RunnerStates
  <1>3. CASE RunnerEmpty \/ RunnerWait \/ RunnerWake
    BY <1>3, ZenonT(60) DEF RunnerEmpty, RunnerWait, RunnerWake, RunnerOnly, TypeInv, TypeOK, RunnerStates, Holding
  <1>4. CASE RunnerInstall
    BY <1>4 DEF RunnerInstall, RunnerTo, TypeInv, TypeOK, RunnerStates, Holding, Outcomes, Reasons
  <1>5. CASE RunnerPermit \/ RunnerStart
    BY <1>5 DEF RunnerPermit, RunnerStart, RunnerTo, FirstReason, TypeInv, TypeOK, RunnerStates, Holding, Outcomes, Reasons
  <1>6. CASE RunnerBackend
    BY <1>6 DEF RunnerBackend, RunnerTo, TypeInv, TypeOK, RunnerStates, Holding, Outcomes
  <1>7. CASE RunnerInterrupt
    BY <1>7 DEF RunnerInterrupt, TypeInv, TypeOK
  <1>8. CASE RunnerRetire
    <2>1. work \in Ids /\ result \in Outcomes
      BY <1>1, <1>8 DEF RunnerRetire, TypeInv, TypeOK, Holding
    <2>2. QED
      BY <1>1, <1>8, <2>1, RetireType DEF RunnerRetire, TypeInv, TypeOK, RunnerStates
  <1>9. CASE RunnerPublish
    <2>1. work \in Ids
      BY <1>9 DEF RunnerPublish, TypeInv, Holding
    <2>2. QED
      BY <1>1, <1>9, <2>1, PublishType
      DEF RunnerPublish, FinishClose, PublishIdle, TypeInv, TypeOK, RunnerStates
  <1>10. CASE RunnerInstallControl \/ RunnerControlDone
    BY <1>10 DEF RunnerInstallControl, RunnerControlDone, RunnerTo, TypeInv, TypeOK, RunnerStates, Holding
  <1>11. CASE RunnerFinish
    BY <1>11 DEF RunnerFinish, FinishClose, PublishIdle, TypeInv, TypeOK, RunnerStates, Holding
  <1>12. CASE RunnerRefused
    <2>1. doomed' \in [Ids -> Reasons \cup {None}]
      BY <1>1, <1>12, DoomType, ActorAssumption DEF RunnerRefused, Reasons
    <2>2. QED
      BY <1>12, <2>1, ActorAssumption DEF RunnerRefused, TypeInv, TypeOK, RunnerStates, Holding, Outcomes, Reasons
  <1>13. QED
    BY <1>2, <1>3, <1>4, <1>5, <1>6, <1>7, <1>8, <1>9, <1>10, <1>11, <1>12 DEF Runner

LEMMA TypeInit == Init => TypeInv
  <1> SUFFICES ASSUME Init PROVE TypeInv
    OBVIOUS
  <1>1. nextOperationId \in 0..MaxOperations
    BY ActorAssumption DEF Init
  <1>2. pc \in RunnerStates /\ pc \notin Holding /\ pc # "retire"
    BY DEF Init, RunnerStates, Holding
  <1>3. QED
    BY <1>1, <1>2 DEF Init, TypeInv, TypeOK, PrepStates, Phases, Calls

LEMMA TypeStep == TypeInv /\ [Next]_vars => TypeInv'
  <1> SUFFICES ASSUME TypeInv, [Next]_vars PROVE TypeInv'
    OBVIOUS
  <1>1. CASE Push
    BY <1>1, PushType DEF Push
  <1>2. CASE Runner \/ RunnerInterrupt \/ RunnerRefused
    BY <1>2, RunnerType
  <1>3. ASSUME NEW c \in Callers, Call(c) PROVE TypeInv'
    BY <1>3, AdmitCancelledType, CancelCorrelationType, CancelTurnType, RemoveType,
       CancelExistingType, ClearType, CloseType DEF Call
  <1>4. CASE \E c \in Callers : CallerStep(c)
    BY <1>4, CallerStepType
  <1>5. CASE \E i \in Ids : Preparation(i)
    BY <1>5, PreparationType
  <1>6. CASE UNCHANGED vars
    BY <1>6 DEF vars, lifeVars, admitVars, opVars, queueVars, ledgerVars, slotVars, cancelVars,
                runnerVars, callerVars, TypeInv, TypeOK
  <1>7. QED
    BY <1>1, <1>2, <1>3, <1>4, <1>5, <1>6 DEF Next

\* The state of the actor, of its runner and of its callers is well typed, and a
\* turn is never finalized by the runner without an outcome, in every behaviour.
THEOREM TypeCorrect == Spec => []TypeOK
  <1>1. TypeInv => TypeOK
    BY DEF TypeInv
  <1>2. QED
    BY TypeInit, TypeStep, <1>1, PTL DEF Spec
-----------------------------------------------------------------------------
(***************************************************************************)
(* The outcome ledger: one outcome per turn, published once, and Close as  *)
(* the last event.                                                         *)
(***************************************************************************)

TurnStates == {"installed", "granted", "backend", "retire", "publish"}

\* Whoever is about to finalize something finalizes an admitted turn, and a
\* terminal actor has no operations left.
KindInv ==
    /\ \A i \in Ids : i > nextOperationId => kind[i] = None
    /\ \A t \in tickets : kind[t] = "Turn"
    /\ \A t \in Ids : outcomes[t] # None => kind[t] = "Turn"
    /\ \A c \in Callers : \A t \in Owed(c) : kind[t] = "Turn"
    /\ pc \in TurnStates => kind[work] = "Turn"
    /\ \A i \in Ids : prep[i] # "none" => kind[i] = "Turn"
    /\ \A i \in operations : prep[i] \in {"none", "running"}
    /\ lifecycle # "Open" => operations = {}
    /\ \A c \in Callers : phase[c] # "free" => reason[c] \in Reasons

\* A turn being published has one publisher and a retained outcome.
PublisherInv ==
    /\ \A t \in publishing : outcomes[t] # None
    /\ \A c \in Callers : publication[c] # NoId => publication[c] \in publishing
    /\ pc = "publish" => work \in publishing
    /\ \A i \in Ids : prep[i] = "publishing" => i \in publishing
    /\ \A c, d \in Callers : c # d /\ publication[c] # NoId => publication[c] # publication[d]
    /\ \A c \in Callers : publication[c] # NoId =>
          /\ pc = "publish" => publication[c] # work
          /\ prep[publication[c]] # "publishing"
    /\ pc = "publish" => prep[work] # "publishing"

\* End is emitted with the resolution of the ticket, and never after Close.
EndInv ==
    /\ \A t \in Ids : ended[t] = IF resolved[t] = None THEN 0 ELSE 1
    /\ CloseEmitted => tickets = {} /\ publishing = {}

LedgerInv == TypeInv /\ KindInv /\ PublisherInv /\ OutcomeLedger /\ EndInv

-----------------------------------------------------------------------------
\* All a drive of the FIFO does to the preparation tasks is start one of a turn.
OnlyStarts(ops, tasks) ==
    /\ \A j \in Ids : prep'[j] # tasks[j] => prep'[j] = "running"
    /\ \A j \in Ids : prep'[j] # tasks[j] => kind'[j] = "Turn"
    /\ \A j \in Ids : prep'[j] # tasks[j] => j \in ops

LEMMA DriveFacts ==
    ASSUME TypeOK, NEW ops, NEW q, NEW tasks,
           ops \subseteq Ids, q \subseteq Ids, tasks \in [Ids -> PrepStates],
           DriveOperations(ops, q, tasks)
    PROVE  operations' \subseteq ops /\ OnlyStarts(ops, tasks)
  BY DEF DriveOperations, TypeOK, OnlyStarts

LEMMA RetireFacts ==
    ASSUME LedgerInv, NEW t \in Ids, kind[t] = "Turn", NEW o \in Outcomes, RetireTurn(t, o)
    PROVE  /\ outcomes' \in [Ids -> Outcomes \cup {None}]
           /\ outcomes'[t] # None
           /\ \A u \in Ids \ {t} : outcomes'[u] = outcomes[u]
           /\ outcomes[t] # None => UNCHANGED <<outcomes, tickets, publishing>>
           /\ outcomes[t] = None => /\ t \in tickets
                                    /\ tickets' = tickets \ {t}
                                    /\ publishing' = publishing \cup {t}
  BY DEF LedgerInv, TypeInv, TypeOK, OutcomeLedger, RetireTurn, Outcomes, Reasons, None

LEMMA PublishFacts ==
    ASSUME LedgerInv, NEW t \in Ids, t \in publishing, Publish(t)
    PROVE  /\ ~CloseEmitted
           /\ resolved[t] = None /\ outcomes[t] # None
           /\ resolved' = [resolved EXCEPT ![t] = outcomes[t]]
           /\ ended' = [ended EXCEPT ![t] = 1]
           /\ publishing' = publishing \ {t}
  <1>1. ~CloseEmitted /\ outcomes[t] # None
    BY DEF LedgerInv, PublisherInv, EndInv
  <1>2. resolved[t] = None
    BY DEF LedgerInv, OutcomeLedger
  <1>3. resolved' = [resolved EXCEPT ![t] = outcomes[t]] /\ publishing' = publishing \ {t}
    BY <1>2 DEF Publish, FirstReason, LedgerInv, TypeInv, TypeOK
  <1>4. ended[t] = 0
    BY <1>2 DEF LedgerInv, EndInv
  <1>5. ended' = [ended EXCEPT ![t] = 1]
    BY <1>1, <1>4 DEF Publish, LedgerInv, TypeInv, TypeOK
  <1>6. QED
    BY <1>1, <1>2, <1>3, <1>5

-----------------------------------------------------------------------------
LEMMA InitLedger == Init => LedgerInv
  <1> SUFFICES ASSUME Init PROVE LedgerInv
    OBVIOUS
  <1>1. TypeInv
    BY TypeInit
  <1>2. KindInv /\ PublisherInv
    BY DEF Init, KindInv, PublisherInv, Owed, TurnStates
  <1>3. OutcomeLedger /\ EndInv
    BY DEF Init, OutcomeLedger, EndInv, CloseEmitted, None
  <1>4. QED
    BY <1>1, <1>2, <1>3 DEF LedgerInv

\* Driving the FIFO disturbs neither the publishers nor what they publish.
LEMMA DriveLedger ==
    ASSUME LedgerInv, TypeInv',
           operations' \subseteq operations,
           OnlyStarts(operations, prep),
           UNCHANGED <<nextOperationId, kind, tickets, outcomes, resolved, ended, publishing,
                       pc, work, publication>>,
           lifecycle' # "Open" => operations' = {},
           CloseEmitted' => CloseEmitted,
           \A c \in Callers : \A t \in Owed(c)' : kind[t] = "Turn",
           \A c \in Callers : phase'[c] # "free" => reason'[c] \in Reasons
    PROVE  LedgerInv'
  <1>1. KindInv'
    BY DEF LedgerInv, KindInv, TypeInv, TypeOK, OnlyStarts
  <1>2. PublisherInv'
    <2>1. \A i \in Ids : prep'[i] = "publishing" <=> prep[i] = "publishing"
      BY DEF LedgerInv, KindInv, TypeInv, TypeOK, OnlyStarts
    <2>2. publishing \subseteq Ids /\ (pc = "publish" => work \in Ids)
      BY DEF LedgerInv, TypeInv, TypeOK, Holding
    <2>3. QED
      BY <2>1, <2>2 DEF LedgerInv, PublisherInv
  <1>3. OutcomeLedger' /\ EndInv'
    BY DEF LedgerInv, OutcomeLedger, EndInv
  <1>4. QED
    BY <1>1, <1>2, <1>3 DEF LedgerInv

\* A cut leaves admitted turns to its caller.
LEMMA SettleFacts ==
    ASSUME LedgerInv, NEW c \in Callers, NEW op, NEW deferred, NEW queued, NEW fire, NEW r \in Reasons,
           deferred \subseteq Ids, queued \subseteq Ids,
           Settle(c, op, deferred, queued, fire, r),
           \A t \in deferred \cup queued : kind[t] = "Turn"
    PROVE  /\ UNCHANGED publication
           /\ \A d \in Callers : \A t \in Owed(d)' : kind[t] = "Turn"
           /\ \A d \in Callers : phase'[d] # "free" => reason'[d] \in Reasons
  <1>1. \A d \in Callers : Owed(d)' = IF d = c THEN deferred \cup queued ELSE Owed(d)
    BY DEF Settle, Owed, LedgerInv, TypeInv, TypeOK
  <1>2. \A d \in Callers : /\ phase'[d] = IF d = c THEN "deferred" ELSE phase[d]
                           /\ reason'[d] = IF d = c THEN r ELSE reason[d]
    BY DEF Settle, LedgerInv, TypeInv, TypeOK
  <1>3. QED
    BY <1>1, <1>2 DEF Settle, LedgerInv, KindInv

LEMMA CancelExistingLedger ==
    ASSUME LedgerInv, NEW c \in Callers, CancelExisting(c) PROVE LedgerInv'
  <1>1. TypeInv /\ TypeInv' /\ TypeOK
    BY CancelExistingType DEF LedgerInv, TypeInv
  <1>2. operations' \subseteq operations /\ OnlyStarts(operations, prep)
    <2>1. /\ DriveOperations({}, {}, prep)
          /\ {} \subseteq Ids /\ {} \subseteq Ids
          /\ prep \in [Ids -> PrepStates]
      BY <1>1 DEF CancelExisting, TypeOK, admitVars
    <2>2. QED
      BY <1>1, <2>1, DriveFacts DEF OnlyStarts
  <1>3. /\ UNCHANGED publication
        /\ \A d \in Callers : \A t \in Owed(d)' : kind[t] = "Turn"
        /\ \A d \in Callers : phase'[d] # "free" => reason'[d] \in Reasons
    <2>1. /\ Settle(c, "cancel_existing", Turns(operations), Turns(queue), active, "User")
          /\ Turns(operations) \subseteq Ids /\ Turns(queue) \subseteq Ids
          /\ \A t \in Turns(operations) \cup Turns(queue) : kind[t] = "Turn"
      BY <1>1 DEF CancelExisting, TypeOK, Turns
    <2>2. QED
      BY <2>1, SettleFacts DEF Reasons
  <1>4. QED
    BY <1>1, <1>2, <1>3, DriveLedger
    DEF CancelExisting, LedgerInv, KindInv, CloseEmitted, lifeVars, admitVars, ledgerVars, runnerVars

LEMMA ClearLedger ==
    ASSUME LedgerInv, NEW c \in Callers, Clear(c) PROVE LedgerInv'
  <1>1. TypeInv /\ TypeInv' /\ TypeOK
    BY ClearType DEF LedgerInv, TypeInv
  <1>2. operations' \subseteq operations /\ OnlyStarts(operations, prep)
    <2>1. /\ DriveOperations({}, {}, prep)
          /\ {} \subseteq Ids /\ {} \subseteq Ids
          /\ prep \in [Ids -> PrepStates]
      BY <1>1 DEF Clear, TypeOK, admitVars
    <2>2. QED
      BY <1>1, <2>1, DriveFacts DEF OnlyStarts
  <1>3. /\ UNCHANGED publication
        /\ \A d \in Callers : \A t \in Owed(d)' : kind[t] = "Turn"
        /\ \A d \in Callers : phase'[d] # "free" => reason'[d] \in Reasons
    <2>1. /\ Settle(c, "clear", Turns(operations), Turns(queue), NoId, "User")
          /\ Turns(operations) \subseteq Ids /\ Turns(queue) \subseteq Ids
          /\ \A t \in Turns(operations) \cup Turns(queue) : kind[t] = "Turn"
      BY <1>1 DEF Clear, TypeOK, Turns
    <2>2. QED
      BY <2>1, SettleFacts DEF Reasons
  <1>4. QED
    BY <1>1, <1>2, <1>3, DriveLedger
    DEF Clear, LedgerInv, KindInv, CloseEmitted, lifeVars, admitVars, ledgerVars, runnerVars

LEMMA CancelTurnLedger ==
    ASSUME LedgerInv, NEW c \in Callers, NEW u \in Ids, CancelTurn(c, u) PROVE LedgerInv'
  <1>1. TypeInv /\ TypeInv' /\ TypeOK
    BY CancelTurnType DEF LedgerInv, TypeInv
  <1>2. operations' \subseteq operations /\ OnlyStarts(operations, prep)
    <2>1. /\ DriveOperations(operations \ {u}, queue \ {u}, prep)
          /\ operations \ {u} \subseteq Ids /\ queue \ {u} \subseteq Ids
          /\ prep \in [Ids -> PrepStates]
      BY <1>1 DEF CancelTurn, TypeOK, admitVars
    <2>2. QED
      BY <1>1, <2>1, DriveFacts DEF OnlyStarts
  <1>3. /\ UNCHANGED publication
        /\ \A d \in Callers : \A t \in Owed(d)' : kind[t] = "Turn"
        /\ \A d \in Callers : phase'[d] # "free" => reason'[d] \in Reasons
    <2>1. /\ Settle(c, "cancel_turn", operations \cap {u}, queue \cap {u}, NoId, "User")
          /\ operations \cap {u} \subseteq Ids /\ queue \cap {u} \subseteq Ids
          /\ kind[u] = "Turn"
      BY <1>1 DEF CancelTurn, TypeOK, LedgerInv, KindInv
    <2>2. QED
      BY <2>1, SettleFacts DEF Reasons
  <1>4. QED
    BY <1>1, <1>2, <1>3, DriveLedger
    DEF CancelTurn, LedgerInv, KindInv, CloseEmitted, lifeVars, admitVars, ledgerVars, runnerVars

LEMMA RemoveLedger ==
    ASSUME LedgerInv, NEW c \in Callers, NEW u \in Ids, Remove(c, u) PROVE LedgerInv'
  <1>1. TypeInv /\ TypeInv' /\ TypeOK
    BY RemoveType DEF LedgerInv, TypeInv
  <1>2. operations' \subseteq operations /\ OnlyStarts(operations, prep)
    <2>1. /\ DriveOperations(operations \ {u}, queue \ {u}, prep)
          /\ operations \ {u} \subseteq Ids /\ queue \ {u} \subseteq Ids
          /\ prep \in [Ids -> PrepStates]
      BY <1>1 DEF Remove, TypeOK, admitVars
    <2>2. QED
      BY <1>1, <2>1, DriveFacts DEF OnlyStarts
  <1>3. /\ UNCHANGED publication
        /\ \A d \in Callers : \A t \in Owed(d)' : kind[t] = "Turn"
        /\ \A d \in Callers : phase'[d] # "free" => reason'[d] \in Reasons
    <2>1. CASE u \in operations \cup queue
      <3>1. /\ Settle(c, "remove", operations \cap {u}, queue \cap {u}, NoId, "User")
            /\ operations \cap {u} \subseteq Ids /\ queue \cap {u} \subseteq Ids
            /\ kind[u] = "Turn"
        BY <1>1, <2>1 DEF Remove, TypeOK
      <3>2. QED
        BY <3>1, SettleFacts DEF Reasons
    <2>2. CASE u \notin operations \cup queue
      BY <2>2 DEF Remove, callerVars, Owed, LedgerInv, KindInv
    <2>3. QED
      BY <2>1, <2>2
  <1>4. QED
    BY <1>1, <1>2, <1>3, DriveLedger
    DEF Remove, LedgerInv, KindInv, CloseEmitted, lifeVars, admitVars, ledgerVars, runnerVars

LEMMA CancelCorrelationLedger ==
    ASSUME LedgerInv, NEW c \in Callers, NEW key \in Correlations, CancelCorrelation(c, key)
    PROVE  LedgerInv'
  <1> DEFINE matched(S) == {i \in S : (i # NoId /\ correlation[i] = key) /\ kind[i] # "Control"}
             ops == operations \ matched(operations)
             q   == queue \ matched(queue)
             deferred == Turns(matched(operations))
             queued   == Turns(matched(queue))
  <1>1. TypeInv /\ TypeInv' /\ TypeOK
    BY CancelCorrelationType DEF LedgerInv, TypeInv
  <1>2. operations' \subseteq operations /\ OnlyStarts(operations, prep)
    <2>1. DriveOperations(ops, q, prep)
      BY DEF CancelCorrelation, admitVars
    <2>2. /\ ops \subseteq Ids /\ q \subseteq Ids /\ ops \subseteq operations
          /\ prep \in [Ids -> PrepStates]
      BY <1>1 DEF TypeOK
    <2> HIDE DEF ops, q
    <2>3. QED
      BY <1>1, <2>1, <2>2, DriveFacts DEF OnlyStarts
  <1>3. /\ UNCHANGED publication
        /\ \A d \in Callers : \A t \in Owed(d)' : kind[t] = "Turn"
        /\ \A d \in Callers : phase'[d] # "free" => reason'[d] \in Reasons
    <2>1. Settle(c, "cancel_correlation", deferred, queued, NoId, "User")
      BY DEF CancelCorrelation
    <2>2. /\ deferred \subseteq Ids /\ queued \subseteq Ids
          /\ \A t \in deferred \cup queued : kind[t] = "Turn"
      BY <1>1 DEF TypeOK, Turns
    <2> HIDE DEF deferred, queued
    <2>3. QED
      BY <2>1, <2>2, SettleFacts DEF Reasons
  <1>4. QED
    BY <1>1, <1>2, <1>3, DriveLedger
    DEF CancelCorrelation, LedgerInv, KindInv, CloseEmitted, lifeVars, admitVars, ledgerVars, runnerVars

LEMMA CloseLedger ==
    ASSUME LedgerInv, NEW c \in Callers, NEW l \in {"Closed", "Shutdown"}, Close(c, l)
    PROVE  LedgerInv'
  <1>1. TypeInv /\ TypeInv' /\ TypeOK
    BY CloseType DEF LedgerInv, TypeInv
  <1>2. /\ UNCHANGED publication
        /\ \A d \in Callers : \A t \in Owed(d)' : kind[t] = "Turn"
        /\ \A d \in Callers : phase'[d] # "free" => reason'[d] \in Reasons
    <2>1. /\ Settle(c, "close", Turns(operations), {}, NoId, l)
          /\ Turns(operations) \subseteq Ids /\ l \in Reasons
          /\ \A t \in Turns(operations) : kind[t] = "Turn"
      BY <1>1 DEF Close, TypeOK, Turns, Reasons
    <2>2. QED
      BY <2>1, SettleFacts
  <1>3. OnlyStarts(operations, prep)
    BY DEF Close, OnlyStarts
  <1>4. QED
    BY <1>1, <1>2, <1>3, DriveLedger
    DEF Close, LedgerInv, KindInv, CloseEmitted, lifeVars, admitVars, ledgerVars, runnerVars

-----------------------------------------------------------------------------
(* Admission.                                                              *)

LEMMA RegisterLedger ==
    ASSUME LedgerInv, TypeInv', NEW k \in Kinds, NEW key, Register(k, key),
           tickets' = IF k = "Turn" THEN tickets \cup {nextOperationId'} ELSE tickets,
           UNCHANGED <<lifecycle, closePending, outcomes, resolved, ended, publishing,
                       pc, work, publication>>,
           operations' \subseteq operations \cup {nextOperationId'},
           OnlyStarts(operations \cup {nextOperationId'}, prep),
           \A c \in Callers : Owed(c)' \subseteq
              Owed(c) \cup (IF k = "Turn" THEN {nextOperationId'} ELSE {}),
           \A c \in Callers : phase'[c] # "free" => reason'[c] \in Reasons
    PROVE  LedgerInv'
  <1> DEFINE id == nextOperationId'
  <1>1. /\ id \in Ids /\ id > nextOperationId /\ nextOperationId \in Nat
        /\ kind[id] = None /\ kind'[id] = k
        /\ \A i \in Ids \ {id} : kind'[i] = kind[i]
    BY ActorAssumption DEF Register, LedgerInv, KindInv, TypeInv, TypeOK, Ids
  <1>2. id \notin tickets /\ outcomes[id] = None /\ resolved[id] = None /\ prep[id] = "none"
    BY <1>1 DEF LedgerInv, KindInv, OutcomeLedger, None
  <1>3. /\ \A i \in Ids : kind[i] = "Turn" => kind'[i] = "Turn"
        /\ \A i \in Ids : kind'[i] = "Turn" => kind[i] = "Turn" \/ (i = id /\ k = "Turn")
    BY <1>1 DEF None
  <1>4. \A i \in Ids : i > id => kind'[i] = None
    BY <1>1 DEF LedgerInv, KindInv, Ids
  <1>5. KindInv'
    <2>1. \A t \in tickets' : kind'[t] = "Turn"
      BY <1>1, <1>3 DEF LedgerInv, KindInv, TypeInv, TypeOK
    <2>2. \A c \in Callers : \A t \in Owed(c)' : kind'[t] = "Turn"
      BY <1>1, <1>3 DEF LedgerInv, KindInv, TypeInv, TypeOK, Owed
    <2>3. \A t \in Ids : outcomes'[t] # None => kind'[t] = "Turn"
      BY <1>3 DEF LedgerInv, KindInv
    <2>4. pc' \in TurnStates => kind'[work'] = "Turn"
      BY <1>3 DEF LedgerInv, KindInv, TypeInv, TurnStates, Holding
    <2>5. \A i \in Ids : prep'[i] # "none" => kind'[i] = "Turn"
      BY <1>3 DEF LedgerInv, KindInv, OnlyStarts
    <2>6. \A i \in operations' : prep'[i] \in {"none", "running"}
      BY <1>1, <1>2 DEF LedgerInv, KindInv, TypeInv, TypeOK, OnlyStarts
    <2>7. lifecycle' = "Open"
      BY DEF Register
    <2>8. QED
      BY <1>4, <2>1, <2>2, <2>3, <2>4, <2>5, <2>6, <2>7 DEF KindInv
  <1>6. PublisherInv'
    <2>1. \A i \in Ids : prep'[i] = "publishing" <=> prep[i] = "publishing"
      BY <1>1, <1>2 DEF LedgerInv, KindInv, TypeInv, TypeOK, OnlyStarts
    <2>2. publishing \subseteq Ids /\ (pc = "publish" => work \in Ids)
      BY DEF LedgerInv, TypeInv, TypeOK, Holding
    <2>3. QED
      BY <2>1, <2>2 DEF LedgerInv, PublisherInv
  <1>7. OutcomeLedger' /\ EndInv'
    <2>1. ~CloseEmitted'
      BY DEF Register, CloseEmitted
    <2>2. EndInv'
      BY <2>1 DEF LedgerInv, EndInv
    <2>3. OutcomeLedger'
      BY <1>1, <1>2, <1>3 DEF LedgerInv, OutcomeLedger
    <2>4. QED
      BY <2>2, <2>3
  <1>8. QED
    BY <1>5, <1>6, <1>7 DEF LedgerInv

LEMMA PushLedger ==
    ASSUME LedgerInv, NEW key \in Correlations,
           AdmitTurn(key) \/ PushControl(key) \/ PushCompact(key)
    PROVE  LedgerInv'
  <1> USE DEF lifeVars, slotVars, cancelVars, runnerVars, callerVars, ledgerVars
  <1>1. TypeInv /\ TypeInv' /\ TypeOK
    BY PushType DEF LedgerInv, TypeInv
  <1>2. PICK k \in Kinds :
           /\ Register(k, key)
           /\ tickets' = IF k = "Turn" THEN tickets \cup {nextOperationId'} ELSE tickets
    BY DEF AdmitTurn, PushControl, PushCompact, PushOperation, Kinds
  <1>3. UNCHANGED <<lifecycle, closePending, outcomes, resolved, ended, publishing,
                    pc, work, publication, todo, drained, phase, reason>>
    BY DEF AdmitTurn, PushControl, PushCompact, PushOperation
  <1>4. operations' \subseteq operations \cup {nextOperationId'}
        /\ OnlyStarts(operations \cup {nextOperationId'}, prep)
    <2>1. /\ DriveOperations(operations \cup {nextOperationId'}, queue, prep)
          /\ operations \cup {nextOperationId'} \subseteq Ids /\ queue \subseteq Ids
          /\ prep \in [Ids -> PrepStates]
      BY <1>1, <1>2, RegisterType DEF TypeOK, AdmitTurn, PushControl, PushCompact, PushOperation
    <2>2. QED
      BY <1>1, <2>1, DriveFacts
  <1>5. /\ \A c \in Callers : Owed(c)' = Owed(c)
        /\ \A c \in Callers : phase'[c] # "free" => reason'[c] \in Reasons
    BY <1>3 DEF Owed, LedgerInv, KindInv
  <1>6. QED
    BY <1>1, <1>2, <1>3, <1>4, <1>5, RegisterLedger

LEMMA AdmitCancelledLedger ==
    ASSUME LedgerInv, NEW c \in Callers, NEW key \in Correlations, AdmitCancelled(c, key)
    PROVE  LedgerInv'
  <1> USE DEF lifeVars, opVars, queueVars, slotVars, cancelVars, runnerVars
  <1>1. TypeInv /\ TypeInv' /\ TypeOK /\ "Turn" \in Kinds
    BY AdmitCancelledType DEF LedgerInv, TypeInv, Kinds
  <1>2. /\ Register("Turn", key)
        /\ tickets' = tickets \cup {nextOperationId'}
        /\ UNCHANGED <<lifecycle, closePending, outcomes, resolved, ended, publishing,
                       pc, work, operations, prep>>
    BY DEF AdmitCancelled
  <1>3. OnlyStarts(operations \cup {nextOperationId'}, prep)
    BY <1>2 DEF OnlyStarts
  <1>4. /\ UNCHANGED publication
        /\ \A d \in Callers : Owed(d)' = IF d = c THEN {nextOperationId'} ELSE Owed(d)
    BY <1>1 DEF AdmitCancelled, Settle, Owed, TypeOK
  <1>5. \A d \in Callers : phase'[d] # "free" => reason'[d] \in Reasons
    BY <1>1 DEF AdmitCancelled, Settle, LedgerInv, KindInv, TypeOK
  <1>6. \A d \in Callers : Owed(d)' \subseteq Owed(d) \cup {nextOperationId'}
    BY <1>4
  <1>7. QED
    BY <1>1, <1>2, <1>3, <1>4, <1>5, <1>6, RegisterLedger

-----------------------------------------------------------------------------
(* Retaining and publishing an outcome.                                    *)

LEMMA RetireLedger ==
    ASSUME LedgerInv, NEW t \in Ids, kind[t] = "Turn", NEW o \in Outcomes, RetireTurn(t, o),
           UNCHANGED <<lifecycle, closePending, kind, resolved, ended>>
    PROVE  OutcomeLedger' /\ EndInv'
  <1>1. CASE outcomes[t] # None
    BY <1>1, RetireFacts DEF LedgerInv, OutcomeLedger, EndInv, CloseEmitted
  <1>2. CASE outcomes[t] = None
    <2>1. ~CloseEmitted'
      BY <1>2, RetireFacts DEF LedgerInv, EndInv, CloseEmitted
    <2>2. resolved[t] = None
      BY <1>2 DEF LedgerInv, OutcomeLedger
    <2>3. OutcomeLedger'
      BY <1>2, <2>2, RetireFacts DEF LedgerInv, OutcomeLedger
    <2>4. EndInv'
      BY <2>1 DEF LedgerInv, EndInv
    <2>5. QED
      BY <2>3, <2>4
  <1>3. QED
    BY <1>1, <1>2

LEMMA PublishLedger ==
    ASSUME LedgerInv, NEW t \in publishing, Publish(t), FinishClose,
           UNCHANGED <<lifecycle, kind, tickets, outcomes>>
    PROVE  OutcomeLedger' /\ EndInv'
  <1>1. t \in Ids
    BY DEF LedgerInv, TypeInv, TypeOK
  <1>2. OutcomeLedger'
    BY <1>1, PublishFacts DEF LedgerInv, OutcomeLedger, TypeInv, TypeOK
  <1>3. \A u \in Ids : ended'[u] = IF resolved'[u] = None THEN 0 ELSE 1
    BY <1>1, PublishFacts DEF LedgerInv, EndInv, TypeInv, TypeOK
  <1>4. CloseEmitted' => tickets' = {} /\ publishing' = {}
    BY <1>1, PublishFacts DEF FinishClose, CloseEmitted
  <1>5. QED
    BY <1>2, <1>3, <1>4 DEF EndInv

\* A step that only may emit Close.
LEMMA FinishLedger ==
    ASSUME LedgerInv, FinishClose,
           UNCHANGED <<lifecycle, kind, tickets, outcomes, resolved, ended, publishing>>
    PROVE  OutcomeLedger' /\ EndInv'
  BY DEF LedgerInv, OutcomeLedger, EndInv, FinishClose, CloseEmitted

LEMMA CallerRetireLedger ==
    ASSUME LedgerInv, NEW c \in Callers, CallerRetire(c) PROVE LedgerInv'
  <1> USE DEF lifeVars, admitVars, opVars, runnerVars
  <1>1. TypeInv /\ TypeInv' /\ TypeOK
    BY CallerStepType DEF LedgerInv, TypeInv, CallerStep
  <1>2. PICK t \in todo[c] :
           /\ RetireTurn(t, reason[c])
           /\ todo' = [todo EXCEPT ![c] = @ \ {t}]
           /\ publication' = IF outcomes[t] = None THEN [publication EXCEPT ![c] = t]
                                                   ELSE publication
    BY DEF CallerRetire
  <1>3. /\ t \in Ids /\ kind[t] = "Turn"
        /\ reason[c] \in Outcomes
        /\ publication[c] = NoId
    BY <1>1 DEF CallerRetire, TypeOK, Owed, LedgerInv, KindInv, Outcomes
  <1>4. UNCHANGED <<lifecycle, closePending, nextOperationId, kind, operations, prep, resolved,
                    ended, pc, work, phase, reason, drained>>
    BY DEF CallerRetire
  <1>5. OutcomeLedger' /\ EndInv'
    BY <1>2, <1>3, <1>4, RetireLedger
  <1>6. KindInv'
    <2>1. \A u \in Ids : outcomes'[u] # None => kind[u] = "Turn"
      BY <1>2, <1>3, RetireFacts DEF LedgerInv, KindInv
    <2>2. tickets' \subseteq tickets
      BY <1>2, <1>3, RetireFacts
    <2>3. \A d \in Callers : Owed(d)' \subseteq Owed(d)
      BY <1>1, <1>2, <1>4 DEF Owed, TypeOK
    <2>4. QED
      BY <1>4, <2>1, <2>2, <2>3 DEF LedgerInv, KindInv
  <1>7. PublisherInv'
    <2>1. CASE outcomes[t] # None
      BY <1>2, <1>3, <1>4, <2>1, RetireFacts DEF LedgerInv, PublisherInv
    <2>2. CASE outcomes[t] = None
      <3>1. /\ publishing' = publishing \cup {t} /\ t \notin publishing
            /\ \A u \in publishing' : outcomes'[u] # None
        BY <1>1, <1>2, <1>3, <2>2, RetireFacts DEF LedgerInv, PublisherInv, TypeOK
      <3>2. \A d \in Callers : publication'[d] = IF d = c THEN t ELSE publication[d]
        BY <1>1, <1>2, <2>2 DEF TypeOK
      <3>3. QED
        BY <1>3, <1>4, <3>1, <3>2 DEF LedgerInv, PublisherInv
    <2>3. QED
      BY <2>1, <2>2
  <1>8. QED
    BY <1>1, <1>5, <1>6, <1>7 DEF LedgerInv

LEMMA CallerPublishLedger ==
    ASSUME LedgerInv, NEW c \in Callers, CallerPublish(c) PROVE LedgerInv'
  <1> USE DEF lifeVars, admitVars, opVars, runnerVars
  <1> DEFINE t == publication[c]
  <1>1. TypeInv /\ TypeInv' /\ TypeOK
    BY CallerStepType DEF LedgerInv, TypeInv, CallerStep
  <1>2. t # NoId /\ t \in publishing /\ t \in Ids /\ Publish(t) /\ FinishClose
    BY <1>1 DEF CallerPublish, LedgerInv, PublisherInv, TypeOK
  <1>3. UNCHANGED <<lifecycle, nextOperationId, kind, operations, prep, tickets, outcomes,
                    pc, work, phase, reason, todo, drained>>
    BY DEF CallerPublish
  <1>4. /\ publishing' = publishing \ {t}
        /\ \A d \in Callers : publication'[d] = IF d = c THEN NoId ELSE publication[d]
    BY <1>1, <1>2 DEF CallerPublish, Publish, TypeOK
  <1>5. OutcomeLedger' /\ EndInv'
    BY <1>2, <1>3, PublishLedger
  <1>6. KindInv'
    BY <1>3 DEF LedgerInv, KindInv, Owed
  <1>7. PublisherInv'
    <2> HIDE DEF t
    <2>1. \A d \in Callers \ {c} : publication[d] # NoId => publication[d] # t
      BY <1>2 DEF LedgerInv, PublisherInv, t
    <2>2. (pc = "publish" => work # t) /\ prep[t] # "publishing"
      BY <1>2 DEF LedgerInv, PublisherInv, t
    <2>3. QED
      BY <1>3, <1>4, <2>1, <2>2 DEF LedgerInv, PublisherInv
  <1>8. QED
    BY <1>1, <1>5, <1>6, <1>7 DEF LedgerInv

LEMMA CallerOtherLedger ==
    ASSUME LedgerInv, NEW c \in Callers,
           CallerDeferredDone(c) \/ CallerFire(c) \/ CallerDrain(c) \/ CallerDone(c)
    PROVE  LedgerInv'
  <1> USE DEF lifeVars, admitVars, opVars, ledgerVars, runnerVars
  <1>1. TypeInv /\ TypeInv' /\ TypeOK
    BY CallerStepType DEF LedgerInv, TypeInv, CallerStep
  <1>2. UNCHANGED <<lifecycle, nextOperationId, kind, operations, prep, tickets, outcomes,
                    resolved, ended, publishing, pc, work, publication>>
    BY DEF CallerDeferredDone, CallerFire, CallerDrain, CallerDone
  <1>3. UNCHANGED closePending \/ FinishClose
    BY DEF CallerDeferredDone, CallerFire, CallerDrain, CallerDone
  <1>4. OutcomeLedger' /\ EndInv'
    <2>1. CASE UNCHANGED closePending
      BY <1>2, <2>1 DEF LedgerInv, OutcomeLedger, EndInv, CloseEmitted
    <2>2. CASE FinishClose
      BY <1>2, <2>2, FinishLedger
    <2>3. QED
      BY <1>3, <2>1, <2>2
  <1>5. \A d \in Callers : \A t \in Owed(d)' : kind[t] = "Turn"
    <2>1. CASE CallerDrain(c)
      <3>1. \A d \in Callers : Owed(d)' \subseteq Owed(d) \cup Turns(queue)
        BY <1>1, <2>1 DEF CallerDrain, Owed, TypeOK
      <3>2. QED
        BY <3>1 DEF Turns, LedgerInv, KindInv
    <2>2. CASE ~CallerDrain(c)
      <3>1. \A d \in Callers : Owed(d)' \subseteq Owed(d)
        BY <1>1, <2>2 DEF CallerDeferredDone, CallerFire, CallerDone, Owed, TypeOK
      <3>2. QED
        BY <3>1 DEF LedgerInv, KindInv
    <2>3. QED
      BY <2>1, <2>2
  <1>6. \A d \in Callers : phase'[d] # "free" => reason'[d] \in Reasons
    <2>1. \A d \in Callers \ {c} : phase'[d] = phase[d] /\ reason'[d] = reason[d]
      BY <1>1 DEF CallerDeferredDone, CallerFire, CallerDrain, CallerDone, TypeOK
    <2>2. phase'[c] # "free" => reason'[c] = reason[c] /\ phase[c] # "free"
      BY <1>1 DEF CallerDeferredDone, CallerFire, CallerDrain, CallerDone, Settled, TypeOK
    <2>3. QED
      BY <2>1, <2>2 DEF LedgerInv, KindInv
  <1>7. KindInv'
    BY <1>2, <1>5, <1>6 DEF LedgerInv, KindInv
  <1>8. PublisherInv'
    BY <1>2 DEF LedgerInv, PublisherInv
  <1>9. QED
    BY <1>1, <1>4, <1>7, <1>8 DEF LedgerInv

-----------------------------------------------------------------------------
(* Preparation tasks.                                                      *)

LEMMA PrepareLedger ==
    ASSUME LedgerInv, NEW i \in Ids, PrepareStale(i) \/ PrepareReady(i) \/ PreparePanic(i)
    PROVE  LedgerInv'
  <1> USE DEF lifeVars, admitVars, ledgerVars, runnerVars, callerVars
  <1>1. TypeInv /\ TypeInv' /\ TypeOK
    BY PreparationType DEF LedgerInv, TypeInv, Preparation
  <1>2. /\ prep[i] = "running"
        /\ UNCHANGED <<lifecycle, closePending, nextOperationId, kind, tickets, outcomes,
                       resolved, ended, publishing, pc, work, publication, phase, reason,
                       todo, drained>>
    BY DEF PrepareStale, PrepareReady, PreparePanic
  <1>3. PICK p \in {"none", "failing"} :
           /\ operations' \subseteq operations
           /\ p = "failing" => i \notin operations'
           /\ OnlyStarts(operations \ {i}, [prep EXCEPT ![i] = p])
    <2>1. CASE PrepareStale(i)
      <3>1. /\ operations' = operations
            /\ OnlyStarts(operations \ {i}, [prep EXCEPT ![i] = "none"])
        BY <2>1 DEF PrepareStale, OnlyStarts
      <3>2. QED
        BY <3>1
    <2>2. CASE PrepareReady(i)
      <3> DEFINE tasks == [prep EXCEPT ![i] = "none"]
      <3>1. /\ DriveOperations(operations \ {i}, queue \cup {i}, tasks)
            /\ operations \ {i} \subseteq Ids /\ queue \cup {i} \subseteq Ids
            /\ tasks \in [Ids -> PrepStates]
        BY <1>1, <2>2 DEF PrepareReady, TypeOK, PrepStates
      <3>2. operations' \subseteq operations \ {i} /\ OnlyStarts(operations \ {i}, tasks)
        <4> HIDE DEF tasks
        <4> QED
          BY <1>1, <3>1, DriveFacts
      <3>3. QED
        BY <3>2
    <2>3. CASE PreparePanic(i)
      <3> DEFINE tasks == [prep EXCEPT ![i] = "failing"]
      <3>1. /\ DriveOperations(operations \ {i}, queue, tasks)
            /\ operations \ {i} \subseteq Ids /\ queue \subseteq Ids
            /\ tasks \in [Ids -> PrepStates]
        BY <1>1, <2>3 DEF PreparePanic, TypeOK, PrepStates
      <3>2. operations' \subseteq operations \ {i} /\ OnlyStarts(operations \ {i}, tasks)
        <4> HIDE DEF tasks
        <4> QED
          BY <1>1, <3>1, DriveFacts
      <3>3. QED
        BY <3>2
    <2>4. QED
      BY <2>1, <2>2, <2>3
  <1>4. /\ \A j \in Ids : prep'[j] # "none" => kind[j] = "Turn"
        /\ \A j \in operations' : prep'[j] \in {"none", "running"}
        /\ \A j \in Ids : prep'[j] = "publishing" <=> prep[j] = "publishing"
    BY <1>1, <1>2, <1>3 DEF OnlyStarts, LedgerInv, KindInv, TypeOK
  <1>5. KindInv'
    BY <1>2, <1>3, <1>4 DEF LedgerInv, KindInv, Owed
  <1>6. PublisherInv'
    <2>1. publishing \subseteq Ids /\ (pc = "publish" => work \in Ids)
      BY DEF LedgerInv, TypeInv, TypeOK, Holding
    <2>2. QED
      BY <1>2, <1>4, <2>1 DEF LedgerInv, PublisherInv
  <1>7. OutcomeLedger' /\ EndInv'
    BY <1>2 DEF LedgerInv, OutcomeLedger, EndInv, CloseEmitted
  <1>8. QED
    BY <1>1, <1>5, <1>6, <1>7 DEF LedgerInv

LEMMA FailLedger ==
    ASSUME LedgerInv, NEW i \in Ids, FailRetire(i) \/ FailPublish(i) \/ FailDone(i)
    PROVE  LedgerInv'
  <1> USE DEF lifeVars, admitVars, ledgerVars, runnerVars, callerVars
  <1>1. TypeInv /\ TypeInv' /\ TypeOK
    BY PreparationType DEF LedgerInv, TypeInv, Preparation
  <1>2. /\ i \notin operations /\ kind[i] = "Turn"
        /\ UNCHANGED <<lifecycle, nextOperationId, kind, operations, pc, work, publication,
                       phase, reason, todo, drained>>
        /\ \A j \in Ids \ {i} : prep'[j] = prep[j]
    BY <1>1 DEF FailRetire, FailPublish, FailDone, LedgerInv, KindInv, TypeOK
  <1>3. /\ \A j \in Ids : prep'[j] # "none" => kind'[j] = "Turn"
        /\ \A j \in operations' : prep'[j] \in {"none", "running"}
    BY <1>1, <1>2 DEF LedgerInv, KindInv, TypeOK
  <1>4. CASE FailRetire(i)
    <2>1. /\ RetireTurn(i, "Failed") /\ "Failed" \in Outcomes
          /\ UNCHANGED <<closePending, resolved, ended>>
          /\ prep'[i] = IF outcomes[i] = None THEN "publishing" ELSE "failed"
      BY <1>1, <1>4 DEF FailRetire, Outcomes, TypeOK
    <2>2. OutcomeLedger' /\ EndInv'
      BY <1>2, <2>1, RetireLedger
    <2>3. /\ \A u \in Ids : outcomes'[u] # None => kind[u] = "Turn"
          /\ tickets' \subseteq tickets
      BY <1>2, <2>1, RetireFacts DEF LedgerInv, KindInv
    <2>4. KindInv'
      BY <1>2, <1>3, <2>3 DEF LedgerInv, KindInv, Owed
    <2>5. PublisherInv'
      <3>1. CASE outcomes[i] # None
        <4>1. \A j \in Ids : prep'[j] = "publishing" => prep[j] = "publishing"
          BY <1>2, <2>1, <3>1
        <4>2. publishing \subseteq Ids /\ (pc = "publish" => work \in Ids)
          BY DEF LedgerInv, TypeInv, TypeOK, Holding
        <4>3. UNCHANGED <<publishing, outcomes>>
          BY <1>2, <2>1, <3>1, RetireFacts
        <4>4. QED
          BY <1>2, <4>1, <4>2, <4>3 DEF LedgerInv, PublisherInv
      <3>2. CASE outcomes[i] = None
        <4>1. /\ publishing' = publishing \cup {i} /\ i \notin publishing
              /\ \A u \in publishing' : outcomes'[u] # None
          BY <1>1, <1>2, <2>1, <3>2, RetireFacts DEF LedgerInv, PublisherInv, TypeOK
        <4>2. \A j \in Ids : prep'[j] = "publishing" => prep[j] = "publishing" \/ j = i
          BY <1>2
        <4>3. publishing \subseteq Ids /\ (pc = "publish" => work \in Ids)
          BY DEF LedgerInv, TypeInv, TypeOK, Holding
        <4>4. QED
          BY <1>2, <4>1, <4>2, <4>3 DEF LedgerInv, PublisherInv
      <3>3. QED
        BY <3>1, <3>2
    <2>6. QED
      BY <1>1, <2>2, <2>4, <2>5 DEF LedgerInv
  <1>5. CASE FailPublish(i)
    <2>1. /\ prep[i] = "publishing" /\ i \in publishing /\ Publish(i) /\ FinishClose
          /\ prep'[i] = "failed" /\ publishing' = publishing \ {i}
          /\ UNCHANGED <<tickets, outcomes>>
      BY <1>1, <1>5 DEF FailPublish, Publish, LedgerInv, PublisherInv, TypeOK
    <2>2. OutcomeLedger' /\ EndInv'
      BY <1>2, <2>1, PublishLedger
    <2>3. KindInv'
      BY <1>2, <1>3, <2>1 DEF LedgerInv, KindInv, Owed
    <2>4. PublisherInv'
      <3>1. \A j \in Ids : prep'[j] = "publishing" <=> prep[j] = "publishing" /\ j # i
        BY <1>2, <2>1
      <3>2. publishing \subseteq Ids /\ (pc = "publish" => work \in Ids)
        BY DEF LedgerInv, TypeInv, TypeOK, Holding
      <3>3. QED
        BY <1>2, <2>1, <3>1, <3>2 DEF LedgerInv, PublisherInv
    <2>5. QED
      BY <1>1, <2>2, <2>3, <2>4 DEF LedgerInv
  <1>6. CASE FailDone(i)
    <2>1. /\ FinishClose /\ prep[i] = "failed" /\ prep'[i] = "none"
          /\ UNCHANGED <<tickets, outcomes, resolved, ended, publishing>>
      BY <1>1, <1>6 DEF FailDone, TypeOK
    <2>2. OutcomeLedger' /\ EndInv'
      BY <1>2, <2>1, FinishLedger
    <2>3. KindInv'
      BY <1>2, <1>3, <2>1 DEF LedgerInv, KindInv, Owed
    <2>4. PublisherInv'
      <3>1. \A j \in Ids : prep'[j] = "publishing" <=> prep[j] = "publishing"
        BY <1>2, <2>1
      <3>2. publishing \subseteq Ids /\ (pc = "publish" => work \in Ids)
        BY DEF LedgerInv, TypeInv, TypeOK, Holding
      <3>3. QED
        BY <1>2, <2>1, <3>1, <3>2 DEF LedgerInv, PublisherInv
    <2>5. QED
      BY <1>1, <2>2, <2>3, <2>4 DEF LedgerInv
  <1>7. QED
    BY <1>4, <1>5, <1>6

-----------------------------------------------------------------------------
(* The runner.                                                             *)

\* A step of the runner that touches no turn's outcome.
LEMMA RunnerQuietLedger ==
    ASSUME LedgerInv, TypeInv',
           UNCHANGED <<lifecycle, nextOperationId, kind, operations, prep, tickets, outcomes,
                       resolved, ended, publishing, publication, phase, reason, todo, drained>>,
           UNCHANGED closePending \/ FinishClose,
           pc' \in TurnStates => kind[work'] = "Turn",
           pc' # "publish"
    PROVE  LedgerInv'
  <1>1. KindInv'
    BY DEF LedgerInv, KindInv, Owed
  <1>2. PublisherInv'
    BY DEF LedgerInv, PublisherInv
  <1>3. CASE UNCHANGED closePending
    BY <1>1, <1>2, <1>3 DEF LedgerInv, OutcomeLedger, EndInv, CloseEmitted
  <1>4. CASE FinishClose
    BY <1>1, <1>2, <1>4, FinishLedger DEF LedgerInv
  <1>5. QED
    BY <1>3, <1>4

LEMMA RunnerLedger ==
    ASSUME LedgerInv, Runner \/ RunnerInterrupt \/ RunnerRefused PROVE LedgerInv'
  <1> USE DEF lifeVars, admitVars, opVars, ledgerVars, callerVars, TurnStates
  <1>1. TypeInv /\ TypeInv' /\ TypeOK
    BY RunnerType DEF LedgerInv, TypeInv
  <1>2. CASE RunnerPop
    BY <1>1, <1>2, RunnerQuietLedger DEF RunnerPop
  <1>3. CASE RunnerEmpty \/ RunnerWait \/ RunnerWake
    BY <1>1, <1>3, RunnerQuietLedger DEF RunnerEmpty, RunnerWait, RunnerWake, RunnerOnly
  <1>4. CASE RunnerInstall \/ RunnerPermit \/ RunnerStart \/ RunnerBackend
    <2>1. kind[work] = "Turn"
      BY <1>4 DEF RunnerInstall, RunnerPermit, RunnerStart, RunnerBackend, LedgerInv, KindInv
    <2>2. pc' \in {"retire", "installed", "granted", "backend"} /\ RunnerTo(pc', result')
      BY <1>4 DEF RunnerInstall, RunnerPermit, RunnerStart, RunnerBackend, RunnerTo
    <2>3. QED
      BY <1>1, <2>1, <2>2, RunnerQuietLedger DEF RunnerTo
  <1>5. CASE RunnerInterrupt
    BY <1>1, <1>5, RunnerQuietLedger DEF RunnerInterrupt, runnerVars, LedgerInv, KindInv
  <1>6. CASE RunnerInstallControl \/ RunnerControlDone
    BY <1>1, <1>6, RunnerQuietLedger DEF RunnerInstallControl, RunnerControlDone, RunnerTo
  <1>7. CASE RunnerFinish
    BY <1>1, <1>7, RunnerQuietLedger DEF RunnerFinish
  <1>8. CASE RunnerRetire
    <2>1. /\ work \in Ids /\ kind[work] = "Turn" /\ result \in Outcomes
          /\ RetireTurn(work, result)
      BY <1>1, <1>8 DEF RunnerRetire, TypeInv, TypeOK, Holding, LedgerInv, KindInv
    <2>2. /\ UNCHANGED <<lifecycle, closePending, nextOperationId, kind, operations, prep,
                         resolved, ended, publication, phase, reason, todo, drained, work>>
          /\ pc' = IF outcomes[work] = None THEN "publish" ELSE "finish"
      BY <1>8 DEF RunnerRetire
    <2>3. OutcomeLedger' /\ EndInv'
      BY <2>1, <2>2, RetireLedger
    <2>4. KindInv'
      <3>1. /\ \A u \in Ids : outcomes'[u] # None => kind[u] = "Turn"
            /\ tickets' \subseteq tickets
        BY <2>1, RetireFacts DEF LedgerInv, KindInv
      <3>2. QED
        BY <2>1, <2>2, <3>1 DEF LedgerInv, KindInv, Owed
    <2>5. PublisherInv'
      <3>1. CASE outcomes[work] # None
        BY <2>1, <2>2, <3>1, RetireFacts DEF LedgerInv, PublisherInv
      <3>2. CASE outcomes[work] = None
        <4>1. /\ publishing' = publishing \cup {work} /\ work \notin publishing
              /\ \A u \in publishing' : outcomes'[u] # None
          BY <1>1, <2>1, <3>2, RetireFacts DEF LedgerInv, PublisherInv, TypeOK
        <4>2. QED
          BY <2>1, <2>2, <3>2, <4>1 DEF LedgerInv, PublisherInv
      <3>3. QED
        BY <3>1, <3>2
    <2>6. QED
      BY <1>1, <2>3, <2>4, <2>5 DEF LedgerInv
  <1>9. CASE RunnerPublish
    <2>1. /\ work \in Ids /\ work \in publishing /\ Publish(work) /\ FinishClose
          /\ publishing' = publishing \ {work}
          /\ pc = "publish" /\ pc' = "finish"
      BY <1>1, <1>9 DEF RunnerPublish, Publish, TypeInv, Holding, LedgerInv, PublisherInv
    <2>2. UNCHANGED <<lifecycle, nextOperationId, kind, operations, prep, tickets, outcomes,
                      publication, phase, reason, todo, drained, work>>
      BY <1>9 DEF RunnerPublish
    <2>3. OutcomeLedger' /\ EndInv'
      BY <2>1, <2>2, PublishLedger
    <2>4. KindInv'
      BY <2>1, <2>2 DEF LedgerInv, KindInv, Owed
    <2>5. PublisherInv'
      BY <2>1, <2>2 DEF LedgerInv, PublisherInv
    <2>6. QED
      BY <1>1, <2>3, <2>4, <2>5 DEF LedgerInv
  <1>10. CASE RunnerRefused
    BY <1>1, <1>10, RunnerQuietLedger DEF RunnerRefused, LedgerInv, KindInv
  <1>11. QED
    BY <1>2, <1>3, <1>4, <1>5, <1>6, <1>7, <1>8, <1>9, <1>10 DEF Runner

-----------------------------------------------------------------------------
LEMMA LedgerStep == LedgerInv /\ [Next]_vars => LedgerInv'
  <1> SUFFICES ASSUME LedgerInv, [Next]_vars PROVE LedgerInv'
    OBVIOUS
  <1>1. CASE Push
    BY <1>1, PushLedger DEF Push
  <1>2. CASE Runner \/ RunnerInterrupt \/ RunnerRefused
    BY <1>2, RunnerLedger
  <1>3. ASSUME NEW c \in Callers, Call(c) PROVE LedgerInv'
    BY <1>3, AdmitCancelledLedger, CancelCorrelationLedger, CancelTurnLedger, RemoveLedger,
       CancelExistingLedger, ClearLedger, CloseLedger DEF Call
  <1>4. ASSUME NEW c \in Callers, CallerStep(c) PROVE LedgerInv'
    BY <1>4, CallerRetireLedger, CallerPublishLedger, CallerOtherLedger DEF CallerStep
  <1>5. ASSUME NEW i \in Ids, Preparation(i) PROVE LedgerInv'
    BY <1>5, PrepareLedger, FailLedger DEF Preparation
  <1>6. CASE UNCHANGED vars
    <2>1. TypeInv'
      BY <1>6, TypeStep DEF LedgerInv
    <2>2. QED
      BY <1>6, <2>1 DEF vars, lifeVars, admitVars, opVars, queueVars, ledgerVars, slotVars,
         cancelVars, runnerVars, callerVars, LedgerInv, KindInv, PublisherInv, OutcomeLedger,
         EndInv, CloseEmitted, Owed
  <1>7. QED
    BY <1>1, <1>2, <1>3, <1>4, <1>5, <1>6 DEF Next

LEMMA LedgerAlways == Spec => []LedgerInv
  BY InitLedger, LedgerStep, PTL DEF Spec

\* retire_turn and retire_and_publish: in every behaviour a turn is live exactly
\* until one outcome is retained, and its waiter gets that outcome.
THEOREM LedgerCorrect == Spec => []OutcomeLedger
  <1>1. LedgerInv => OutcomeLedger
    BY DEF LedgerInv
  <1>2. QED
    BY LedgerAlways, <1>1, PTL

\* finish_close: when Close has been emitted, every admitted turn has resolved
\* and its End event was emitted, once and before Close.
THEOREM CloseCorrect == Spec => []CloseIsLastEvent
  <1>1. LedgerInv => CloseIsLastEvent
    BY DEF LedgerInv, OutcomeLedger, EndInv, CloseIsLastEvent
  <1>2. QED
    BY LedgerAlways, <1>1, PTL
-----------------------------------------------------------------------------
(***************************************************************************)
(* AgentActor implements TurnLedger, and what is terminal in it is final.  *)
(***************************************************************************)

\* The five things a step of any party can be for a ticket holder.
Quiet ==
    /\ UNCHANGED <<kind, nextOperationId, outcomes, resolved, ended, lifecycle>>
    /\ UNCHANGED closePending \/ (FinishClose /\ UNCHANGED <<tickets, publishing>>)

Admits ==
    /\ \E k \in Kinds, key \in Correlations : Register(k, key)
    /\ UNCHANGED <<lifecycle, closePending, outcomes, resolved, ended>>

Retires ==
    /\ \E t \in Ids, o \in Outcomes : kind[t] = "Turn" /\ RetireTurn(t, o)
    /\ UNCHANGED <<kind, nextOperationId, resolved, ended, lifecycle, closePending>>

Publishes ==
    /\ \E t \in publishing : Publish(t)
    /\ FinishClose
    /\ UNCHANGED <<kind, nextOperationId, tickets, outcomes, lifecycle>>

Terminates ==
    /\ lifecycle = "Open" /\ lifecycle' \in {"Closed", "Shutdown"} /\ closePending' = TRUE
    /\ UNCHANGED <<kind, nextOperationId, outcomes, resolved, ended>>

Shape == Quiet \/ Admits \/ Retires \/ Publishes \/ Terminates

-----------------------------------------------------------------------------
LEMMA PushShape == ASSUME Push PROVE Admits
  <1> USE DEF lifeVars
  <1>1. PICK key \in Correlations : AdmitTurn(key) \/ PushControl(key) \/ PushCompact(key)
    BY DEF Push
  <1>2. CASE AdmitTurn(key)
    BY <1>2 DEF AdmitTurn, Admits, Kinds
  <1>3. ASSUME NEW k \in Kinds, PushOperation(k, key) PROVE Admits
    BY <1>3 DEF PushOperation, Admits, ledgerVars
  <1>4. QED
    BY <1>1, <1>2, <1>3 DEF PushControl, PushCompact, Kinds

LEMMA CallShape == ASSUME NEW c \in Callers, Call(c) PROVE Shape
  <1> USE DEF lifeVars, admitVars, ledgerVars
  <1>1. ASSUME NEW key \in Correlations, AdmitCancelled(c, key) PROVE Admits
    BY <1>1 DEF AdmitCancelled, Admits, Kinds
  <1>2. ASSUME NEW key \in Correlations, CancelCorrelation(c, key) PROVE Quiet
    BY <1>2 DEF CancelCorrelation, Quiet
  <1>3. ASSUME NEW t \in Ids, CancelTurn(c, t) \/ Remove(c, t) PROVE Quiet
    BY <1>3 DEF CancelTurn, Remove, Quiet
  <1>4. CASE CancelExisting(c) \/ Clear(c)
    BY <1>4 DEF CancelExisting, Clear, Quiet, Shape
  <1>5. ASSUME NEW l \in {"Closed", "Shutdown"}, Close(c, l) PROVE Terminates
    BY <1>5 DEF Close, Terminates
  <1>6. QED
    BY <1>1, <1>2, <1>3, <1>4, <1>5 DEF Call, Shape

LEMMA CallerShape == ASSUME LedgerInv, NEW c \in Callers, CallerStep(c) PROVE Shape
  <1> USE DEF lifeVars, admitVars, ledgerVars
  <1>1. CASE CallerRetire(c)
    <2>1. PICK t \in todo[c] : RetireTurn(t, reason[c])
      BY <1>1 DEF CallerRetire
    <2>2. t \in Ids /\ kind[t] = "Turn"
      BY DEF LedgerInv, KindInv, Owed, TypeInv, TypeOK
    <2>3. reason[c] \in Outcomes
      BY <1>1 DEF CallerRetire, LedgerInv, KindInv, Outcomes
    <2>4. QED
      BY <1>1, <2>1, <2>2, <2>3 DEF CallerRetire, Retires, Shape
  <1>2. CASE CallerPublish(c)
    BY <1>2 DEF CallerPublish, Publishes, Shape, LedgerInv, PublisherInv
  <1>3. CASE CallerDeferredDone(c) \/ CallerFire(c) \/ CallerDrain(c) \/ CallerDone(c)
    BY <1>3 DEF CallerDeferredDone, CallerFire, CallerDrain, CallerDone, Quiet, Shape
  <1>4. QED
    BY <1>1, <1>2, <1>3 DEF CallerStep

LEMMA PreparationShape == ASSUME LedgerInv, NEW i \in Ids, Preparation(i) PROVE Shape
  <1> USE DEF lifeVars, admitVars, ledgerVars
  <1>1. CASE PrepareStale(i) \/ PrepareReady(i) \/ PreparePanic(i) \/ FailDone(i)
    BY <1>1 DEF PrepareStale, PrepareReady, PreparePanic, FailDone, Quiet, Shape
  <1>2. CASE FailRetire(i)
    <2>1. "Failed" \in Outcomes
      BY DEF Outcomes
    <2>2. QED
      BY <1>2, <2>1 DEF FailRetire, Retires, Shape, LedgerInv, KindInv
  <1>3. CASE FailPublish(i)
    BY <1>3 DEF FailPublish, Publishes, Shape, LedgerInv, PublisherInv
  <1>4. QED
    BY <1>1, <1>2, <1>3 DEF Preparation

LEMMA RunnerShape ==
    ASSUME LedgerInv, Runner \/ RunnerInterrupt \/ RunnerRefused PROVE Shape
  <1> USE DEF lifeVars, admitVars, ledgerVars
  <1>1. CASE RunnerPop \/ RunnerEmpty \/ RunnerWait \/ RunnerWake \/ RunnerFinish
    BY <1>1 DEF RunnerPop, RunnerEmpty, RunnerWait, RunnerWake, RunnerFinish, RunnerOnly, Quiet, Shape
  <1>2. CASE RunnerInstall \/ RunnerPermit \/ RunnerStart \/ RunnerBackend
    BY <1>2 DEF RunnerInstall, RunnerPermit, RunnerStart, RunnerBackend, RunnerTo, Quiet, Shape
  <1>3. CASE RunnerInstallControl \/ RunnerControlDone \/ RunnerInterrupt \/ RunnerRefused
    BY <1>3 DEF RunnerInstallControl, RunnerControlDone, RunnerInterrupt, RunnerRefused, RunnerTo,
                Quiet, Shape
  <1>4. CASE RunnerRetire
    <2>1. work \in Ids /\ kind[work] = "Turn" /\ result \in Outcomes
      BY <1>4 DEF RunnerRetire, LedgerInv, KindInv, TypeInv, TypeOK, Holding, TurnStates
    <2>2. QED
      BY <1>4, <2>1 DEF RunnerRetire, Retires, Shape
  <1>5. CASE RunnerPublish
    BY <1>5 DEF RunnerPublish, Publishes, Shape, LedgerInv, PublisherInv
  <1>6. QED
    BY <1>1, <1>2, <1>3, <1>4, <1>5 DEF Runner

LEMMA StepShape == LedgerInv /\ [Next]_vars => Shape
  <1> SUFFICES ASSUME LedgerInv, [Next]_vars PROVE Shape
    OBVIOUS
  <1>1. CASE UNCHANGED vars
    BY <1>1 DEF vars, lifeVars, admitVars, ledgerVars, Quiet, Shape
  <1>2. CASE Next
    BY <1>2, PushShape, CallShape, CallerShape, PreparationShape, RunnerShape DEF Next, Shape
  <1>3. QED
    BY <1>1, <1>2

-----------------------------------------------------------------------------
\* One step may not change a retained outcome, a resolved ticket, its End event
\* or a terminal lifecycle, and a terminal actor admits nothing.
FinalStep ==
    /\ \A t \in Ids : outcomes[t] # None => outcomes'[t] = outcomes[t]
    /\ \A t \in Ids : resolved[t] # None => resolved'[t] = resolved[t] /\ ended'[t] = ended[t]
    /\ lifecycle # "Open" => lifecycle' = lifecycle /\ nextOperationId' = nextOperationId
                             /\ operations' = {}

LEMMA ShapeIsFinal == ASSUME LedgerInv, LedgerInv', Shape PROVE FinalStep
  <1>1. lifecycle' # "Open" => operations' = {}
    BY DEF LedgerInv, KindInv
  <1>2. CASE Quiet
    BY <1>1, <1>2 DEF Quiet, FinalStep
  <1>3. CASE Admits
    BY <1>1, <1>3 DEF Admits, Register, FinalStep
  <1>4. CASE Retires
    <2>1. PICK t \in Ids, o \in Outcomes : kind[t] = "Turn" /\ RetireTurn(t, o)
      BY <1>4 DEF Retires
    <2>2. \A u \in Ids : outcomes[u] # None => outcomes'[u] = outcomes[u]
      BY <2>1, RetireFacts
    <2>3. QED
      BY <1>1, <1>4, <2>2 DEF Retires, FinalStep
  <1>5. CASE Publishes
    <2>1. PICK t \in publishing : Publish(t)
      BY <1>5 DEF Publishes
    <2>2. t \in Ids
      BY DEF LedgerInv, TypeInv, TypeOK
    <2>3. /\ resolved[t] = None
          /\ \A u \in Ids \ {t} : resolved'[u] = resolved[u] /\ ended'[u] = ended[u]
      BY <2>1, <2>2, PublishFacts DEF LedgerInv, TypeInv, TypeOK
    <2>4. QED
      BY <1>1, <1>5, <2>2, <2>3 DEF Publishes, FinalStep
  <1>6. CASE Terminates
    BY <1>1, <1>6 DEF Terminates, FinalStep
  <1>7. QED
    BY <1>2, <1>3, <1>4, <1>5, <1>6 DEF Shape

\* retire_turn, TurnTicket::resolve and capture_close are idempotent: no step of
\* any party rewrites an outcome, a resolution, an End or a terminal lifecycle.
THEOREM FinalityCorrect == Spec => TerminalIsFinal
  <1>1. LedgerInv /\ LedgerInv' /\ [Next]_vars => [FinalStep]_vars
    BY StepShape, ShapeIsFinal
  <1>2. LedgerInv /\ LedgerInv' /\ [Next]_vars =>
          [/\ \A t \in Ids : outcomes[t] # None => outcomes'[t] = outcomes[t]
           /\ \A t \in Ids : resolved[t] # None => resolved'[t] = resolved[t] /\ ended'[t] = ended[t]
           /\ lifecycle # "Open" => lifecycle' = lifecycle /\ nextOperationId' = nextOperationId
                                    /\ operations' = {}]_vars
    BY <1>1 DEF FinalStep
  <1>3. QED
    BY LedgerAlways, <1>2, PTL DEF Spec, TerminalIsFinal

-----------------------------------------------------------------------------
(* The refinement.                                                         *)

\* The life of the abstract ledger, as INSTANCE TurnLedger reads it.
life == IF lifecycle = "Open" THEN "open" ELSE IF closePending THEN "terminal" ELSE "closed"

LEMMA InitRefines == Init => Ledger!LedgerInit
  BY DEF Init, Ledger!LedgerInit, Turns, None

\* Close is announced only when every admitted turn has been told.
LEMMA CloseTellsAll ==
    ASSUME LedgerInv', lifecycle' # "Open", closePending' = FALSE
    PROVE  \A u \in Ids : kind'[u] = "Turn" => resolved'[u] # None
  BY DEF LedgerInv, OutcomeLedger, EndInv, CloseEmitted

LEMMA AdmitRefines ==
    ASSUME LedgerInv, Admits PROVE [Ledger!LedgerNext]_(Ledger!ledger)
  <1>1. PICK k \in Kinds, key \in Correlations : Register(k, key)
    BY DEF Admits
  <1> DEFINE id == nextOperationId + 1
  <1>2. id \in Ids /\ id > nextOperationId
    BY <1>1, ActorAssumption DEF Register, LedgerInv, TypeInv, TypeOK, Ids
  <1>3. kind[id] = None /\ kind' = [kind EXCEPT ![id] = k] /\ lifecycle = "Open"
    BY <1>1, <1>2 DEF Register, LedgerInv, KindInv
  <1>4. CASE k = "Turn"
    <2>1. Turns(Ids)' = Turns(Ids) \cup {id} /\ id \notin Turns(Ids)
      BY <1>2, <1>3, <1>4 DEF Turns, LedgerInv, TypeInv, TypeOK, None
    <2>2. Ledger!AdmitTicket(id)
      BY <1>2, <1>3, <2>1 DEF Ledger!AdmitTicket, Admits
    <2>3. QED
      BY <1>2, <2>2 DEF Ledger!LedgerNext
  <1>5. CASE k # "Turn"
    <2>1. Turns(Ids)' = Turns(Ids)
      BY <1>2, <1>3, <1>5 DEF Turns, LedgerInv, TypeInv, TypeOK, None
    <2>2. QED
      BY <1>3, <2>1 DEF Ledger!ledger, Admits
  <1>6. QED
    BY <1>4, <1>5

LEMMA RetireRefines ==
    ASSUME LedgerInv, Retires PROVE [Ledger!LedgerNext]_(Ledger!ledger)
  <1>1. PICK t \in Ids, o \in Outcomes : kind[t] = "Turn" /\ RetireTurn(t, o)
    BY DEF Retires
  <1>2. Turns(Ids)' = Turns(Ids) /\ t \in Turns(Ids)
    BY <1>1 DEF Turns, Retires
  <1>3. CASE outcomes[t] = None
    <2>1. PICK r \in Outcomes : outcomes' = [outcomes EXCEPT ![t] = r]
      BY <1>1, <1>3 DEF RetireTurn, LedgerInv, TypeInv, TypeOK, Outcomes
    <2>2. Ledger!Retain(t, r)
      BY <1>2, <1>3, <2>1 DEF Ledger!Retain, Retires
    <2>3. QED
      BY <2>2 DEF Ledger!LedgerNext
  <1>4. CASE outcomes[t] # None
    BY <1>1, <1>2, <1>4, RetireFacts DEF Ledger!ledger, Retires
  <1>5. QED
    BY <1>3, <1>4

LEMMA PublishRefines ==
    ASSUME LedgerInv, LedgerInv', Publishes PROVE [Ledger!LedgerNext]_(Ledger!ledger)
  <1>1. PICK t \in publishing : Publish(t)
    BY DEF Publishes
  <1>2. t \in Ids
    BY DEF LedgerInv, TypeInv, TypeOK
  <1>3. /\ ~CloseEmitted /\ resolved[t] = None /\ outcomes[t] # None
        /\ resolved' = [resolved EXCEPT ![t] = outcomes[t]]
    BY <1>1, <1>2, PublishFacts
  <1>4. Turns(Ids)' = Turns(Ids)
    BY DEF Turns, Publishes
  <1>5. \/ life' = life
        \/ /\ life = "terminal" /\ life' = "closed"
           /\ \A u \in Turns(Ids) : resolved'[u] # None
    <2>1. CASE lifecycle = "Open"
      BY <2>1 DEF life, Publishes
    <2>2. CASE lifecycle # "Open" /\ closePending'
      BY <1>3, <2>2 DEF life, Publishes, CloseEmitted
    <2>3. CASE lifecycle # "Open" /\ ~closePending'
      <3>1. lifecycle' # "Open" /\ closePending' = FALSE
        BY <2>3 DEF Publishes, LedgerInv, TypeInv, TypeOK
      <3>2. \A u \in Turns(Ids) : resolved'[u] # None
        BY <3>1, CloseTellsAll DEF Turns, Publishes
      <3>3. QED
        BY <1>3, <2>3, <3>1, <3>2 DEF life, CloseEmitted
    <2>4. QED
      BY <2>1, <2>2, <2>3
  <1>6. Ledger!Tell(t)
    BY <1>2, <1>3, <1>4, <1>5 DEF Ledger!Tell, life, Publishes
  <1>7. QED
    BY <1>2, <1>6 DEF Ledger!LedgerNext

LEMMA QuietRefines ==
    ASSUME LedgerInv, LedgerInv', Quiet PROVE [Ledger!LedgerNext]_(Ledger!ledger)
  <1>1. Turns(Ids)' = Turns(Ids)
    BY DEF Turns, Quiet
  <1>2. CASE life' = life
    BY <1>1, <1>2 DEF life, Ledger!ledger, Quiet
  <1>3. CASE life' # life
    <2>1. /\ lifecycle # "Open" /\ lifecycle' = lifecycle
          /\ closePending' = FALSE /\ closePending = TRUE
      BY <1>3 DEF life, Quiet, FinishClose, LedgerInv, TypeInv, TypeOK
    <2>2. \A u \in Turns(Ids) : resolved[u] # None
      BY <2>1, CloseTellsAll DEF Turns, Quiet
    <2>3. Ledger!AnnounceClose
      BY <1>1, <2>1, <2>2 DEF Ledger!AnnounceClose, Quiet
    <2>4. QED
      BY <2>3 DEF Ledger!LedgerNext
  <1>4. QED
    BY <1>2, <1>3

LEMMA TerminateRefines ==
    ASSUME Terminates PROVE [Ledger!LedgerNext]_(Ledger!ledger)
  <1>1. Ledger!Terminate
    BY DEF Terminates, Ledger!Terminate, Turns
  <1>2. QED
    BY <1>1 DEF Ledger!LedgerNext

\* The scheduler keeps the promise TurnLedger states to every ticket holder: each
\* critical section of admission, cuts, runner, preparation and close is a step of
\* the abstract ledger or leaves it alone.
THEOREM RefinementCorrect == Spec => ImplementsLedger
  <1>1. LedgerInv /\ LedgerInv' /\ [Next]_vars => [Ledger!LedgerNext]_(Ledger!ledger)
    BY StepShape, AdmitRefines, RetireRefines, PublishRefines, QuietRefines, TerminateRefines
       DEF Shape
  <1>2. QED
    BY InitRefines, LedgerAlways, <1>1, PTL DEF Spec, ImplementsLedger, Ledger!LedgerSpec
=============================================================================
