------------------------- MODULE TurnPermitsProofs -------------------------
(***************************************************************************)
(* Proofs about TurnPermits, for every set of turns and waits and every    *)
(* number of permits.  PermitInv is the inductive invariant; its step      *)
(* lemmas have one step per conjunct.                                      *)
(***************************************************************************)
EXTENDS TurnPermits, TLAPS

Over     == {"returning", "settling", "gone"}
Started  == Future \cup Leaving \cup {"settling", "gone"}

\* Where the permit of a turn can be at each place of its task, and that the
\* lease claims only a permit that exists.
PermitPlace ==
    \A t \in Turns :
        /\ run[t] \in {"entering", "rejected", "acquiring", "settling", "gone"} => permit[t] = "none"
        /\ run[t] \in {"registered", "check", "revoke", "gate", "parked"} => permit[t] # "local"
        /\ run[t] \in {"storing", "polling"} => permit[t] = "local"
        /\ owns[t] => permit[t] # "none" /\ run[t] \notin {"entering", "granted", "rejected"} \cup Over
        /\ closing[t] => run[t] \in Over

\* A turn that waits were registered for has been started.
WatchedIsStarted ==
    \A w \in Watchers : watcher[w] # "free" => run[turnOf[w]] \in Started

\* Inside and after the first critical section of a poll, the task's waker is
\* in the lease or has been invoked; a cancellation the check missed has woken
\* the task; a parked task without permit or listener waits for its watchers.
WakeInv ==
    \A t \in Turns :
        /\ run[t] \in {"acquiring", "storing", "polling", "parked"} => wake[t] \/ scheduled[t]
        /\ run[t] \in {"gate", "acquiring", "storing", "polling", "parked"} /\ slot[t] = "fired"
              => observed[t] \/ scheduled[t]
        /\ run[t] = "revoke" => observed[t]
        /\ run[t] = "parked" /\ suspended[t] = {}
              => permit[t] = "lease" \/ acquire[t] \/ scheduled[t]

PermitInv ==
    /\ Typed
    /\ WaitBinding
    /\ PermitPlace
    /\ WatchedIsStarted
    /\ SuspendedYields
    /\ SealedWaitsFire
    /\ WakeInv
    /\ NoWaiterForgotten

-----------------------------------------------------------------------------
\* A Boolean function stays one when one of its values is weakened.
LEMMA BooleanExcept ==
    ASSUME NEW S, NEW f \in [S -> BOOLEAN], NEW t \in S, NEW b \in BOOLEAN
    PROVE  [f EXCEPT ![t] = @ \/ b] \in [S -> BOOLEAN]
<1>1. (f[t] \/ b) \in BOOLEAN
  OBVIOUS
<1> QED
  BY <1>1

LEMMA TakeWakeType ==
    ASSUME Typed, NEW t \in Turns, TakeWake(t)
    PROVE  wake' \in [Turns -> BOOLEAN] /\ scheduled' \in [Turns -> BOOLEAN]
<1>1. wake[t] \in BOOLEAN
  BY DEF Typed
<1>2. scheduled' \in [Turns -> BOOLEAN]
  BY <1>1, BooleanExcept DEF Typed, TakeWake
<1> QED
  BY <1>2 DEF Typed, TakeWake

LEMMA NotifyType ==
    ASSUME Typed, NEW t \in Turns, NEW ws, Notify(ws, t)
    PROVE  waiter' \in [Watchers -> WaiterStates] /\ scheduled' \in [Turns -> BOOLEAN]
<1>1. scheduled' \in [Turns -> BOOLEAN]
  <2> DEFINE woken == {w \in ws : waiter[w] = "parked"}
             some  == woken \cap Inline # {}
  <2>1. some \in BOOLEAN
    OBVIOUS
  <2>2. scheduled' = [scheduled EXCEPT ![t] = @ \/ some]
    BY DEF Notify
  <2> HIDE DEF some
  <2> QED
    BY <2>1, <2>2, BooleanExcept DEF Typed
<1>2. waiter' \in [Watchers -> WaiterStates]
  BY DEF Typed, Notify, WaiterStates
<1> QED
  BY <1>1, <1>2
LEMMA EnterAcquireStep ==
    ASSUME PermitInv, NEW t \in Turns, EnterAcquire(t)
    PROVE  PermitInv'
<1> USE DEF PermitInv, EnterAcquire, actorVars, leaseVars, futureVars, watcherVars
<1>1. Typed'
  BY DEF Typed, RunStates, Future, Leaving, WatcherStates, WaiterStates, NoTurn
<1>2. WaitBinding'
  BY DEF Typed, WaitBinding, WatcherStates, NoTurn
<1>3. PermitPlace'
  BY DEF Typed, PermitPlace, Over
<1>4. WatchedIsStarted'
  BY DEF Typed, WaitBinding, WatchedIsStarted, Started, Future, Leaving, NoTurn
<1>5. SuspendedYields'
  BY DEF Typed, WaitBinding, PermitPlace, WatchedIsStarted, SuspendedYields, Started, Future, Leaving, Over, NoTurn
<1>6. SealedWaitsFire'
  BY DEF Typed, SealedWaitsFire
<1>7. WakeInv'
  BY DEF Typed, WakeInv, PermitPlace
<1>8. NoWaiterForgotten'
  BY DEF Typed, WaitBinding, NoWaiterForgotten, WatchedIsStarted, SuspendedYields, OwnedNow, Started, Future, Leaving, NoTurn, PermitPlace, Over
<1> QED  BY <1>1, <1>2, <1>3, <1>4, <1>5, <1>6, <1>7, <1>8

LEMMA EnterCancelledStep ==
    ASSUME PermitInv, NEW t \in Turns, EnterCancelled(t)
    PROVE  PermitInv'
<1> USE DEF PermitInv, EnterCancelled, actorVars, leaseVars, futureVars, watcherVars
<1>1. Typed'
  BY DEF Typed, RunStates, Future, Leaving, WatcherStates, WaiterStates, NoTurn
<1>2. WaitBinding'
  BY DEF Typed, WaitBinding, WatcherStates, NoTurn
<1>3. PermitPlace'
  BY DEF Typed, PermitPlace, Over
<1>4. WatchedIsStarted'
  BY DEF Typed, WaitBinding, WatchedIsStarted, Started, Future, Leaving, NoTurn
<1>5. SuspendedYields'
  BY DEF Typed, WaitBinding, PermitPlace, WatchedIsStarted, SuspendedYields, Started, Future, Leaving, Over, NoTurn
<1>6. SealedWaitsFire'
  BY DEF Typed, SealedWaitsFire
<1>7. WakeInv'
  BY DEF Typed, WakeInv, PermitPlace
<1>8. NoWaiterForgotten'
  BY DEF Typed, WaitBinding, NoWaiterForgotten, WatchedIsStarted, SuspendedYields, OwnedNow, Started, Future, Leaving, NoTurn, PermitPlace, Over
<1> QED  BY <1>1, <1>2, <1>3, <1>4, <1>5, <1>6, <1>7, <1>8

LEMMA EnterRegisterStep ==
    ASSUME PermitInv, NEW t \in Turns, EnterRegister(t)
    PROVE  PermitInv'
<1> USE DEF PermitInv, EnterRegister, DropPermit, actorVars, leaseVars, futureVars, watcherVars
<1>1. Typed'
  BY ZenonT(60) DEF Typed, RunStates, Future, Leaving, WatcherStates, WaiterStates, NoTurn
<1>2. WaitBinding'
  BY DEF Typed, WaitBinding, WatcherStates, NoTurn
<1>3. PermitPlace'
  BY DEF Typed, PermitPlace, Over
<1>4. WatchedIsStarted'
  BY DEF Typed, WaitBinding, WatchedIsStarted, Started, Future, Leaving, NoTurn
<1>5. SuspendedYields'
  BY SMTT(30) DEF Typed, WaitBinding, PermitPlace, WatchedIsStarted, SuspendedYields, Started, Future, Leaving, Over, NoTurn
<1>6. SealedWaitsFire'
  BY DEF Typed, SealedWaitsFire
<1>7. WakeInv'
  BY DEF Typed, WakeInv, PermitPlace
<1>8. NoWaiterForgotten'
  BY DEF Typed, WaitBinding, NoWaiterForgotten, WatchedIsStarted, SuspendedYields, OwnedNow, Started, Future, Leaving, NoTurn, PermitPlace, Over
<1> QED  BY <1>1, <1>2, <1>3, <1>4, <1>5, <1>6, <1>7, <1>8

LEMMA StartTurnStep ==
    ASSUME PermitInv, NEW t \in Turns, StartTurn(t)
    PROVE  PermitInv'
<1> USE DEF PermitInv, StartTurn, actorVars, leaseVars, futureVars, watcherVars
<1>1. Typed'
  BY DEF Typed, RunStates, Future, Leaving, WatcherStates, WaiterStates, NoTurn
<1>2. WaitBinding'
  BY DEF Typed, WaitBinding, WatcherStates, NoTurn
<1>3. PermitPlace'
  BY DEF Typed, PermitPlace, Over
<1>4. WatchedIsStarted'
  BY DEF Typed, WaitBinding, WatchedIsStarted, Started, Future, Leaving, NoTurn
<1>5. SuspendedYields'
  BY DEF Typed, WaitBinding, PermitPlace, WatchedIsStarted, SuspendedYields, Started, Future, Leaving, Over, NoTurn
<1>6. SealedWaitsFire'
  BY DEF Typed, SealedWaitsFire
<1>7. WakeInv'
  BY DEF Typed, WakeInv, PermitPlace
<1>8. NoWaiterForgotten'
  BY DEF Typed, WaitBinding, NoWaiterForgotten, WatchedIsStarted, SuspendedYields, OwnedNow, Started, Future, Leaving, NoTurn, PermitPlace, Over
<1> QED  BY <1>1, <1>2, <1>3, <1>4, <1>5, <1>6, <1>7, <1>8

LEMMA StartCancelledStep ==
    ASSUME PermitInv, NEW t \in Turns, StartCancelled(t)
    PROVE  PermitInv'
<1> USE DEF PermitInv, StartCancelled, actorVars, leaseVars, futureVars, watcherVars
<1>1. Typed'
  BY DEF Typed, RunStates, Future, Leaving, WatcherStates, WaiterStates, NoTurn
<1>2. WaitBinding'
  BY DEF Typed, WaitBinding, WatcherStates, NoTurn
<1>3. PermitPlace'
  BY DEF Typed, PermitPlace, Over
<1>4. WatchedIsStarted'
  BY DEF Typed, WaitBinding, WatchedIsStarted, Started, Future, Leaving, NoTurn
<1>5. SuspendedYields'
  BY DEF Typed, WaitBinding, PermitPlace, WatchedIsStarted, SuspendedYields, Started, Future, Leaving, Over, NoTurn
<1>6. SealedWaitsFire'
  BY DEF Typed, SealedWaitsFire
<1>7. WakeInv'
  BY DEF Typed, WakeInv, PermitPlace
<1>8. NoWaiterForgotten'
  BY DEF Typed, WaitBinding, NoWaiterForgotten, WatchedIsStarted, SuspendedYields, OwnedNow, Started, Future, Leaving, NoTurn, PermitPlace, Over
<1> QED  BY <1>1, <1>2, <1>3, <1>4, <1>5, <1>6, <1>7, <1>8

LEMMA TakeSlotStep ==
    ASSUME PermitInv, NEW t \in Turns, TakeSlot(t)
    PROVE  PermitInv'
<1> USE DEF PermitInv, TakeSlot, actorVars, leaseVars, futureVars, watcherVars
<1>1. Typed'
  BY DEF Typed, RunStates, Future, Leaving, WatcherStates, WaiterStates, NoTurn
<1>2. WaitBinding'
  BY DEF Typed, WaitBinding, WatcherStates, NoTurn
<1>3. PermitPlace'
  BY DEF Typed, PermitPlace, Over
<1>4. WatchedIsStarted'
  BY DEF Typed, WaitBinding, WatchedIsStarted, Started, Future, Leaving, NoTurn
<1>5. SuspendedYields'
  BY DEF Typed, WaitBinding, PermitPlace, WatchedIsStarted, SuspendedYields, Started, Future, Leaving, Over, NoTurn
<1>6. SealedWaitsFire'
  BY DEF Typed, SealedWaitsFire
<1>7. WakeInv'
  BY DEF Typed, WakeInv, PermitPlace
<1>8. NoWaiterForgotten'
  BY DEF Typed, WaitBinding, NoWaiterForgotten, WatchedIsStarted, SuspendedYields, OwnedNow, Started, Future, Leaving, NoTurn, PermitPlace, Over
<1> QED  BY <1>1, <1>2, <1>3, <1>4, <1>5, <1>6, <1>7, <1>8

LEMMA CloseActorStep ==
    ASSUME PermitInv, NEW t \in Turns, CloseActor(t)
    PROVE  PermitInv'
<1> USE DEF PermitInv, CloseActor, Wakes, actorVars, leaseVars, futureVars, watcherVars
<1>1. Typed'
  BY ZenonT(60) DEF Typed, RunStates, Future, Leaving, WatcherStates, WaiterStates, NoTurn
<1>2. WaitBinding'
  BY DEF Typed, WaitBinding, WatcherStates, NoTurn
<1>3. PermitPlace'
  BY DEF Typed, PermitPlace, Over
<1>4. WatchedIsStarted'
  BY DEF Typed, WaitBinding, WatchedIsStarted, Started, Future, Leaving, NoTurn
<1>5. SuspendedYields'
  BY DEF Typed, WaitBinding, PermitPlace, WatchedIsStarted, SuspendedYields, Started, Future, Leaving, Over, NoTurn
<1>6. SealedWaitsFire'
  BY DEF Typed, SealedWaitsFire
<1>7. WakeInv'
  BY DEF Typed, WakeInv, PermitPlace
<1>8. NoWaiterForgotten'
  BY DEF Typed, WaitBinding, NoWaiterForgotten, WatchedIsStarted, SuspendedYields, OwnedNow, Started, Future, Leaving, NoTurn, PermitPlace, Over
<1> QED  BY <1>1, <1>2, <1>3, <1>4, <1>5, <1>6, <1>7, <1>8

LEMMA FireSlotStep ==
    ASSUME PermitInv, NEW t \in Turns, FireSlot(t)
    PROVE  PermitInv'
<1> USE DEF PermitInv, FireSlot, Wakes, actorVars, leaseVars, futureVars, watcherVars
<1>1. Typed'
  BY DEF Typed, RunStates, Future, Leaving, WatcherStates, WaiterStates, NoTurn
<1>2. WaitBinding'
  BY DEF Typed, WaitBinding, WatcherStates, NoTurn
<1>3. PermitPlace'
  BY DEF Typed, PermitPlace, Over
<1>4. WatchedIsStarted'
  BY DEF Typed, WaitBinding, WatchedIsStarted, Started, Future, Leaving, NoTurn
<1>5. SuspendedYields'
  BY DEF Typed, WaitBinding, PermitPlace, WatchedIsStarted, SuspendedYields, Started, Future, Leaving, Over, NoTurn
<1>6. SealedWaitsFire'
  BY DEF Typed, SealedWaitsFire
<1>7. WakeInv'
  BY DEF Typed, WakeInv, PermitPlace
<1>8. NoWaiterForgotten'
  BY DEF Typed, WaitBinding, NoWaiterForgotten, WatchedIsStarted, SuspendedYields, OwnedNow, Started, Future, Leaving, NoTurn, PermitPlace, Over
<1> QED  BY <1>1, <1>2, <1>3, <1>4, <1>5, <1>6, <1>7, <1>8

LEMMA PollCheckStep ==
    ASSUME PermitInv, NEW t \in Turns, PollCheck(t)
    PROVE  PermitInv'
<1> USE DEF PermitInv, PollCheck, CancelWaiters, actorVars, leaseVars, futureVars, watcherVars
<1>1. Typed'
  BY ZenonT(60) DEF Typed, RunStates, Future, Leaving, WatcherStates, WaiterStates, NoTurn
<1>2. WaitBinding'
  BY DEF Typed, WaitBinding, WatcherStates, NoTurn
<1>3. PermitPlace'
  BY DEF Typed, PermitPlace, Over
<1>4. WatchedIsStarted'
  BY DEF Typed, WaitBinding, WatchedIsStarted, Started, Future, Leaving, NoTurn
<1>5. SuspendedYields'
  BY DEF Typed, WaitBinding, PermitPlace, WatchedIsStarted, SuspendedYields, Started, Future, Leaving, Over, NoTurn
<1>6. SealedWaitsFire'
  BY DEF Typed, SealedWaitsFire
<1>7. WakeInv'
  BY DEF Typed, WakeInv, PermitPlace
<1>8. NoWaiterForgotten'
  BY DEF Typed, WaitBinding, NoWaiterForgotten, WatchedIsStarted, SuspendedYields, OwnedNow, Started, Future, Leaving, NoTurn, PermitPlace, Over
<1> QED  BY <1>1, <1>2, <1>3, <1>4, <1>5, <1>6, <1>7, <1>8

LEMMA PollRevokeStep ==
    ASSUME PermitInv, NEW t \in Turns, PollRevoke(t)
    PROVE  PermitInv'
<1> USE DEF PermitInv, PollRevoke, actorVars, leaseVars, futureVars, watcherVars
<1>1. Typed'
  BY DEF Typed, RunStates, Future, Leaving, WatcherStates, WaiterStates, NoTurn
<1>2. WaitBinding'
  BY DEF Typed, WaitBinding, WatcherStates, NoTurn
<1>3. PermitPlace'
  BY DEF Typed, PermitPlace, Over
<1>4. WatchedIsStarted'
  BY DEF Typed, WaitBinding, WatchedIsStarted, Started, Future, Leaving, NoTurn
<1>5. SuspendedYields'
  BY DEF Typed, WaitBinding, PermitPlace, WatchedIsStarted, SuspendedYields, Started, Future, Leaving, Over, NoTurn
<1>6. SealedWaitsFire'
  BY DEF Typed, SealedWaitsFire
<1>7. WakeInv'
  BY DEF Typed, WakeInv, PermitPlace
<1>8. NoWaiterForgotten'
  BY DEF Typed, WaitBinding, NoWaiterForgotten, WatchedIsStarted, SuspendedYields, OwnedNow, Started, Future, Leaving, NoTurn, PermitPlace, Over
<1> QED  BY <1>1, <1>2, <1>3, <1>4, <1>5, <1>6, <1>7, <1>8

LEMMA PollGateStep ==
    ASSUME PermitInv, NEW t \in Turns, PollGate(t)
    PROVE  PermitInv'
<1> USE DEF PermitInv, PollGate, actorVars, leaseVars, futureVars, watcherVars
<1>1. Typed'
  BY ZenonT(60) DEF Typed, RunStates, Future, Leaving, WatcherStates, WaiterStates, NoTurn
<1>2. WaitBinding'
  BY DEF Typed, WaitBinding, WatcherStates, NoTurn
<1>3. PermitPlace'
  BY DEF Typed, PermitPlace, Over
<1>4. WatchedIsStarted'
  BY DEF Typed, WaitBinding, WatchedIsStarted, Started, Future, Leaving, NoTurn
<1>5. SuspendedYields'
  BY DEF Typed, WaitBinding, PermitPlace, WatchedIsStarted, SuspendedYields, Started, Future, Leaving, Over, NoTurn
<1>6. SealedWaitsFire'
  BY DEF Typed, SealedWaitsFire
<1>7. WakeInv'
  BY DEF Typed, WakeInv, PermitPlace
<1>8. NoWaiterForgotten'
  BY DEF Typed, WaitBinding, NoWaiterForgotten, WatchedIsStarted, SuspendedYields, OwnedNow, Started, Future, Leaving, NoTurn, PermitPlace, Over
<1> QED  BY <1>1, <1>2, <1>3, <1>4, <1>5, <1>6, <1>7, <1>8

LEMMA PollAcquireStep ==
    ASSUME PermitInv, NEW t \in Turns, PollAcquire(t)
    PROVE  PermitInv'
<1> USE DEF PermitInv, PollAcquire, actorVars, leaseVars, futureVars, watcherVars
<1>1. Typed'
  BY ZenonT(60) DEF Typed, RunStates, Future, Leaving, WatcherStates, WaiterStates, NoTurn
<1>2. WaitBinding'
  BY DEF Typed, WaitBinding, WatcherStates, NoTurn
<1>3. PermitPlace'
  BY DEF Typed, PermitPlace, Over
<1>4. WatchedIsStarted'
  BY DEF Typed, WaitBinding, WatchedIsStarted, Started, Future, Leaving, NoTurn
<1>5. SuspendedYields'
  BY DEF Typed, WaitBinding, PermitPlace, WatchedIsStarted, SuspendedYields, Started, Future, Leaving, Over, NoTurn
<1>6. SealedWaitsFire'
  BY DEF Typed, SealedWaitsFire
<1>7. WakeInv'
  BY DEF Typed, WakeInv, PermitPlace
<1>8. NoWaiterForgotten'
  BY DEF Typed, WaitBinding, NoWaiterForgotten, WatchedIsStarted, SuspendedYields, OwnedNow, Started, Future, Leaving, NoTurn, PermitPlace, Over
<1> QED  BY <1>1, <1>2, <1>3, <1>4, <1>5, <1>6, <1>7, <1>8

LEMMA PollStoreStep ==
    ASSUME PermitInv, NEW t \in Turns, PollStore(t)
    PROVE  PermitInv'
<1>0. waiter' \in [Watchers -> WaiterStates] /\ scheduled' \in [Turns -> BOOLEAN]
  BY NotifyType DEF PermitInv, Typed, PollStore, RestorePermit, StorePermit
<1> USE DEF PermitInv, PollStore, RestorePermit, StorePermit, DropPermit, Notify, OwnedListeners, actorVars, leaseVars, futureVars, watcherVars
<1>1. Typed'
  BY <1>0, ZenonT(60) DEF Typed, RunStates, Future, Leaving, WatcherStates, WaiterStates, NoTurn
<1>2. WaitBinding'
  BY DEF Typed, WaitBinding, WatcherStates, NoTurn
<1>3. PermitPlace'
  <2>1. CASE suspended[t] = {}
    BY <2>1 DEF Typed, PermitPlace, Over
  <2>2. CASE suspended[t] # {}
    BY <2>2 DEF Typed, PermitPlace, Over, SuspendedYields
  <2> QED
    BY <2>1, <2>2
<1>4. WatchedIsStarted'
  BY DEF Typed, WaitBinding, WatchedIsStarted, Started, Future, Leaving, NoTurn
<1>5. SuspendedYields'
  BY DEF Typed, WaitBinding, PermitPlace, WatchedIsStarted, SuspendedYields, Started, Future, Leaving, Over, NoTurn
<1>6. SealedWaitsFire'
  BY DEF Typed, SealedWaitsFire
<1>7. WakeInv'
  BY DEF Typed, WakeInv, PermitPlace
<1>8. NoWaiterForgotten'
  BY DEF Typed, WaitBinding, NoWaiterForgotten, WatchedIsStarted, SuspendedYields, OwnedNow, Started, Future, Leaving, NoTurn, PermitPlace, Over
<1> QED  BY <1>1, <1>2, <1>3, <1>4, <1>5, <1>6, <1>7, <1>8

LEMMA PollPendingStep ==
    ASSUME PermitInv, NEW t \in Turns, PollPending(t)
    PROVE  PermitInv'
<1>0. waiter' \in [Watchers -> WaiterStates] /\ scheduled' \in [Turns -> BOOLEAN]
  BY NotifyType DEF PermitInv, Typed, PollPending, RestorePermit, StorePermit
<1> USE DEF PermitInv, PollPending, RestorePermit, StorePermit, DropPermit, Notify, OwnedListeners, actorVars, leaseVars, futureVars, watcherVars
<1>1. Typed'
  BY <1>0, ZenonT(60) DEF Typed, RunStates, Future, Leaving, WatcherStates, WaiterStates, NoTurn
<1>2. WaitBinding'
  BY DEF Typed, WaitBinding, WatcherStates, NoTurn
<1>3. PermitPlace'
  <2>1. CASE suspended[t] = {}
    BY <2>1 DEF Typed, PermitPlace, Over
  <2>2. CASE suspended[t] # {}
    BY <2>2 DEF Typed, PermitPlace, Over, SuspendedYields
  <2> QED
    BY <2>1, <2>2
<1>4. WatchedIsStarted'
  BY DEF Typed, WaitBinding, WatchedIsStarted, Started, Future, Leaving, NoTurn
<1>5. SuspendedYields'
  BY DEF Typed, WaitBinding, PermitPlace, WatchedIsStarted, SuspendedYields, Started, Future, Leaving, Over, NoTurn
<1>6. SealedWaitsFire'
  BY DEF Typed, SealedWaitsFire
<1>7. WakeInv'
  BY DEF Typed, WakeInv, PermitPlace
<1>8. NoWaiterForgotten'
  BY DEF Typed, WaitBinding, NoWaiterForgotten, WatchedIsStarted, SuspendedYields, OwnedNow, Started, Future, Leaving, NoTurn, PermitPlace, Over
<1> QED  BY <1>1, <1>2, <1>3, <1>4, <1>5, <1>6, <1>7, <1>8

LEMMA PollReadyStep ==
    ASSUME PermitInv, NEW t \in Turns, PollReady(t)
    PROVE  PermitInv'
<1> USE DEF PermitInv, PollReady, actorVars, leaseVars, futureVars, watcherVars
<1>1. Typed'
  BY DEF Typed, RunStates, Future, Leaving, WatcherStates, WaiterStates, NoTurn
<1>2. WaitBinding'
  BY DEF Typed, WaitBinding, WatcherStates, NoTurn
<1>3. PermitPlace'
  BY DEF Typed, PermitPlace, Over
<1>4. WatchedIsStarted'
  BY DEF Typed, WaitBinding, WatchedIsStarted, Started, Future, Leaving, NoTurn
<1>5. SuspendedYields'
  BY DEF Typed, WaitBinding, PermitPlace, WatchedIsStarted, SuspendedYields, Started, Future, Leaving, Over, NoTurn
<1>6. SealedWaitsFire'
  BY DEF Typed, SealedWaitsFire
<1>7. WakeInv'
  BY DEF Typed, WakeInv, PermitPlace
<1>8. NoWaiterForgotten'
  BY DEF Typed, WaitBinding, NoWaiterForgotten, WatchedIsStarted, SuspendedYields, OwnedNow, Started, Future, Leaving, NoTurn, PermitPlace, Over
<1> QED  BY <1>1, <1>2, <1>3, <1>4, <1>5, <1>6, <1>7, <1>8

LEMMA GuardDropStep ==
    ASSUME PermitInv, NEW t \in Turns, GuardDrop(t)
    PROVE  PermitInv'
<1> USE DEF PermitInv, GuardDrop, actorVars, leaseVars, futureVars, watcherVars
<1>1. Typed'
  BY DEF Typed, RunStates, Future, Leaving, WatcherStates, WaiterStates, NoTurn
<1>2. WaitBinding'
  BY DEF Typed, WaitBinding, WatcherStates, NoTurn
<1>3. PermitPlace'
  BY DEF Typed, PermitPlace, Over
<1>4. WatchedIsStarted'
  BY DEF Typed, WaitBinding, WatchedIsStarted, Started, Future, Leaving, NoTurn
<1>5. SuspendedYields'
  BY DEF Typed, WaitBinding, PermitPlace, WatchedIsStarted, SuspendedYields, Started, Future, Leaving, Over, NoTurn
<1>6. SealedWaitsFire'
  BY DEF Typed, SealedWaitsFire
<1>7. WakeInv'
  BY DEF Typed, WakeInv, PermitPlace
<1>8. NoWaiterForgotten'
  BY DEF Typed, WaitBinding, NoWaiterForgotten, WatchedIsStarted, SuspendedYields, OwnedNow, Started, Future, Leaving, NoTurn, PermitPlace, Over
<1> QED  BY <1>1, <1>2, <1>3, <1>4, <1>5, <1>6, <1>7, <1>8

LEMMA LeaseCloseStep ==
    ASSUME PermitInv, NEW t \in Turns, LeaseClose(t)
    PROVE  PermitInv'
<1> USE DEF PermitInv, LeaseClose, CancelWaiters, Notify, OwnedListeners, actorVars, leaseVars, futureVars, watcherVars
<1>1. Typed'
  BY DEF Typed, RunStates, Future, Leaving, WatcherStates, WaiterStates, NoTurn
<1>2. WaitBinding'
  BY DEF Typed, WaitBinding, WatcherStates, NoTurn
<1>3. PermitPlace'
  BY DEF Typed, PermitPlace, Over
<1>4. WatchedIsStarted'
  BY DEF Typed, WaitBinding, WatchedIsStarted, Started, Future, Leaving, NoTurn
<1>5. SuspendedYields'
  BY DEF Typed, WaitBinding, PermitPlace, WatchedIsStarted, SuspendedYields, Started, Future, Leaving, Over, NoTurn
<1>6. SealedWaitsFire'
  BY DEF Typed, SealedWaitsFire
<1>7. WakeInv'
  BY DEF Typed, WakeInv, PermitPlace
<1>8. NoWaiterForgotten'
  BY DEF Typed, WaitBinding, NoWaiterForgotten, WatchedIsStarted, SuspendedYields, OwnedNow, Started, Future, Leaving, NoTurn, PermitPlace, Over
<1> QED  BY <1>1, <1>2, <1>3, <1>4, <1>5, <1>6, <1>7, <1>8

LEMMA ReturnStep ==
    ASSUME PermitInv, NEW t \in Turns, Return(t)
    PROVE  PermitInv'
<1> USE DEF PermitInv, Return, DropPermit, actorVars, leaseVars, futureVars, watcherVars
<1>1. Typed'
  BY DEF Typed, RunStates, Future, Leaving, WatcherStates, WaiterStates, NoTurn
<1>2. WaitBinding'
  BY DEF Typed, WaitBinding, WatcherStates, NoTurn
<1>3. PermitPlace'
  BY DEF Typed, PermitPlace, Over
<1>4. WatchedIsStarted'
  BY DEF Typed, WaitBinding, WatchedIsStarted, Started, Future, Leaving, NoTurn
<1>5. SuspendedYields'
  BY DEF Typed, WaitBinding, PermitPlace, WatchedIsStarted, SuspendedYields, Started, Future, Leaving, Over, NoTurn
<1>6. SealedWaitsFire'
  BY DEF Typed, SealedWaitsFire
<1>7. WakeInv'
  BY DEF Typed, WakeInv, PermitPlace
<1>8. NoWaiterForgotten'
  BY DEF Typed, WaitBinding, NoWaiterForgotten, WatchedIsStarted, SuspendedYields, OwnedNow, Started, Future, Leaving, NoTurn, PermitPlace, Over
<1> QED  BY <1>1, <1>2, <1>3, <1>4, <1>5, <1>6, <1>7, <1>8

LEMMA SettleStep ==
    ASSUME PermitInv, NEW t \in Turns, Settle(t)
    PROVE  PermitInv'
<1> USE DEF PermitInv, Settle, actorVars, leaseVars, futureVars, watcherVars
<1>1. Typed'
  BY DEF Typed, RunStates, Future, Leaving, WatcherStates, WaiterStates, NoTurn
<1>2. WaitBinding'
  BY DEF Typed, WaitBinding, WatcherStates, NoTurn
<1>3. PermitPlace'
  BY DEF Typed, PermitPlace, Over
<1>4. WatchedIsStarted'
  BY DEF Typed, WaitBinding, WatchedIsStarted, Started, Future, Leaving, NoTurn
<1>5. SuspendedYields'
  BY DEF Typed, WaitBinding, PermitPlace, WatchedIsStarted, SuspendedYields, Started, Future, Leaving, Over, NoTurn
<1>6. SealedWaitsFire'
  BY DEF Typed, SealedWaitsFire
<1>7. WakeInv'
  BY DEF Typed, WakeInv, PermitPlace
<1>8. NoWaiterForgotten'
  BY DEF Typed, WaitBinding, NoWaiterForgotten, WatchedIsStarted, SuspendedYields, OwnedNow, Started, Future, Leaving, NoTurn, PermitPlace, Over
<1> QED  BY <1>1, <1>2, <1>3, <1>4, <1>5, <1>6, <1>7, <1>8

LEMMA SemaphoreWakeStep ==
    ASSUME PermitInv, NEW t \in Turns, SemaphoreWake(t)
    PROVE  PermitInv'
<1> USE DEF PermitInv, SemaphoreWake, Wakes, actorVars, leaseVars, futureVars, watcherVars
<1>1. Typed'
  BY DEF Typed, RunStates, Future, Leaving, WatcherStates, WaiterStates, NoTurn
<1>2. WaitBinding'
  BY DEF Typed, WaitBinding, WatcherStates, NoTurn
<1>3. PermitPlace'
  BY DEF Typed, PermitPlace, Over
<1>4. WatchedIsStarted'
  BY DEF Typed, WaitBinding, WatchedIsStarted, Started, Future, Leaving, NoTurn
<1>5. SuspendedYields'
  BY DEF Typed, WaitBinding, PermitPlace, WatchedIsStarted, SuspendedYields, Started, Future, Leaving, Over, NoTurn
<1>6. SealedWaitsFire'
  BY DEF Typed, SealedWaitsFire
<1>7. WakeInv'
  BY DEF Typed, WakeInv, PermitPlace
<1>8. NoWaiterForgotten'
  BY DEF Typed, WaitBinding, NoWaiterForgotten, WatchedIsStarted, SuspendedYields, OwnedNow, Started, Future, Leaving, NoTurn, PermitPlace, Over
<1> QED  BY <1>1, <1>2, <1>3, <1>4, <1>5, <1>6, <1>7, <1>8

LEMMA BackendIOStep ==
    ASSUME PermitInv, NEW t \in Turns, BackendIO(t)
    PROVE  PermitInv'
<1> USE DEF PermitInv, BackendIO, Wakes, actorVars, leaseVars, futureVars, watcherVars
<1>1. Typed'
  BY DEF Typed, RunStates, Future, Leaving, WatcherStates, WaiterStates, NoTurn
<1>2. WaitBinding'
  BY DEF Typed, WaitBinding, WatcherStates, NoTurn
<1>3. PermitPlace'
  BY DEF Typed, PermitPlace, Over
<1>4. WatchedIsStarted'
  BY DEF Typed, WaitBinding, WatchedIsStarted, Started, Future, Leaving, NoTurn
<1>5. SuspendedYields'
  BY DEF Typed, WaitBinding, PermitPlace, WatchedIsStarted, SuspendedYields, Started, Future, Leaving, Over, NoTurn
<1>6. SealedWaitsFire'
  BY DEF Typed, SealedWaitsFire
<1>7. WakeInv'
  BY DEF Typed, WakeInv, PermitPlace
<1>8. NoWaiterForgotten'
  BY DEF Typed, WaitBinding, NoWaiterForgotten, WatchedIsStarted, SuspendedYields, OwnedNow, Started, Future, Leaving, NoTurn, PermitPlace, Over
<1> QED  BY <1>1, <1>2, <1>3, <1>4, <1>5, <1>6, <1>7, <1>8

LEMMA ValidateStep ==
    ASSUME PermitInv, NEW w \in Watchers, NEW t \in Turns, NEW c \in Turns, Validate(w, t, c)
    PROVE  PermitInv'
<1> USE DEF PermitInv, Validate, actorVars, leaseVars, futureVars, watcherVars
<1>1. Typed'
  BY PermitAssumption DEF Typed, RunStates, Future, Leaving, WatcherStates, WaiterStates, NoTurn
<1>2. WaitBinding'
  BY PermitAssumption DEF Typed, WaitBinding, WatcherStates, NoTurn
<1>3. PermitPlace'
  BY DEF Typed, PermitPlace, Over
<1>4. WatchedIsStarted'
  BY PermitAssumption DEF Typed, WaitBinding, WatchedIsStarted, Started, Future, Leaving, NoTurn
<1>5. SuspendedYields'
  BY PermitAssumption DEF Typed, WaitBinding, PermitPlace, WatchedIsStarted, SuspendedYields, Started, Future, Leaving, Over, NoTurn
<1>6. SealedWaitsFire'
  BY DEF Typed, SealedWaitsFire
<1>7. WakeInv'
  BY DEF Typed, WakeInv, PermitPlace
<1>8. NoWaiterForgotten'
  BY PermitAssumption DEF Typed, WaitBinding, NoWaiterForgotten, WatchedIsStarted, SuspendedYields, OwnedNow, Started, Future, Leaving, NoTurn, PermitPlace, Over
<1> QED  BY <1>1, <1>2, <1>3, <1>4, <1>5, <1>6, <1>7, <1>8

LEMMA SuspendRefusedStep ==
    ASSUME PermitInv, NEW w \in Watchers, SuspendRefused(w)
    PROVE  PermitInv'
<1> USE DEF PermitInv, SuspendRefused, actorVars, leaseVars, futureVars, watcherVars
<1>1. Typed'
  BY PermitAssumption DEF Typed, RunStates, Future, Leaving, WatcherStates, WaiterStates, NoTurn
<1>2. WaitBinding'
  BY PermitAssumption DEF Typed, WaitBinding, WatcherStates, NoTurn
<1>3. PermitPlace'
  BY DEF Typed, PermitPlace, Over
<1>4. WatchedIsStarted'
  BY PermitAssumption DEF Typed, WaitBinding, WatchedIsStarted, Started, Future, Leaving, NoTurn
<1>5. SuspendedYields'
  BY PermitAssumption DEF Typed, WaitBinding, PermitPlace, WatchedIsStarted, SuspendedYields, Started, Future, Leaving, Over, NoTurn
<1>6. SealedWaitsFire'
  BY DEF Typed, SealedWaitsFire
<1>7. WakeInv'
  BY DEF Typed, WakeInv, PermitPlace
<1>8. NoWaiterForgotten'
  BY PermitAssumption DEF Typed, WaitBinding, NoWaiterForgotten, WatchedIsStarted, SuspendedYields, OwnedNow, Started, Future, Leaving, NoTurn, PermitPlace, Over
<1> QED  BY <1>1, <1>2, <1>3, <1>4, <1>5, <1>6, <1>7, <1>8

LEMMA SuspendStep ==
    ASSUME PermitInv, NEW w \in Watchers, Suspend(w)
    PROVE  PermitInv'
<1>a. permit' \in [Turns -> {"none", "lease", "local"}] /\ owns' \in [Turns -> BOOLEAN]
  BY DEF PermitInv, Typed, WaitBinding, Suspend
<1>0. /\ turnOf[w] \in Turns
      /\ wake' \in [Turns -> BOOLEAN] /\ scheduled' \in [Turns -> BOOLEAN]
  BY TakeWakeType DEF PermitInv, WaitBinding, Suspend
<1> USE DEF PermitInv, Suspend, TakeWake, actorVars, leaseVars, futureVars, watcherVars
<1>1. Typed'
  BY <1>a, <1>0, PermitAssumption DEF Typed, RunStates, Future, Leaving, WatcherStates, WaiterStates, NoTurn
<1>2. WaitBinding'
  BY PermitAssumption DEF Typed, WaitBinding, WatcherStates, NoTurn
<1>3. PermitPlace'
  BY DEF Typed, PermitPlace, Over
<1>4. WatchedIsStarted'
  BY PermitAssumption DEF Typed, WaitBinding, WatchedIsStarted, Started, Future, Leaving, NoTurn
<1>5. SuspendedYields'
  BY PermitAssumption DEF Typed, WaitBinding, PermitPlace, WatchedIsStarted, SuspendedYields, Started, Future, Leaving, Over, NoTurn
<1>6. SealedWaitsFire'
  BY DEF Typed, SealedWaitsFire
<1>7. WakeInv'
  BY DEF Typed, WakeInv, PermitPlace
<1>8. NoWaiterForgotten'
  BY PermitAssumption DEF Typed, WaitBinding, NoWaiterForgotten, WatchedIsStarted, SuspendedYields, OwnedNow, Started, Future, Leaving, NoTurn, PermitPlace, Over
<1> QED  BY <1>1, <1>2, <1>3, <1>4, <1>5, <1>6, <1>7, <1>8

LEMMA WatcherRetireStep ==
    ASSUME PermitInv, NEW w \in Watchers, WatcherRetire(w)
    PROVE  PermitInv'
<1>0. /\ turnOf[w] \in Turns
      /\ wake' \in [Turns -> BOOLEAN] /\ scheduled' \in [Turns -> BOOLEAN]
  BY TakeWakeType DEF PermitInv, Typed, WaitBinding, WatcherRetire, Retire
<1> USE DEF PermitInv, WatcherRetire, Retire, TakeWake, actorVars, leaseVars, futureVars, watcherVars
<1>1. Typed'
  BY <1>0, PermitAssumption DEF Typed, RunStates, Future, Leaving, WatcherStates, WaiterStates, NoTurn
<1>2. WaitBinding'
  BY PermitAssumption DEF Typed, WaitBinding, WatcherStates, NoTurn
<1>3. PermitPlace'
  BY DEF Typed, PermitPlace, Over
<1>4. WatchedIsStarted'
  BY PermitAssumption DEF Typed, WaitBinding, WatchedIsStarted, Started, Future, Leaving, NoTurn
<1>5. SuspendedYields'
  BY PermitAssumption DEF Typed, WaitBinding, PermitPlace, WatchedIsStarted, SuspendedYields, Started, Future, Leaving, Over, NoTurn
<1>6. SealedWaitsFire'
  BY DEF Typed, SealedWaitsFire
<1>7. WakeInv'
  BY DEF Typed, WakeInv, PermitPlace
<1>8. NoWaiterForgotten'
  BY PermitAssumption DEF Typed, WaitBinding, NoWaiterForgotten, WatchedIsStarted, SuspendedYields, OwnedNow, Started, Future, Leaving, NoTurn, PermitPlace, Over
<1> QED  BY <1>1, <1>2, <1>3, <1>4, <1>5, <1>6, <1>7, <1>8

LEMMA WatcherTimeoutStep ==
    ASSUME PermitInv, NEW w \in Watchers, WatcherTimeout(w)
    PROVE  PermitInv'
<1>0. /\ turnOf[w] \in Turns
      /\ wake' \in [Turns -> BOOLEAN] /\ scheduled' \in [Turns -> BOOLEAN]
  BY TakeWakeType DEF PermitInv, Typed, WaitBinding, WatcherTimeout, Retire
<1> USE DEF PermitInv, WatcherTimeout, Retire, TakeWake, actorVars, leaseVars, futureVars, watcherVars
<1>1. Typed'
  BY <1>0, PermitAssumption DEF Typed, RunStates, Future, Leaving, WatcherStates, WaiterStates, NoTurn
<1>2. WaitBinding'
  BY PermitAssumption DEF Typed, WaitBinding, WatcherStates, NoTurn
<1>3. PermitPlace'
  BY DEF Typed, PermitPlace, Over
<1>4. WatchedIsStarted'
  BY PermitAssumption DEF Typed, WaitBinding, WatchedIsStarted, Started, Future, Leaving, NoTurn
<1>5. SuspendedYields'
  BY PermitAssumption DEF Typed, WaitBinding, PermitPlace, WatchedIsStarted, SuspendedYields, Started, Future, Leaving, Over, NoTurn
<1>6. SealedWaitsFire'
  BY DEF Typed, SealedWaitsFire
<1>7. WakeInv'
  BY DEF Typed, WakeInv, PermitPlace
<1>8. NoWaiterForgotten'
  BY PermitAssumption DEF Typed, WaitBinding, NoWaiterForgotten, WatchedIsStarted, SuspendedYields, OwnedNow, Started, Future, Leaving, NoTurn, PermitPlace, Over
<1> QED  BY <1>1, <1>2, <1>3, <1>4, <1>5, <1>6, <1>7, <1>8

LEMMA WatcherCompleteStep ==
    ASSUME PermitInv, NEW w \in Watchers, WatcherComplete(w)
    PROVE  PermitInv'
<1> USE DEF PermitInv, WatcherComplete, Notify, actorVars, leaseVars, futureVars, watcherVars
<1>1. Typed'
  BY PermitAssumption DEF Typed, RunStates, Future, Leaving, WatcherStates, WaiterStates, NoTurn
<1>2. WaitBinding'
  BY PermitAssumption DEF Typed, WaitBinding, WatcherStates, NoTurn
<1>3. PermitPlace'
  BY DEF Typed, PermitPlace, Over
<1>4. WatchedIsStarted'
  BY PermitAssumption DEF Typed, WaitBinding, WatchedIsStarted, Started, Future, Leaving, NoTurn
<1>5. SuspendedYields'
  BY PermitAssumption DEF Typed, WaitBinding, PermitPlace, WatchedIsStarted, SuspendedYields, Started, Future, Leaving, Over, NoTurn
<1>6. SealedWaitsFire'
  BY DEF Typed, SealedWaitsFire
<1>7. WakeInv'
  BY DEF Typed, WakeInv, PermitPlace
<1>8. NoWaiterForgotten'
  BY PermitAssumption DEF Typed, WaitBinding, NoWaiterForgotten, WatchedIsStarted, SuspendedYields, OwnedNow, Started, Future, Leaving, NoTurn, PermitPlace, Over
<1> QED  BY <1>1, <1>2, <1>3, <1>4, <1>5, <1>6, <1>7, <1>8

LEMMA WaiterPollStep ==
    ASSUME PermitInv, NEW w \in Watchers, WaiterPoll(w)
    PROVE  PermitInv'
<1>0. scheduled' \in [Turns -> BOOLEAN] /\ waiter' \in [Watchers -> WaiterStates]
  BY ZenonT(60) DEF PermitInv, Typed, WaiterPoll, Wakes, WaiterStates
<1> USE DEF PermitInv, WaiterPoll, Wakes, OwnedNow, actorVars, leaseVars, futureVars, watcherVars
<1>1. Typed'
  BY <1>0, PermitAssumption DEF Typed, RunStates, Future, Leaving, WatcherStates, WaiterStates, NoTurn
<1>2. WaitBinding'
  BY PermitAssumption DEF Typed, WaitBinding, WatcherStates, NoTurn
<1>3. PermitPlace'
  BY DEF Typed, PermitPlace, Over
<1>4. WatchedIsStarted'
  BY PermitAssumption DEF Typed, WaitBinding, WatchedIsStarted, Started, Future, Leaving, NoTurn
<1>5. SuspendedYields'
  BY PermitAssumption DEF Typed, WaitBinding, PermitPlace, WatchedIsStarted, SuspendedYields, Started, Future, Leaving, Over, NoTurn
<1>6. SealedWaitsFire'
  BY DEF Typed, SealedWaitsFire
<1>7. WakeInv'
  BY DEF Typed, WakeInv, PermitPlace
<1>8. NoWaiterForgotten'
  BY PermitAssumption DEF Typed, WaitBinding, NoWaiterForgotten, WatchedIsStarted, SuspendedYields, OwnedNow, Started, Future, Leaving, NoTurn, PermitPlace, Over
<1> QED  BY <1>1, <1>2, <1>3, <1>4, <1>5, <1>6, <1>7, <1>8

LEMMA WaiterDropStep ==
    ASSUME PermitInv, NEW w \in Watchers, WaiterDrop(w)
    PROVE  PermitInv'
<1> USE DEF PermitInv, WaiterDrop, actorVars, leaseVars, futureVars, watcherVars
<1>1. Typed'
  BY PermitAssumption DEF Typed, RunStates, Future, Leaving, WatcherStates, WaiterStates, NoTurn
<1>2. WaitBinding'
  BY PermitAssumption DEF Typed, WaitBinding, WatcherStates, NoTurn
<1>3. PermitPlace'
  BY DEF Typed, PermitPlace, Over
<1>4. WatchedIsStarted'
  BY PermitAssumption DEF Typed, WaitBinding, WatchedIsStarted, Started, Future, Leaving, NoTurn
<1>5. SuspendedYields'
  BY PermitAssumption DEF Typed, WaitBinding, PermitPlace, WatchedIsStarted, SuspendedYields, Started, Future, Leaving, Over, NoTurn
<1>6. SealedWaitsFire'
  BY DEF Typed, SealedWaitsFire
<1>7. WakeInv'
  BY DEF Typed, WakeInv, PermitPlace
<1>8. NoWaiterForgotten'
  BY PermitAssumption DEF Typed, WaitBinding, NoWaiterForgotten, WatchedIsStarted, SuspendedYields, OwnedNow, Started, Future, Leaving, NoTurn, PermitPlace, Over
<1> QED  BY <1>1, <1>2, <1>3, <1>4, <1>5, <1>6, <1>7, <1>8

-----------------------------------------------------------------------------
LEMMA PermitInit == Init => PermitInv
<1> SUFFICES ASSUME Init PROVE PermitInv
  OBVIOUS
<1>1. Typed
  BY DEF Init, Typed, RunStates, WatcherStates, WaiterStates
<1>2. WaitBinding /\ PermitPlace /\ WatchedIsStarted
  BY DEF Init, WaitBinding, PermitPlace, WatchedIsStarted, Over
<1>3. SuspendedYields /\ SealedWaitsFire /\ WakeInv /\ NoWaiterForgotten
  BY DEF Init, SuspendedYields, SealedWaitsFire, WakeInv, NoWaiterForgotten
<1> QED
  BY <1>1, <1>2, <1>3 DEF PermitInv

\* A step that changes nothing keeps the invariant.
LEMMA PermitStutter == ASSUME PermitInv, UNCHANGED vars PROVE PermitInv'
<1>1. Typed' /\ WaitBinding'
  BY DEF PermitInv, Typed, WaitBinding, vars
<1>2. PermitPlace' /\ WatchedIsStarted' /\ SuspendedYields' /\ SealedWaitsFire'
  BY DEF PermitInv, PermitPlace, WatchedIsStarted, SuspendedYields, SealedWaitsFire, vars
<1>3. WakeInv' /\ NoWaiterForgotten'
  BY DEF PermitInv, WakeInv, NoWaiterForgotten, OwnedNow, vars
<1> QED
  BY <1>1, <1>2, <1>3 DEF PermitInv

LEMMA PermitNext == ASSUME PermitInv, [Next]_vars PROVE PermitInv'
<1>1. CASE UNCHANGED vars
  BY <1>1, PermitStutter
<1>2. ASSUME NEW t \in Turns, Task(t) PROVE PermitInv'
  BY <1>2, EnterAcquireStep, EnterCancelledStep, EnterRegisterStep, StartTurnStep,
     StartCancelledStep, PollCheckStep, PollRevokeStep, PollGateStep, PollAcquireStep,
     PollStoreStep, GuardDropStep, LeaseCloseStep, ReturnStep, SettleStep DEF Task
<1>3. ASSUME NEW t \in Turns,
             \/ PollPending(t) \/ PollReady(t) \/ TakeSlot(t) \/ CloseActor(t)
             \/ FireSlot(t) \/ SemaphoreWake(t) \/ BackendIO(t)
      PROVE  PermitInv'
  BY <1>3, PollPendingStep, PollReadyStep, TakeSlotStep, CloseActorStep, FireSlotStep,
     SemaphoreWakeStep, BackendIOStep
<1>4. ASSUME NEW w \in Watchers,
             \/ Watch(w) \/ WatcherTimeout(w) \/ WaiterPoll(w) \/ WaiterDrop(w)
             \/ \E t, c \in Turns : Validate(w, t, c)
      PROVE  PermitInv'
  BY <1>4, SuspendRefusedStep, SuspendStep, WatcherRetireStep, WatcherTimeoutStep,
     WatcherCompleteStep, WaiterPollStep, WaiterDropStep, ValidateStep DEF Watch
<1>5. CASE Terminated
  BY <1>5, PermitStutter DEF Terminated
<1> QED
  BY <1>1, <1>2, <1>3, <1>4, <1>5 DEF Next

LEMMA PermitInvariant == Spec => []PermitInv
<1>1. PermitInv /\ [Next]_vars => PermitInv'
  BY PermitNext
<1> QED
  BY PermitInit, <1>1, PTL DEF Spec

-----------------------------------------------------------------------------
\* Every variable keeps its type and the suspensions a lease counts are those of
\* its live watchers (LeaseState.suspensions and watcher_cancels agree).
THEOREM PermitTypeCorrect == Spec => []TypeOK
<1>1. PermitInv => TypeOK
  BY DEF PermitInv, TypeOK
<1> QED
  BY PermitInvariant, <1>1, PTL

\* LeaseInner::suspend takes effect whatever poll or acquisition it races: a
\* suspended turn has no permit but the one a poll under way will release.
THEOREM YieldCorrect == Spec => []SuspendedYields
<1>1. PermitInv => SuspendedYields
  BY DEF PermitInv
<1> QED
  BY PermitInvariant, <1>1, PTL

\* ManagedExecutionFuture::poll calls the backend with a permit and keeps it
\* until the backend returns.
THEOREM PollCorrect == Spec => []PollHoldsPermit
<1>1. PermitInv => PollHoldsPermit
  BY DEF PermitInv, PermitPlace, PollHoldsPermit
<1> QED
  BY PermitInvariant, <1>1, PTL

\* After cancel_waiters or LeaseInner::close no wait is left that was not
\* cancelled, although registration validates and suspends under two locks.
THEOREM SealCorrect == Spec => []SealedWaitsFire
<1>1. PermitInv => SealedWaitsFire
  BY DEF PermitInv
<1> QED
  BY PermitInvariant, <1>1, PTL

\* ManagedExecutionFuture::poll never parks a turn that nothing would wake.
THEOREM WakeCorrect == Spec => []ParkedTurnWakes
<1>1. PermitInv => ParkedTurnWakes
  BY DEF PermitInv, WakeInv, ParkedTurnWakes, Typed
<1> QED
  BY PermitInvariant, <1>1, PTL

\* wait_until_owned and wait_result never sleep through what they wait for.
THEOREM WaiterCorrect == Spec => []NoWaiterForgotten
<1>1. PermitInv => NoWaiterForgotten
  BY DEF PermitInv
<1> QED
  BY PermitInvariant, <1>1, PTL

\* ManagedPromptWait::wait hands control back only to a turn that has a permit,
\* or that is over: owns_permit is never a stale claim.
THEOREM HolderCorrect == Spec => WaitReturnsToHolder
<1> DEFINE Holds(w) == closing[turnOf[w]] \/ (suspended[turnOf[w]] = {} /\ permit[turnOf[w]] # "none")
           Fresh == \A w \in Watchers : waiter[w] # "returned" /\ waiter'[w] = "returned" => Holds(w)
<1>1. ASSUME PermitInv, [Next]_vars PROVE Fresh
  <2> SUFFICES ASSUME NEW w \in Watchers, waiter[w] # "returned", waiter'[w] = "returned"
               PROVE  Holds(w)
    OBVIOUS
  <2>1. WaiterPoll(w)
    <3>1. ASSUME NEW t \in Turns, Task(t) PROVE FALSE
      <4>1. CASE PollStore(t)
        BY <1>1, <4>1 DEF PollStore, RestorePermit, StorePermit, Notify, PermitInv, Typed
      <4>2. CASE LeaseClose(t)
        BY <1>1, <4>2 DEF LeaseClose, Notify, PermitInv, Typed
      <4>3. CASE ~PollStore(t) /\ ~LeaseClose(t)
        BY <3>1, <4>3 DEF Task, EnterAcquire, EnterCancelled, EnterRegister, StartTurn,
           StartCancelled, PollCheck, PollRevoke, PollGate, PollAcquire, GuardDrop, Return, Settle
      <4> QED
        BY <4>1, <4>2, <4>3
    <3>2. ASSUME NEW t \in Turns,
                 \/ PollPending(t) \/ PollReady(t) \/ TakeSlot(t) \/ CloseActor(t)
                 \/ FireSlot(t) \/ SemaphoreWake(t) \/ BackendIO(t)
          PROVE  FALSE
      BY <1>1, <3>2 DEF PollPending, RestorePermit, StorePermit, Notify, PollReady, TakeSlot,
         CloseActor, FireSlot, SemaphoreWake, BackendIO, PermitInv, Typed
    <3>3. ASSUME NEW v \in Watchers,
                 \/ Watch(v) \/ WatcherTimeout(v) \/ WaiterDrop(v)
                 \/ \E t, c \in Turns : Validate(v, t, c)
          PROVE  FALSE
      BY <1>1, <3>3 DEF Watch, SuspendRefused, Suspend, WatcherRetire, WatcherTimeout, Retire,
         WatcherComplete, Notify, WaiterDrop, Validate, PermitInv, Typed
    <3>4. ASSUME NEW v \in Watchers, WaiterPoll(v) PROVE v = w
      BY <1>1, <3>4 DEF WaiterPoll, PermitInv, Typed
    <3> QED
      BY <1>1, <3>1, <3>2, <3>3, <3>4 DEF Next, Terminated, vars
  <2>2. OwnedNow(turnOf[w]) /\ turnOf[w] \in Turns
    BY <1>1, <2>1 DEF WaiterPoll, PermitInv, Typed, WaitBinding, WatcherStates
  <2> QED
    BY <1>1, <2>2 DEF OwnedNow, PermitInv, PermitPlace
<1>2. PermitInv /\ [Next]_vars => [Fresh]_vars
  BY <1>1
<1> QED
  BY PermitInvariant, <1>2, PTL DEF Spec, WaitReturnsToHolder
=============================================================================
