----------------------------- MODULE TurnLedger -----------------------------
(***************************************************************************)
(* What the actor of one agent promises the holders of its turn tickets    *)
(* (docs/agent-system.md, docs/agent-invariants.md): an admitted turn is   *)
(* given one outcome, its waiters are told that outcome and no other, and  *)
(* a terminal actor announces its close only when no waiter is left.       *)
(***************************************************************************)
CONSTANTS TurnIds, Results, NoResult

VARIABLES admitted,   \* the turns a ticket was handed out for
          retained,   \* the outcome a turn was given
          told,       \* the outcome the turn's waiters have observed
          lifecycle   \* "open", then "terminal", then "closed"

ledger == <<admitted, retained, told, lifecycle>>

LedgerInit ==
    /\ admitted = {}
    /\ retained = [t \in TurnIds |-> NoResult]
    /\ told = [t \in TurnIds |-> NoResult]
    /\ lifecycle = "open"

AdmitTicket(t) ==
    /\ lifecycle = "open"
    /\ t \in TurnIds \ admitted
    /\ admitted' = admitted \cup {t}
    /\ UNCHANGED <<retained, told, lifecycle>>

Retain(t, r) ==
    /\ t \in admitted
    /\ retained[t] = NoResult
    /\ retained' = [retained EXCEPT ![t] = r]
    /\ UNCHANGED <<admitted, told, lifecycle>>

\* Telling the last waiter of a terminal actor may close it in the same step.
Tell(t) ==
    /\ retained[t] # NoResult
    /\ told[t] = NoResult
    /\ told' = [told EXCEPT ![t] = retained[t]]
    /\ \/ lifecycle' = lifecycle
       \/ /\ lifecycle = "terminal"
          /\ \A u \in admitted : told'[u] # NoResult
          /\ lifecycle' = "closed"
    /\ UNCHANGED <<admitted, retained>>

Terminate ==
    /\ lifecycle = "open"
    /\ lifecycle' = "terminal"
    /\ UNCHANGED <<admitted, retained, told>>

AnnounceClose ==
    /\ lifecycle = "terminal"
    /\ \A u \in admitted : told[u] # NoResult
    /\ lifecycle' = "closed"
    /\ UNCHANGED <<admitted, retained, told>>

LedgerNext ==
    \/ \E t \in TurnIds : AdmitTicket(t) \/ Tell(t) \/ \E r \in Results : Retain(t, r)
    \/ Terminate \/ AnnounceClose

LedgerSpec == LedgerInit /\ [][LedgerNext]_ledger
=============================================================================
