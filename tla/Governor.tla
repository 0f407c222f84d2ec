------------------------------ MODULE Governor ------------------------------
(***************************************************************************)
(* A whole Reconcile: the accounting of BudgetReconcile and the            *)
(* enforcement of WorkloadScaling as the two halves of one pass.  The      *)
(* phase that the accounting computes is the phase that the enforcement    *)
(* acts in.                                                                *)
(*                                                                         *)
(* Every action is a step of one half, or of both where the code does both *)
(* between two requests.  One process with a cache that does not lag, and  *)
(* one budget from its creation to the end of its deletion; its spec is    *)
(* not edited.                                                             *)
(***************************************************************************)
EXTENDS WorkloadScaling, Integers

CONSTANTS
    Manager,     \* the operator process
    MonthLen, MaxTime, Rates, Monthly, Webhook, FaultKinds, Never   \* see BudgetReconcile

ASSUME NoLagAssumption == ~CacheLag

VARIABLES
    now, status, shown, reports, copy, began, before, sent, started,   \* see BudgetReconcile
    step,      \* control point of the accounting half
    torn       \* history: did a pass end between a month's report and the reset?

A == INSTANCE BudgetReconcile WITH pc <- step, Procs <- {Manager}, WindowOk <- TRUE

\* As in BudgetReconcile; the enforcement is ready for every phase.  A message that
\* does not reach Slack is left out: it would change sent and nothing else.
ASSUME AccountingAssumption ==
    /\ MonthLen \in Nat \ {0} /\ MaxTime \in Nat
    /\ Rates \subseteq Nat
    /\ Never \notin Int
    /\ FaultKinds \subseteq {"create", "fill", "query", "persist", "answer", "crash"}
    /\ Monthly \in [A!Dims -> Nat]
    /\ A!PhaseNames \ {"none"} \subseteq Phases

world == <<now, status, shown, reports, sent, started>>
ledger == <<world, step, copy, began, before>>
workloads == <<server, objects, pass, listed, want>>
all == <<ledger, workloads, torn, faults>>

At(points) == step[Manager] \in points

GovernorTypeOK ==
    /\ TypeOK /\ A!TypeOK
    /\ torn \in BOOLEAN
    /\ At({"wait"}) => pc = "wait" \/ stage = "cleanup"
    /\ At({"create", "fill", "query"}) => pc \in {"wait", "assess"}
    /\ At({"persist"}) => pc = "detect"
    /\ At({"act"}) => stage \in {"idle", "suspend"}
    /\ phase # "none" => phase = copy[Manager].phase

\* No budget yet.
GovernorInit ==
    /\ Init /\ A!Init
    /\ torn = FALSE

-----------------------------------------------------------------------------
(***************************************************************************)
(* Reconcile up to step 6.                                                 *)
(***************************************************************************)

\* Step 1 and the month boundary.  A budget that is gone ends the pass at once.
BeginPass ==
    /\ pc = "wait" /\ seen.state # "absent"
    /\ A!Fetch(Manager, TRUE)
    /\ IF seen.state = "active" THEN StartPass ELSE UNCHANGED <<workloads, faults>>
    /\ UNCHANGED torn

\* The report of the month before.
WriteReport ==
    /\ A!CreateReport(Manager) \/ A!FillReport(Manager)
    /\ UNCHANGED <<workloads, torn>>

\* Steps 2 and 3 end the pass without accounting: the deletion is handled, the
\* finalizer is registered, or the budget went before it could be.
EndBeforeAccounting ==
    /\ At({"query"}) /\ pc = "wait"
    /\ \/ StartCleanup
       \/ RegisterFinalizer
       \/ budget.state = "absent" /\ UNCHANGED <<workloads, faults>>
    /\ A!Return(Manager)
    /\ UNCHANGED <<world, torn>>

\* Mutant: the enforcement goes by the phase read at the start.
AccountActingOnOldPhase(rate) ==
    /\ pc = "assess"
    /\ A!Account(Manager, rate)
    /\ Assess(IF before[Manager] = "none" THEN "OK" ELSE before[Manager])
    /\ UNCHANGED torn

\* Steps 4 to 6.
Account(rate) ==
    /\ pc = "assess"
    /\ A!Account(Manager, rate)
    /\ Assess(copy'[Manager].phase)
    /\ UNCHANGED torn

-----------------------------------------------------------------------------
(***************************************************************************)
(* Steps 7 to 11.                                                          *)
(***************************************************************************)

\* Steps 7 and 8.
DetectAndPersist(found) ==
    /\ A!Persist(Manager)
    /\ DetectIdle(found)
    /\ UNCHANGED torn

\* Steps 9 and 10: the loops over idle workloads and over all of them.  Which names
\* they note for the message is left out.
ActOnWorkloads ==
    /\ \/ \E d \in Names : ScaleDownSkips(d) \/ ScaleDownStarts(d)
       \/ Annotate \/ ZeroReplicas \/ SuspendAll
    /\ UNCHANGED <<ledger, torn>>

\* Step 11.
FinishPass ==
    /\ PassEnds
    /\ A!Finish(Manager)
    /\ UNCHANGED torn

\* Cleanup, after the accounting half has returned.
CleanUp ==
    /\ At({"wait"})
    /\ \/ \E d \in Names : RestoreSkips(d) \/ RestoreFails(d) \/ RestoreStarts(d)
       \/ RestoreReplicas \/ RemoveAnnotations
       \/ RemoveFinalizer \/ FinalizerUpdateFails
    /\ UNCHANGED <<ledger, torn>>

-----------------------------------------------------------------------------
(***************************************************************************)
(* Failures.                                                               *)
(***************************************************************************)

\* The pass in hand has begun a report or a period that is not stored yet.
BoundaryInFlight ==
    \/ At({"fill"})
    \/ ~At({"wait"}) /\ status.since # Never /\ copy[Manager].since # status.since

Tear == torn' = (torn \/ BoundaryInFlight)

\* Generate fails, in Reconcile's eyes: a report may have come into being all the same.
ReportFails ==
    /\ \/ A!CreateFails(Manager) \/ A!CreateAnswerLost(Manager)
       \/ A!FillFails(Manager) \/ A!FillAnswerLost(Manager)
    /\ torn' = (torn \/ BoundaryInFlight \/ reports' # reports)
    /\ UNCHANGED workloads

\* The queries of step 4 or the status update of step 8.
PassGivesUp ==
    /\ A!QueryFails(Manager) \/ A!PersistFails(Manager)
    /\ PassFails
    /\ Tear

\* The update of step 8 is applied and its answer is lost: the pass has stored what
\* it began, and touches no workload.
PassStoredUnheard ==
    /\ A!PersistAnswerLost(Manager)
    /\ PassFails
    /\ UNCHANGED torn

PatchMisses == PatchNotFound /\ UNCHANGED <<ledger, torn>>

PatchFails == (PatchRejected \/ PatchAnswerLost) /\ UNCHANGED <<ledger, torn>>

ProcessDies ==
    /\ "crash" \in FaultKinds
    /\ IF pc = "wait" THEN UNCHANGED workloads ELSE Crash
    /\ IF At({"wait"}) THEN UNCHANGED ledger ELSE A!Crash(Manager)
    /\ pc # "wait" \/ ~At({"wait"})
    /\ Tear

-----------------------------------------------------------------------------
\* A later budget of the same name would start with a blank status: only one life
\* of a budget is followed.
UserActs ==
    /\ \/ BudgetDelete
       \/ started = Never /\ \E exclusions \in ExclusionSpecs : BudgetCreate(exclusions)
       \/ \E d \in Names : UserDeletes(d) \/ \E n \in Replicas : UserScale(d, n)
    /\ UNCHANGED <<ledger, torn>>

Midnight ==
    /\ A!Tick
    /\ UNCHANGED <<workloads, torn>>

ManagerStep ==
    \/ BeginPass \/ WriteReport \/ EndBeforeAccounting
    \/ \E rate \in A!Samples : Account(rate)
    \/ \E found \in SUBSET Names : DetectAndPersist(found)
    \/ ActOnWorkloads \/ FinishPass
    \/ CleanUp \/ PatchMisses

GovernorNext ==
    \/ ManagerStep
    \/ ReportFails \/ PassGivesUp \/ PassStoredUnheard \/ PatchFails \/ ProcessDies
    \/ UserActs \/ Midnight

GovernorSpec == GovernorInit /\ [][GovernorNext]_all

\* As for the two halves: every return requeues the budget.
GovernorFairSpec == GovernorSpec /\ WF_all(ManagerStep)

-----------------------------------------------------------------------------
(***************************************************************************)
(* Properties.                                                             *)
(***************************************************************************)

\* At one unit a day, every day is accounted exactly once over month boundaries,
\* failing requests and crashes, with one exception: a pass that fails after it
\* began the report of a month and before the new period is stored (step 5, the
\* month boundary, Generate, updateStatus).
LedgerKept == torn \/ A!Conserved

\* A workload comes into the operator's hands only once the status that justifies
\* it is stored, also at a month boundary and with a previous phase that was
\* harsher (steps 6, 8, 9 and 10).
MarkedOnlyOverBudget ==
    [][\A d \in Names : ~Marked(d) /\ Marked(d)' => status.phase \in Acting]_all

\* Once there is a report, `kubectl budget report` never prints one that is older
\* than the month before the period in the status, not even between the creation
\* of the next report and its contents, and between passes it prints exactly that
\* one; with the exception of LedgerKept (reportCmd, Generate, the month boundary).
PrintedReportIsCurrent ==
    \/ torn \/ budget.state # "active"
    \/ \A m \in A!Months : reports[m].state # "full"
    \/ LET latest == A!Month(status.since) - 1
       IN  /\ A!PrintedPeriod >= latest
           /\ At({"wait"}) => A!PrintedPeriod = latest

\* The usage of this period is over the hard limit by now.
Overspent ==
    /\ status.last # Never /\ A!Month(status.since) = A!Month(now)
    /\ A!AtLeast([d \in A!Dims |-> status.acc[d] + now - status.last], 120)

\* From metrics to replicas: in a namespace over the hard limit every running workload
\* that is not excluded is scaled to zero, or the period ends or the user changes the
\* situation first, whatever queries, updates and processes fail on the way; all but
\* one whose ScaleDown a fault has cut short between its patches (steps 4 to 10, in
\* every pass).
OverspendingStops ==
    \A d \in Names :
        Overspent /\ Evading(d) ~> ~(Overspent /\ Evading(d)) \/ CutShort(d)
=============================================================================
