--------------------------- MODULE BudgetReconcile ---------------------------
(***************************************************************************)
(* The accounting half of the governor: what a Reconcile of one            *)
(* NamespaceBudget does to the budget's status, to the monthly CostReports *)
(* and to Slack (steps 1, 4 to 8 and 11 of Reconcile, updateStatus,        *)
(* determinePhase, Generator.Generate).  Several operator processes may    *)
(* run at once, as during a rolling update without leader election; each   *)
(* reads the status through a cache of its own that may lag.               *)
(*                                                                         *)
(* Time is counted in days, several passes may happen on a day and a pass  *)
(* may last over midnight.  Usage is an integer number of units per day,   *)
(* sampled at each pass; a percentage is compared without rounding.        *)
(* Which workloads a pass acts on is the matter of WorkloadScaling, and so *)
(* is the deletion of a budget: here it has its finalizer and stays.       *)
(***************************************************************************)
EXTENDS Integers, FiniteSetsExt

CONSTANTS
    Procs,       \* operator processes
    MonthLen,    \* days in a month
    MaxTime,     \* last day
    Rates,       \* usage samples, units per day
    Monthly,     \* spec.monthly, units per month for each dimension
    WindowOk,    \* does spec.idleThreshold.window parse?
    Webhook,     \* is SlackWebhookURL set?
    CacheLag,    \* may the informer caches lag behind the server?
    FaultKinds,  \* what may fail: a request ("create", "fill", "query", "persist",
                 \* "slack"), the answer to one that was applied, or the process
    MaxFaults,   \* how often
    Never        \* an empty time stamp

ASSUME TimeAssumption == MonthLen \in Nat \ {0} /\ MaxTime \in Nat
ASSUME RatesAssumption == Rates \subseteq Nat
ASSUME NeverAssumption == Never \notin Int
ASSUME FaultsAssumption ==
    /\ FaultKinds \subseteq {"create", "fill", "query", "persist", "answer", "slack",
                            "crash"}
    /\ MaxFaults \in Nat

Dims == {"cpu", "mem"}
ASSUME MonthlyAssumption == Monthly \in [Dims -> Nat]

VARIABLES
    now,      \* the wall clock
    status,   \* the budget's status at the API server
    shown,    \* the same in each process's cache
    reports,  \* the CostReport of each month
    pc,       \* control point of each process's Reconcile
    copy,     \* its local copy of the status
    began,    \* the time it read at its start
    before,   \* previousPhase
    sent,     \* history: the last notice Slack got, and whether it repeated another
    started,  \* history: the day of the earliest persisted pass
    faults    \* faults so far

vars == <<now, status, shown, reports, pc, copy, began, before, sent, started, faults>>
local == <<copy, began, before>>
world == <<now, reports, sent, started>>

Month(t) == t \div MonthLen
Day(t) == (t % MonthLen) + 1
Months == 0..Month(MaxTime)
Time == 0..MaxTime

PhaseNames == {"none", "OK", "Warning", "Exceeded", "Suspended"}
Usage == [Dims -> Nat]
Samples == [Dims -> Rates]   \* SumValues of the two instant queries
Zero == [d \in Dims |-> 0]
Conditions == {"UsageWarning", "BudgetExceeded"}

Status == [phase : PhaseNames, acc : Usage, since : Time \cup {Never},
           last : Time \cup {Never},
           on : [Conditions -> BOOLEAN], at : [Conditions -> Time \cup {Never}]]

Report == [state : {"none", "empty", "full"}, total : Usage]

TypeOK ==
    /\ now \in Time
    /\ status \in Status
    /\ shown \in [Procs -> Status]
    /\ reports \in [Months -> Report]
    /\ pc \in [Procs -> {"wait", "create", "fill", "query", "persist", "act"}]
    /\ copy \in [Procs -> Status]
    /\ began \in [Procs -> Time]
    /\ before \in [Procs -> PhaseNames]
    /\ sent \in [phase : PhaseNames, repeat : BOOLEAN]
    /\ started \in Time \cup {Never}
    /\ faults \in 0..MaxFaults

-----------------------------------------------------------------------------
(***************************************************************************)
(* Pure parts.                                                             *)
(***************************************************************************)

\* Step 6: the usage of some dimension with a budget is at least k percent.
AtLeast(acc, k) == \E d \in Dims : Monthly[d] > 0 /\ acc[d] * 100 >= k * Monthly[d]

\* Mutant: the phase follows the average of the two dimensions.
PhaseOfAverage(acc) ==
    IF (acc["cpu"] + acc["mem"]) * 100 >= 100 * (Monthly["cpu"] + Monthly["mem"])
    THEN "Exceeded" ELSE "OK"

determinePhase(acc) ==
    CASE AtLeast(acc, 120) -> "Suspended"
      [] AtLeast(acc, 100) /\ ~AtLeast(acc, 120) -> "Exceeded"
      [] AtLeast(acc, 80) /\ ~AtLeast(acc, 100) -> "Warning"
      [] OTHER -> "OK"

\* Mutant: the transition time is refreshed with every update.
ConditionAlwaysStamped(s, c, on, t) ==
    [s EXCEPT !.on[c] = on, !.at[c] = t]

\* A condition keeps its transition time unless its status changes or it is new.
setCondition(s, c, on, t) ==
    [s EXCEPT !.on[c] = on,
              !.at[c] = IF @ # Never /\ s.on[c] = on THEN @ ELSE t]

\* What updateStatus sets, before it sends the status off.
WithConditions(s, t) ==
    LET warned == setCondition(s, "UsageWarning", AtLeast(s.acc, 80), t)
    IN  setCondition(warned, "BudgetExceeded", AtLeast(s.acc, 100), t)

\* Mutant: the operands of now.Sub(lastReconcile) are swapped.
AccumulateBackwards(s, rate, t) ==
    LET elapsed == IF s.last = Never THEN 0 ELSE s.last - t
    IN  [s EXCEPT !.acc = [d \in Dims |-> @[d] + rate[d] * elapsed], !.last = t]

\* Mutant: the stored total fails to parse and counts as zero.
AccumulateFromZero(s, rate, t) ==
    LET elapsed == IF s.last = Never THEN 0 ELSE t - s.last
    IN  [s EXCEPT !.acc = [d \in Dims |-> rate[d] * elapsed], !.last = t]

\* Step 5: usage since the last pass, at the rate just sampled.
Accumulate(s, rate, t) ==
    LET elapsed == IF s.last = Never THEN 0 ELSE t - s.last
    IN  [s EXCEPT !.acc = [d \in Dims |-> @[d] + rate[d] * elapsed], !.last = t]

\* Mutant: a new period starts with the old total.
StartPeriodKeepingTotal(s, t) == [s EXCEPT !.since = t]

\* The accumulation starts afresh.
StartPeriod(s, t) == [s EXCEPT !.acc = Zero, !.since = t]

\* The gate of the monthly report.
RolloverDue(s, t) == Day(t) = 1 /\ Month(s.since) # Month(t)

-----------------------------------------------------------------------------
(***************************************************************************)
(* kubectl budget report: the first of the CostReports, sorted by the      *)
(* period in their status, the latest first.  A report that was created    *)
(* and not filled has an empty period, which sorts behind every other.     *)
(***************************************************************************)
NoPeriod == -1

Period(m) == IF reports[m].state = "full" THEN m ELSE NoPeriod

\* Mutant: the reports are sorted by name, which every one has.
PrintedByName ==
    LET existing == {m \in Months : reports[m].state # "none"}
    IN  IF existing = {} THEN NoPeriod ELSE Period(Max(existing))

\* The period it prints; NoPeriod also if there is no report at all.
PrintedPeriod == Max({NoPeriod} \cup {Period(m) : m \in Months})

-----------------------------------------------------------------------------
BlankStatus ==
    [phase |-> "none", acc |-> Zero, since |-> Never, last |-> Never,
     on |-> [c \in Conditions |-> FALSE], at |-> [c \in Conditions |-> Never]]

Init ==
    /\ now \in 0..(MonthLen - 1) \cap Time
    /\ status = BlankStatus
    /\ shown = [p \in Procs |-> BlankStatus]
    /\ reports = [m \in Months |-> [state |-> "none", total |-> Zero]]
    /\ pc = [p \in Procs |-> "wait"]
    /\ copy = [p \in Procs |-> BlankStatus]
    /\ began = [p \in Procs |-> 0]
    /\ before = [p \in Procs |-> "none"]
    /\ sent = [phase |-> "none", repeat |-> FALSE]
    /\ started = Never
    /\ faults = 0

Goto(p, point) == pc' = [pc EXCEPT ![p] = point]

\* Reconcile returns; what it had in memory is gone.
Return(p) ==
    /\ Goto(p, "wait")
    /\ copy' = [copy EXCEPT ![p] = BlankStatus]
    /\ began' = [began EXCEPT ![p] = 0]
    /\ before' = [before EXCEPT ![p] = "none"]

\* Steps 1 and the month boundary, up to the Generator's existence check, which a
\* lagging cache may fail to notice.  An existing report counts as generated, so
\* the period starts afresh, in memory.
Fetch(p, notice) ==
    /\ pc[p] = "wait"
    /\ LET read == IF shown[p].since = Never THEN [shown[p] EXCEPT !.since = now]
                                             ELSE shown[p]
           due == RolloverDue(read, now)
           reported == due /\ reports[Month(now) - 1].state # "none" /\ notice
       IN  /\ ~notice => CacheLag /\ due
           /\ Goto(p, IF due /\ ~reported THEN "create" ELSE "query")
           /\ copy' = [copy EXCEPT ![p] = IF reported THEN StartPeriod(read, now) ELSE read]
    /\ began' = [began EXCEPT ![p] = now]
    /\ before' = [before EXCEPT ![p] = shown[p].phase]
    /\ UNCHANGED <<world, status, shown, faults>>

\* Mutant: the report is created or replaced.
CreateOrReplace(p) ==
    /\ pc[p] = "create"
    /\ reports' = [reports EXCEPT ![Month(began[p]) - 1].state = "empty"]
    /\ Goto(p, "fill")
    /\ UNCHANGED <<now, status, shown, local, sent, started, faults>>

\* Generate creates the CostReport, without its contents.
CreateReport(p) ==
    /\ pc[p] = "create"
    /\ reports[Month(began[p]) - 1].state = "none"
    /\ reports' = [reports EXCEPT ![Month(began[p]) - 1].state = "empty"]
    /\ Goto(p, "fill")
    /\ UNCHANGED <<now, status, shown, local, sent, started, faults>>

\* Generate fails before the CostReport exists: its range query did, the create
\* did, or another process created the report meanwhile.  The period goes on.
CreateFails(p) ==
    /\ pc[p] = "create"
    /\ \/ reports[Month(began[p]) - 1].state # "none" /\ UNCHANGED faults
       \/ "create" \in FaultKinds /\ faults < MaxFaults /\ faults' = faults + 1
    /\ Goto(p, "query")
    /\ UNCHANGED <<world, status, shown, local>>

\* The report is created and the answer is lost: to Reconcile Generate has failed,
\* and the report stays empty.
CreateAnswerLost(p) ==
    /\ pc[p] = "create"
    /\ reports[Month(began[p]) - 1].state = "none"
    /\ "answer" \in FaultKinds /\ faults < MaxFaults /\ faults' = faults + 1
    /\ reports' = [reports EXCEPT ![Month(began[p]) - 1].state = "empty"]
    /\ Goto(p, "query")
    /\ UNCHANGED <<now, status, shown, local, sent, started>>

\* Mutant: the report's contents are left for later.
FillNothing(p) ==
    /\ pc[p] = "fill"
    /\ copy' = [copy EXCEPT ![p] = StartPeriod(@, began[p])]
    /\ Goto(p, "query")
    /\ UNCHANGED <<now, status, shown, reports, began, before, sent, started, faults>>

\* The contents follow with an update of the status subresource, then the period
\* starts afresh, in memory.
FillReport(p) ==
    /\ pc[p] = "fill"
    /\ reports' = [reports EXCEPT ![Month(began[p]) - 1] =
                     [state |-> "full", total |-> copy[p].acc]]
    /\ copy' = [copy EXCEPT ![p] = StartPeriod(@, began[p])]
    /\ Goto(p, "query")
    /\ UNCHANGED <<now, status, shown, began, before, sent, started, faults>>

\* That update fails; Reconcile logs it and the period goes on.
FillFails(p) ==
    /\ pc[p] = "fill"
    /\ "fill" \in FaultKinds /\ faults < MaxFaults /\ faults' = faults + 1
    /\ Goto(p, "query")
    /\ UNCHANGED <<world, status, shown, local>>

\* The contents are written and the answer is lost: the report is complete and the
\* period goes on.
FillAnswerLost(p) ==
    /\ pc[p] = "fill"
    /\ "answer" \in FaultKinds /\ faults < MaxFaults /\ faults' = faults + 1
    /\ reports' = [reports EXCEPT ![Month(began[p]) - 1] =
                     [state |-> "full", total |-> copy[p].acc]]
    /\ Goto(p, "query")
    /\ UNCHANGED <<now, status, shown, local, sent, started>>

\* Step 4 fails: come back in a minute, nothing is persisted.
QueryFails(p) ==
    /\ pc[p] = "query"
    /\ "query" \in FaultKinds /\ faults < MaxFaults /\ faults' = faults + 1
    /\ Return(p)
    /\ UNCHANGED <<world, status, shown>>

\* Steps 4 to 7.  In the phases that look for idle workloads a window that does
\* not parse ends the pass with an error.
Account(p, rate) ==
    /\ pc[p] = "query"
    /\ LET after == Accumulate(copy[p], rate, now)
           phase == determinePhase(after.acc)
       IN  IF phase \in {"Exceeded", "Suspended"} /\ ~WindowOk
           THEN Return(p)
           ELSE /\ Goto(p, "persist")
                /\ copy' = [copy EXCEPT ![p] =
                              WithConditions([after EXCEPT !.phase = phase], now)]
                /\ UNCHANGED <<began, before>>
    /\ UNCHANGED <<world, status, shown, faults>>

\* The history variable started, after a pass of day t is persisted.
Earliest(t) == IF started = Never \/ t < started THEN t ELSE started

\* Mutant: the update adds this pass's total to the one it finds stored.
PersistOntoLatest(p) ==
    /\ pc[p] = "persist" /\ shown[p] = status
    /\ LET merged == [copy[p] EXCEPT !.acc = [d \in Dims |-> @[d] + status.acc[d]]]
       IN  /\ status' = merged
           /\ shown' = IF CacheLag THEN shown ELSE [q \in Procs |-> merged]
    /\ started' = Earliest(copy[p].last)
    /\ Goto(p, "act")
    /\ UNCHANGED <<now, reports, local, sent, faults>>

\* Step 8: updateStatus puts the whole computed status on a fresh read of the
\* object, and the server takes it only if that read was not stale.  Conflicts
\* are retried, so the last writer wins.
Persist(p) ==
    /\ pc[p] = "persist" /\ shown[p] = status
    /\ status' = copy[p]
    /\ shown' = IF CacheLag THEN shown ELSE [q \in Procs |-> copy[p]]
    /\ started' = Earliest(copy[p].last)
    /\ Goto(p, "act")
    /\ UNCHANGED <<now, reports, local, sent, faults>>

\* The update fails, or the cache stays stale for all of the retries.
PersistFails(p) ==
    /\ pc[p] = "persist"
    /\ \/ shown[p] # status /\ UNCHANGED faults
       \/ "persist" \in FaultKinds /\ faults < MaxFaults /\ faults' = faults + 1
    /\ Return(p)
    /\ UNCHANGED <<world, status, shown>>

\* The status is stored and the answer is lost: Reconcile returns the error, and
\* steps 9 to 11 are skipped.
PersistAnswerLost(p) ==
    /\ pc[p] = "persist" /\ shown[p] = status
    /\ "answer" \in FaultKinds /\ faults < MaxFaults /\ faults' = faults + 1
    /\ status' = copy[p]
    /\ shown' = IF CacheLag THEN shown ELSE [q \in Procs |-> copy[p]]
    /\ started' = Earliest(copy[p].last)
    /\ Return(p)
    /\ UNCHANGED <<now, reports, sent>>

\* The message Slack got; its text is left out.
Notice(phase) == [phase |-> phase, repeat |-> phase = sent.phase]

\* Mutant: every pass notifies.
FinishAlwaysNotifying(p) ==
    /\ pc[p] = "act"
    /\ sent' = IF Webhook THEN Notice(copy[p].phase) ELSE sent
    /\ Return(p)
    /\ UNCHANGED <<now, status, shown, reports, started, faults>>

\* Mutant: only the phases that act on workloads are notified.
FinishNotifyingActions(p) ==
    /\ pc[p] = "act"
    /\ sent' = IF /\ Webhook /\ before[p] # copy[p].phase
                  /\ copy[p].phase \in {"Exceeded", "Suspended"}
               THEN Notice(copy[p].phase) ELSE sent
    /\ Return(p)
    /\ UNCHANGED <<now, status, shown, reports, started, faults>>

\* Steps 9 to 11: after the workloads, Slack is told of a change of phase.
Finish(p) ==
    /\ pc[p] = "act"
    /\ sent' = IF Webhook /\ before[p] # copy[p].phase THEN Notice(copy[p].phase) ELSE sent
    /\ Return(p)
    /\ UNCHANGED <<now, status, shown, reports, started, faults>>

\* SendSlack fails: it is logged, nothing is tried again.
FinishUntold(p) ==
    /\ pc[p] = "act"
    /\ Webhook /\ before[p] # copy[p].phase
    /\ "slack" \in FaultKinds /\ faults < MaxFaults /\ faults' = faults + 1
    /\ Return(p)
    /\ UNCHANGED <<world, status, shown>>

\* The process dies; its successor starts with a fresh cache.
Crash(p) ==
    /\ pc[p] # "wait"
    /\ "crash" \in FaultKinds /\ faults < MaxFaults /\ faults' = faults + 1
    /\ Return(p)
    /\ shown' = [shown EXCEPT ![p] = status]
    /\ UNCHANGED <<world, status>>

CacheSync(p) ==
    /\ CacheLag /\ shown[p] # status
    /\ shown' = [shown EXCEPT ![p] = status]
    /\ UNCHANGED <<world, status, pc, local, faults>>

\* Midnight, whatever the processes are doing.
Tick ==
    /\ now < MaxTime
    /\ now' = now + 1
    /\ UNCHANGED <<status, shown, reports, pc, local, sent, started, faults>>

ProcStep(p) ==
    \/ \E notice \in BOOLEAN : Fetch(p, notice)
    \/ CreateReport(p) \/ CreateFails(p) \/ FillReport(p)
    \/ \E rate \in Samples : Account(p, rate)
    \/ Persist(p) \/ Finish(p)

AnswerLost(p) == CreateAnswerLost(p) \/ FillAnswerLost(p) \/ PersistAnswerLost(p)

FaultStep(p) ==
    \/ FillFails(p) \/ QueryFails(p) \/ PersistFails(p) \/ AnswerLost(p)
    \/ FinishUntold(p) \/ Crash(p)

Next ==
    \/ \E p \in Procs : ProcStep(p) \/ FaultStep(p) \/ CacheSync(p)
    \/ Tick

Spec == Init /\ [][Next]_vars

(***************************************************************************)
(* Every return requeues the budget, at the latest after a minute, and     *)
(* watches deliver: a pass goes on and comes back, and caches catch up.    *)
(***************************************************************************)
FairSpec ==
    /\ Spec
    /\ \A p \in Procs : WF_vars(ProcStep(p)) /\ WF_vars(CacheSync(p))

-----------------------------------------------------------------------------
(***************************************************************************)
(* Properties.                                                             *)
(***************************************************************************)

\* Months whose report is final as far as the status is concerned: the running
\* total started after them.
ClosedMonths == {m \in Months : status.since # Never /\ m < Month(status.since)}

\* With a usage of one unit a day in each dimension, every day between the first
\* pass and the last is accounted exactly once: in the report of a closed month
\* or in the running total (step 5, the month boundary, Generate).
Conserved ==
    status.last # Never => \A d \in Dims :
        status.acc[d] + MapThenSumSet(LAMBDA m : reports[m].total[d], ClosedMonths)
            = status.last - started

\* At one unit a day, no day is in the running total twice, whatever processes
\* overlap, read stale copies and overwrite each other's status (updateStatus).
ChargedOnce ==
    status.last # Never => \A d \in Dims : status.acc[d] <= status.last - started

\* A report that has its contents never changes again, whichever processes race
\* to generate it (Generate's existence check and Create).
ReportFinal ==
    [][\A m \in Months : reports[m].state = "full" => reports'[m] = reports[m]]_vars

\* The running total is dropped only when the report of the month before has its
\* contents (namespacebudget_controller.go: "Reset accumulation only after the
\* report was successfully generated").  It needs that no report is left empty: not
\* by a fill that fails, and not by a Create whose answer is lost.
ResetOnlyAfterReport ==
    [][status.since # Never /\ status'.since # status.since
         => reports[Month(status'.since) - 1].state = "full"]_vars

Rank == [none |-> 0, OK |-> 1, Warning |-> 2, Exceeded |-> 3, Suspended |-> 4]

\* Within a period the phase only climbs: enforcement is not withdrawn by a later
\* sample (steps 5 and 6).
PhaseOnlyClimbs ==
    [][status'.since = status.since => Rank[status'.phase] >= Rank[status.phase]]_vars

\* A condition's transition time moves only with its status (setCondition;
\* docs/design.md, Notifications).
TransitionTimesHonest ==
    [][\A c \in Conditions : status.at[c] # Never /\ status'.at[c] # status.at[c]
         => status'.on[c] # status.on[c]]_vars

\* Slack is not told the same phase twice in a row (step 11).  A status that is
\* stored and not told, because the answer to the update, the message or the process
\* is lost, can break it: a later pass goes back to the phase told before.
NoRepeatedNotice == ~sent.repeat

\* Between passes Slack has been told the phase the status shows: no change of phase
\* is swallowed, or announced and not stored, where a query fails or the update is
\* not applied (steps 8 and 11).  A stored status that is not told, as for
\* NoRepeatedNotice, is not made up for.
NoticeInStep ==
    Webhook /\ (\A p \in Procs : pc[p] = "wait") => sent.phase = status.phase

\* A pass that has persisted its status has moved the running total to the month
\* the pass began in, whichever passes before it failed half-way (the comment at
\* the month boundary: "This also allows a missed month-boundary reconciliation
\* to catch up"; docs/design.md: "The accumulation resets at the start of a new
\* month").
BoundaryCaughtUp ==
    \A p \in Procs : pc[p] = "act" => Month(copy[p].since) = Month(began[p])

\* At one unit a day, the total of this period is over the budget by now.
Overrun ==
    /\ status.last # Never /\ Month(status.since) = Month(now)
    /\ AtLeast([d \in Dims |-> status.acc[d] + now - status.last], 100)

\* An overrun of either dimension becomes visible in the phase, or the month ends
\* first (steps 4 to 8 under failing requests).  It needs an idle window that parses,
\* although docs/cost-model.md says that "Idle detection is separate from accounting".
OverrunReported == Overrun ~> ~Overrun \/ status.phase \in {"Exceeded", "Suspended"}
=============================================================================
