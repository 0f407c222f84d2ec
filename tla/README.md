# Verification of namespace-cost-governor

TLA+ models of the operator's own logic, the TLC configurations that check them
on small instances, and TLAPS proofs of the properties that hold for every
instance. Everything is read off the Go sources under `src/`; the documents are
used only to state what the code is meant to do.

## 1. The system

The operator watches `NamespaceBudget` objects. About once a minute it
reconciles each of them: it samples CPU and memory usage from Prometheus, adds
usage times elapsed time to a running total in the status, derives a phase
(`OK`, `Warning` at 80 %, `Exceeded` at 100 %, `Suspended` at 120 %), scales idle
Deployments to zero when exceeded and all of them when suspended, tells Slack of
a change of phase, and on the first day of a month writes a `CostReport`. Before
it scales a Deployment down it records the replica count in annotations; on
deletion of the budget a finalizer restores what was scaled down. A kubectl
plugin restores the workloads of a namespace by hand.

| Component | State | Operations | Correct when |
|---|---|---|---|
| Reconciler, accounting (`namespacebudget_controller.go`, steps 1, 4-8, 11) | `status` at the API server; an in-memory copy during a pass | month boundary, sample, accumulate, `determinePhase`, `updateStatus`, notify | usage is counted once; a period ends with its report; phase, conditions and notices follow the totals |
| Reconciler, enforcement (steps 2, 3, 7-10, `cleanup`) | finalizer; annotations and replicas of Deployments | detect idle, filter, scale down, suspend all, clean up | exclusions are honoured; nothing is left scaled down after deletion; deletion completes |
| Actions (`scaledown.go`, `suspend.go`) | annotations, `spec.replicas` | `ScaleDown`, `Restore` (two patches each), `SuspendAll` | the original count is never lost, at any crash point |
| Report generator (`generator.go`) | `CostReport` objects | existence check, usage per workload, ranking, create, fill | one report per month, final, with the month's totals and shares that add up |
| Plugin report (`report.go`) | none | list, sort by period, print the first | prints the latest complete report |
| Idle detector (`detector.go`), idle list (`toIdleWorkloadStatus`) | `status.idleWorkloads` | query, average, threshold; exclusion predicates | finds workloads below the threshold; excludes what the spec says |
| Plugin restore (`restore.go`) | a listed copy | list, one patch per Deployment | brings back what the operator scaled down |
| Slack (`notify.go`), Prometheus client (`prometheus.go`) | none | one HTTP request | best effort; errors are reported to the caller |
| CostReport reconciler, status command, wiring, manifests | none | no-op, printing, configuration | not modelled |

How they interact. All state is in API objects. The reconciler *reads through an
informer cache* that lags behind the server and *writes to the server*. Merge
patches carry no resourceVersion and only the fields that differ from the local
copy, so they land on whatever the object has become. `Update` of a budget
carries one and is refused when stale; `updateStatus` retries on conflict and
then replaces the whole status. The plugin and users change the same objects at
any time. controller-runtime runs one Reconcile per budget and process; without
leader election (the flag defaults to off), or with an old leader that has not
noticed, two processes may overlap.

What is hard: crashes and lost answers between the two patches of `ScaleDown` and
`Restore`; users and the plugin acting between them; stale reads; the gap between
a report's creation, its contents and the reset of the total; passes that end
half-way; several processes. `PROJECT.json` lists each hazard at its line.

## 2. Modules

| Module | Models |
|---|---|
| `Deployment` | a Deployment, the operator's annotations, merge patches, the forms the handlers patch towards, the exclusion predicates |
| `Custody` | the promise to the owners of Deployments, as an abstract specification: what is held, stopped and given back, and when |
| `WorkloadScaling` | enforcement, finalizer, plugin, users, cache, faults; extends `Deployment` and implements `Custody` |
| `BudgetReconcile` | accounting, month boundary, report generation, conditions, notices, several processes |
| `IdleTracking` | idle detection (averages, threshold, pod names) and `status.idleWorkloads` over a sequence of passes |
| `CostReport` | the contents of a report: usage per workload, ranking, shares; extends `IdleTracking` |
| `Governor` | one whole Reconcile: `BudgetReconcile` and `WorkloadScaling` composed |
| `MCWorkloadScaling`, `MCBudgetReconcile`, `MCIdleTracking`, `MCGovernor` | instances for TLC |
| `WorkloadScalingProofs`, `RecoveryProofs`, `CustodyProofs` | theorems about `WorkloadScaling`; each extends the one before |
| `BudgetProofs`, `SignalProofs` | theorems about `BudgetReconcile`: all processes, and one process at a time |
| `SumProofs` | lemmas on sums over finite sets, by induction |
| `IdleProofs` | theorems about `IdleTracking` and `CostReport` |
| `GovernorProofs` | theorems about the composition; extends `CustodyProofs` and instantiates `SignalProofs` |

### WorkloadScaling

`api` and `cache` hold the Deployments at the server and in the informer cache,
`budget` and `seen` the NamespaceBudget. `pc`, `stage`, `phase`, `excl`, `todo` are
the locals of the running Reconcile, `cur` and `base` those of the `ScaleDown` or
`Restore` call in hand (its copy of the object), `listed` the plugin's list.
`want` and `shield` are history variables: the count the user last asked for, and
the workloads that have been excluded ever since the pass read its budget.

Every API request is a step: `StartPass`, `Assess` (the pass comes to some phase of
`Phases`), `DetectIdle` (which workloads are
found idle is arbitrary), `ScaleDownStarts`/`ScaleDownSkips`, `Annotate`,
`ZeroReplicas`, `SuspendAll`, `PassEnds`; `RegisterFinalizer`, `StartCleanup`,
`RestoreStarts`/`RestoreSkips`/`RestoreFails`, `RestoreReplicas`,
`RemoveAnnotations`, `RemoveFinalizer`. Any patch may find the object gone, be
refused, or be applied and its answer lost; the process may crash anywhere. A
failed patch is logged by `ScaleDown`'s callers and aborts cleanup.

Abstractions. The timestamp and reason annotations are not kept apart from the
other two. A label set is an opaque value, a selector the set of label sets it
matches. One budget per namespace. An edit of the budget is an edit of its
exclusions; a budget edited and edited back counts as unedited for the
resourceVersion check (the code is stricter).

`Custody` says the same in six variables and without patches, copies or caches:
a Deployment is held or not, running at some size, wanted at some size, and the
namespace is governed or not. The refinement mapping reads `held` off the mark,
`running` off `spec.replicas` and `governed` off the finalizer, so every patch is
one step of `Custody` or none, and a crash is none.

### BudgetReconcile

`status` is the stored status (phase, totals per dimension, start of the period,
last pass, two conditions with transition times), `shown` each process's cached
version, `copy` its in-memory copy, `began` and `before` what it read at its start.
`reports` has one report per month: none, created but empty, or full.
`PrintedPeriod` is what `kubectl budget report` would print at this moment.
`sent` and `started` are history variables: the last notice Slack got, and the day the
accounting began.

A pass is `Fetch` (with the month boundary and the generator's existence check),
`CreateReport`/`CreateFails`, `FillReport`/`FillFails`, `Account`/`QueryFails`,
`Persist`/`PersistFails`, `Finish`/`FinishUntold`. A request that is applied while its
answer is lost is a failure to Reconcile and a change at the server:
`CreateAnswerLost`, `FillAnswerLost`, `PersistAnswerLost`. `FinishUntold` is a message
that does not reach Slack. `Tick` is midnight and may fall anywhere in a pass.
`FaultKinds` says which of these may happen (`"create"`, `"fill"`, `"query"`,
`"persist"`, `"answer"`, `"slack"`, `"crash"`).

Abstractions. Time in days, a few days to a month; usage in whole units; floating
point, `%.6f` formatting and truncated seconds are left out (rounding in
particular is not examined). The display fields of the status are left out.
Deletion of the budget belongs to `WorkloadScaling` and `Governor`. The generator's Prometheus
query and its `Create` fail together as `CreateFails`.

### IdleTracking

`samples` is what Prometheus would answer (each pod's samples), `exist` the
Deployments, `idle` the list in the status with each entry's `idleSince`, `busy` a
history variable: the last stored detection that did not list the workload. A
pass either detects, filters and stores (`PassDetects`) or leaves the list alone
(`PassKeepsList`: a phase below `Exceeded`, a failed query, a failed update).
Names are sequences of their dash-separated parts, so that `PodToDeployment` strips
parts as the code does.

Abstractions. Values are integers and means exact; `Exempt` stands for the
exclusions, which `Deployment` models; the window does not change between passes;
the two `Get`s of a workload in one pass agree. `Readings` drops the points of an
answer that do not parse, as the client does; it is a function on the positions of
the others, since only their sum and their number matter. Pods of other workload kinds
are there too, under any names. `ForeignNamesApart` says that none of them is named like
a pod of a Deployment: true of the instance of `IdleDetection`, a hypothesis of two
theorems, and false where a StatefulSet pod `db-main-0` counts for a Deployment `db`.

### CostReport

Adds to `IdleTracking` the report made at a month boundary: `Generate` takes the
workloads of the CPU answer, attaches memory by name, ranks, cuts and computes
shares of a total. The workloads come out of a Go map and `sort.Slice` is not stable,
so a ranking is the beginning of *any* sorted order of them (`Sortings`,
`Rankings`). `report` holds the contents until the next step. Prices and suspension
events are left out, and the memory answer is a constant. What the code computes for a
workload is a mean over the points of all its pods times the hours, not what the
workload used; no property takes the one for the other.

### Governor

Extends `WorkloadScaling` and instantiates `BudgetReconcile` for one process
(`A`, with `step` for its control point). Its actions are conjunctions of an action
of each half where the code does both between two requests: `BeginPass` (`Fetch`
and, for an active budget, `StartPass`), `Account` (`Account` and `Assess` with the
phase just computed), `DetectAndPersist`, `FinishPass`, `PassGivesUp`,
`PassStoredUnheard` (the status is stored and the pass ends all the same),
`ProcessDies`; the others are steps of one half, `ActOnWorkloads` among them (steps 9
and 10). `EndBeforeAccounting` is the
deletion or the registration of the finalizer, which come after the month
boundary in the code. `torn` is a history variable: whether some pass failed between
a month's report and the stored reset. The workload names of a Slack message are left
out. The cache does not lag, the idle window parses, exclusions are not edited, and one
life of one budget is followed.

## 3. Runs

Passing runs:

| Run | Instance | Shows |
|---|---|---|
| `ScalingCustody` | 2 Deployments, up to 2 replicas, exclusions by name and label, edits of the budget, 2 faults | `CustodyKept`: no replica is lost or invented at any crash point; `NothingLeftBehind`: no mark outlives the finalizer; `CustodyRefined`: every step is a step of `Custody` or none |
| `ScalingRaces` | 2 Deployments, users scaling and relabelling at any time, 1 fault, fair | `Recoverable`, `MarkedIsRestorable`, `DeletionCompletes`; `HardLimitReached`: workloads are brought to zero, except one that is left marked and running (`CutShort`) by a fault between the patches or by a user who scales it up again |
| `ScalingShield` | 1 Deployment, lagging cache, plugin, tampering, re-creation, edited exclusions | `TypeOK`: a call has what it works on, a Restore a usable record; `ShieldedNeverInHand`: what the controller's cache shows as excluded throughout a pass is not handed to `ScaleDown` |
| `IdleDetection` | Deployments `web` and `web-api` with 2 and 1 pods and a StatefulSet pod `db-0`, up to 2 points each, one unreadable, 4 passes | `TypeOK`; `IdleOnOwnEvidence`, `OffListForAReason`: pods count for their own Deployment, listing and passing over have a reason; `IdleSinceHonest`; `SharesAddUp` for the report |
| `Governor` | 1 Deployment, 2 month boundaries, users scaling and deleting, any one fault or lost answer, fair | `GovernorTypeOK`; `LedgerKept`: each day is counted once unless a pass was torn at the boundary; `MarkedOnlyOverBudget`; `PrintedReportIsCurrent`; `OverspendingStops`: from usage to zero replicas, with the exception of `HardLimitReached` |
| `BudgetOverlap` | 2 processes with lagging caches, a crash, a failed fill, a lost answer or a lost message | `TypeOK`, `ChargedOnce`, `ReportFinal` |
| `BudgetSignals` | all phases, refused queries, updates and report creations, 2 faults, fair | `NoRepeatedNotice`, `NoticeInStep`: each change of phase is told once; `PhaseOnlyClimbs`, `TransitionTimesHonest`, `ResetOnlyAfterReport`, `OverrunReported` |

Runs that show a disagreement between the code and what it says of itself:

| Run | Violates | What happens |
|---|---|---|
| `ScalingCrashGap` | `ScaleDownCompletes` | crash after the annotation patch: every later pass skips the marked Deployment, which keeps running |
| `ScalingPluginRace` | `Recoverable` | the plugin removes the annotations between the two patches of `ScaleDown`; the second then zeroes a Deployment without a record |
| `BudgetLostTotals` | `ResetOnlyAfterReport` | filling the report fails; the retry takes the empty report for a finished one and drops the totals |
| `BudgetReportedTwice` | `Conserved` | a query fails after the report was written; the reset is lost and, past day 1, the reported usage stays in the new period |
| `BudgetMissedBoundary` | `BoundaryCaughtUp` | no pass on day 1: the period runs on for another month |

`PROJECT.json` quotes the line of the repository that each of them contradicts.

Where a property needs an assumption, the run states it through a constant, and TLC
shows the property violated when the constant is changed. These changes have no run of
their own:

| Change | Violates | What happens |
|---|---|---|
| `CacheLag = TRUE` | `Recoverable` | Restore works on a cached copy from between `ScaleDown`'s patches: its first patch carries no replicas, its second removes the record of a Deployment at zero |
| `CacheLag = TRUE` | `NothingLeftBehind` | cleanup lists a cache that does not show the last mark, and the finalizer goes |
| `CacheLag = TRUE` | `NoRepeatedNotice` | a pass starts before the watch delivered the last status, and tells Slack the same phase again (`docs/design.md:45`: "only when the phase changes") |
| `WindowOk = FALSE` | `OverrunReported` | an idle window that does not parse ends every pass of an exceeded budget before its status is stored (`docs/cost-model.md:61`: "Idle detection is separate from accounting") |
| a pod `db-main-0` of a StatefulSet beside a Deployment `db` | `IdleOnOwnEvidence` | an idle pod of the StatefulSet puts the busy Deployment on the idle list (`docs/design.md:56`: "Other workload kinds are ignored rather than inferred") |

What the notices do not survive. An update of the status that is applied while its
answer is lost, a message Slack does not take, and a crash between the update and the
message each swallow a notice for good: the next pass sees no change of phase. A phase
that came and went unheard may then make two equal notices in a row. No document
promises every notice, so there is no run against it; `BudgetSignals` leaves these
faults out and the theorems exclude them by name (`Acknowledged`, section 4). In the
same way a report created while its answer is lost is an empty report, as in
`BudgetLostTotals`, which `Filled` excludes.

Disagreements with the documents that need no model to see, and have no run:
`cpuPercent` is compared with cores and not with a percentage of requests
(`docs/cost-model.md:57`); a report's usage per workload is a mean over pods, so a
Deployment of n replicas is shown and ranked at an n-th of its usage
(`generator.go:157`, `docs/api-reference.md:67`: "ranked by CPU usage");
`spec.actions` is never read; after an outage the whole gap is charged
(`docs/design.md:54` says it is not, and `LedgerKept` asks for it, as the
code is written); steps 9 and 10 act in every pass of a phase, where `README.md:171`
says that actions are not repeated on every tick (`HardLimitReached` rests on the
repetition); exclusions by label hold only of what the cache shows, where
`README.md:184` says that an excluded Deployment is never touched. What was scaled down
stays at zero when a new month begins: nothing but deletion of the budget or the plugin
restores it.

Bounds. Two Deployments are enough for one step of a loop to fail while another
succeeds; two replica counts besides zero are needed only where a wrong count
matters (`ScalingCustody`); one or two faults put a crash at each point and a
second one into its recovery. Months of two days have a first day and
another day, which is all the boundary logic tells apart; `BudgetSignals` has
six so that one unit a day passes through every phase. Two processes are enough for
one to overwrite the other. In `IdleDetection` one name extends the other, one
Deployment has two pods whose numbers of samples may differ, and the levels lie on
either side of the threshold; four passes with a window of two make a spell end
and another begin; three workloads compete for a ranking of two. In `Governor`
months have two days and the CPU budget is one unit, so that a period is `Exceeded`
on its second day and `Suspended` on its third, which exists because the day of the
boundary is charged to the new period; one Deployment keeps the product of the two
halves small, and `ScalingCustody` has two. Its budget may be deleted for good, so
it may stop and deadlock is not checked. `BudgetOverlap` uses the symmetry of the processes,
which no definition names; it checks no liveness.

Fairness. `FairSpec` assumes that the controller keeps taking steps and that each
cached object is eventually refreshed. controller-runtime requeues after every
return (a minute, or a back-off after an error) and re-establishes watches. Faults
are bounded, users and the plugin are under no obligation, time need not pass.

Each property of a passing run has a mutant, an operator next to the definition
it would replace, that the property catches.

## 4. Proofs

All theorems hold for any number of Deployments, pods, replicas, labels,
exclusions, points, processes and faults and any length of month, given the named
assumptions on the constants (sentinels differ from real values, bounds are
naturals, pods are named as the Deployment controller names them). Hypotheses
that restrict the environment are part of the theorem's statement; each is there
because a run, or one of the changes and faults listed in section 3, shows the property false
without it:

| Hypothesis | Means | Without it |
|---|---|---|
| `~CacheLag` | reads show the last write | `Recoverable`, `NothingLeftBehind`, `NoRepeatedNotice` fail (section 3) |
| `Undisturbed` | no lag, no plugin, users do not scale what the operator holds or is patching, edit its annotations or re-create a name they deleted | `CustodyKept` and `Custody` speak of the replicas users asked for, which such an edit changes in mid-call; `ScalingPluginRace` |
| `Alone` | one process, no lag | two processes overwrite each other's phase and conditions |
| `Acknowledged` | no applied request whose answer is lost, no message Slack does not take, no crash | each of them swallows a notice (section 3) |
| `Filled` | no report left without its contents: no failing fill, no lost answer, no crash | `BudgetLostTotals` |
| `ForeignNamesApart` | no pod of another kind is named like a pod of a Deployment | `IdleOnOwnEvidence` fails (section 3) |
| `Rates \subseteq {0, 1}`, `{1}` | the unit of usage | the formula counts days; it says nothing for other rates |

### Enforcement

* `TypeCorrect` (`WorkloadScalingProofs`). `TypeOK` is inductive because it ties
  the control point to the call in hand: in a patching state there is a current
  workload and a copy, and a restoring call has a usable record.
* `FinalizerGivesBack` (same module; no lag).
  `NothingLeftBehind` is strengthened to `CleanupInv`: during cleanup every marked
  Deployment is still in `todo` or in hand, and outside enforcement of an active
  or deleting budget nothing is marked. `InSync` (cache equals server) is shown
  first.
* `ExclusionsHonoured` (same module). Exclusion is meant as the controller's cache shows
  it, and the theorem holds however far the cache lags. `ShieldInv`: shielded workloads
  are neither in `todo` nor in hand while enforcing; merge patches never touch labels.
* `MarksStayRestorable` (`RecoveryProofs`; nobody tampers with the
  annotation). `SoundInv` says that mark and positive record go together in the
  server's objects, in the cache, in the copy in hand and in the plugin's list,
  which is what keeps any *merge* of two of them sound.
* `NeverLost` (`RecoveryProofs`; no lag, no plugin, no tampering, no
  re-creation). Adds to `SoundInv` what each control point knows: between the two
  patches of `ScaleDown` the object is marked, and after Restore's first patch a
  zero can only be the user's.
* `ReplicasKept` and `ImplementsCustody` (`CustodyProofs`; `Undisturbed`).
  `CustodyInv` adds to `CustodyKept` that the copy a call works on agrees with the
  server and where in its two patches the call is. With it a merge patch leaves
  what the call meant (`MergeOfTruth`), and every action maps to one action of
  `Custody` or to a stutter: `Annotate` to `Take`, `ZeroReplicas` to `Stop`,
  `RestoreReplicas` to `Resume`, `RemoveAnnotations` to `GiveBack`, registering and
  removing the finalizer to `Begin` and `End`, every other step of the controller to
  none.

### Accounting

* `BudgetTypeCorrect` (`BudgetProofs`). Needs `NoFuture`: no stored, cached or held
  status has a last pass later than now, so the elapsed time is never negative.
* `ReportsAreFinal` (`BudgetProofs`). `FillInv`: at most one process is about to
  fill a given report and that report is empty.
* `NoDayChargedTwice` (`BudgetProofs`; any number of processes, lag and crashes).
  `ChargeInv` states the bound for every version of the status that exists, stored,
  cached or in memory, each against the first stored pass; an update that wins a
  race only makes that day earlier.
* `PhaseClimbs`, `TransitionTimesMove` (`SignalProofs`; `Alone`). `SoloInv`: the
  status that a pass computes has at least the stored totals of the same period and
  its phase is that of its totals, so `AtLeastMonotone` gives the order of phases.
* `NoticesDiffer`, `NoticesKeepUp` (`SignalProofs`; `Alone`, `Acknowledged`). `NoticeInv`:
  the last notice is the stored phase, except between an update and its own notice,
  where it is the phase the update replaced.
* `ResetsFollowReports` (`SignalProofs`; `Alone`, `Filled`).
  `ResetInv`: an empty report belongs to the pass that is filling it, so the
  existence check takes no empty report for a full one.

### Idle list and report

* `ListedOnOwnEvidence`, `PassedOverForAReason` (`IdleProofs`; `ForeignNamesApart`). Two
  arguments meet: stripping two parts of a pod's name gives the name of its owner and of no other
  Deployment (`Attribution`), and the mean of means lies between the smallest and
  the largest of them (`MeanOfMeans`).
* `IdleSinceIsHonest`, `IdleTypeCorrect`. `IdleInv` adds that the last detection that
  found a workload busy lies in the past. `ReportSpec` implements `IdleTracking`'s `Spec`
  (lemma `ReportsDoNotInterfere`), so the theorems hold with reports being generated.
* `RankingExists`: a sorted order exists for every finite set of workloads, by induction
  on the set (`SortingExists`: put a lightest one last, `LeastExists`). Without it
  `SharesAddUp` could hold for want of a report.
* `SharesStayWithinTheWhole`. `ReportInv`: a report that is there was made from a ranking
  of the workloads as the answers still have them, since every step that changes an
  answer takes the report away (`ReportStep`). A truncated share, times the whole, is at
  most a hundred times the usage. Along the ranking, where no workload is twice, this adds up to at
  most a hundred times the usage of the listed workloads, and these use no more than
  all (`TruncatedShares`, `SumGrows`). A total of zero gives shares of zero.

`MapThenSumSet` and `SumFunction` are recursive functions on the subsets of a set.
`SumProofs` derives what they compute: the induction theorems of the library take an
operator and cannot be instantiated, but `WFMin`, the existence of a minimal element,
takes a set, and a set of bad subsets without a minimal element is empty
(`SubsetInduction`). From it come the existence of the sum, its independence of the
order, bounds by the values, that a subset sums to no more, and that zeros do not
matter.

### A whole Reconcile

`GovernorProofs` proves the composition from the lemmas of its halves.
`EnforcementHalf` and `AccountingHalf` say that every step of `Governor` is a step of
`WorkloadScaling`, of `BudgetReconcile`, or leaves that half alone but for the number
of faults, which the halves share, and for passes that return before step 4. The
proofs instantiate `SignalProofs` (`B`) and show first that its operators are those of
`Governor`'s own instance (`A`; the lemmas `SameValues` to `SameEnd`).

* `GovernorTypeCorrect`, `MarksFollowTheStatus`. `JointInv`
  says where one half may be when the other is at a given point, and that the phase
  the enforcement acts in is that of the status in memory, which at that point is the
  stored one. Only `Annotate` marks, and its guard speaks of the pass's phase: the
  theorem needs all of this to speak of the server's.
* `GovernorGivesBack`, `GovernorImplementsCustody` (`Undisturbed`), `GovernorNeverLoses`
  (no plugin, no tampering, no re-creation), `GovernorHonoursExclusions`,
  `GovernorPhaseClimbs`, `GovernorReportsAreFinal`: neither half disturbs what the other
  guarantees alone. Each takes the inductive invariant of its half; what is new are the
  steps in which that half rests, and the early returns that the accounting alone does
  not have.
* `PrintedReportKeepsUp`. `StampInv` orders the time stamps of stored status, memory
  and clock. `Orderly` says that, unless a pass was torn, reports exist only of months
  before the stored period and of the one being closed, and that the last of them is
  full if any is. It is claimed while passes are still accounted for (`Live`): a
  budget in deletion may leave a month half closed, which nobody reads again.
* `LedgerIsKept` (`Rates \subseteq {1}`). `SumInv`: for the stored status, and for the
  one in memory between `BeginPass` and the update, the total and the reports of
  earlier months add up to the days since the first pass. A month boundary moves the
  total from one to the other (`SumTakesAny`), and other reports contribute zero
  (`ZerosIgnored`). The exception for torn passes is the code's: `BudgetReportedTwice`.

### Only model-checked

Liveness: `DeletionCompletes`, `HardLimitReached`, `OverrunReported` and
`OverspendingStops`. Fairness and `ENABLED` are beyond the prover. Every invariant,
action property and refinement of the passing runs is also proved.

## 5. Not modelled, and the plan

Not modelled: HTTP and JSON of the Prometheus client, message formatting, the
read-only plugin commands, wiring, manifests, generated code, the CostReport
reconciler (it does nothing), `spec.actions` (no code reads it).

Also left out: `promDuration` and the overlap of the idle query's sub-ranges,
prices and suspension events of a report, the workload names in a Slack message (of
which `SuspendAll` reports too many when a patch fails and step 9 too few when an answer
is lost), two budgets in one namespace.

Order of further work:

1. A weaker form of `CustodyKept` that allows users to scale a Deployment between its
   two patches.
2. Two budgets in one namespace: what one's deletion does to the other's marks.
