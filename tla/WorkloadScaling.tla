--------------------------- MODULE WorkloadScaling ---------------------------
(***************************************************************************)
(* The enforcement half of the governor: what one controller process does  *)
(* to the Deployments of one namespace (reconcile steps 7 to 10, ScaleDown,*)
(* SuspendAll, the finalizer's cleanup and Restore), together with         *)
(* everyone else who changes the same objects: `kubectl budget restore`,   *)
(* users, the informer cache that lags behind the API server, failing      *)
(* requests and crashes of the process.                                    *)
(*                                                                         *)
(* Every request to the API server is a step of its own.  The controller   *)
(* reads through the manager's cached client and writes to the server; the *)
(* plugin reads and writes the server.  Which phase the budget is in is    *)
(* decided by the accounting, modelled in BudgetReconcile: here a pass may *)
(* come to any phase of Phases; Governor puts the two together.            *)
(***************************************************************************)
EXTENDS Deployment

CONSTANTS
    ExclusionSpecs,  \* values spec.exclusions may take, sets of Exclusion
    Phases,          \* phases that passes come to
    CacheLag,        \* may the informer cache lag behind the server?
    PluginOn,        \* does anybody run `kubectl budget restore`?
    UserOps,         \* what users do, see Users below
    MaxFaults        \* bound on crashes and failed requests

ASSUME ExclusionsAssumption ==
    \A exclusions \in ExclusionSpecs : exclusions \subseteq Exclusion
ASSUME PhasesAssumption == Phases \subseteq {"OK", "Warning", "Exceeded", "Suspended"}
ASSUME FlagsAssumption == CacheLag \in BOOLEAN /\ PluginOn \in BOOLEAN
ASSUME UserOpsAssumption ==
    UserOps \subseteq {"scale", "race", "relabel", "delete", "create",
                       "tamper", "exclude"}
ASSUME MaxFaultsAssumption == MaxFaults \in Nat

VARIABLES
    api,      \* Deployments at the API server
    cache,    \* the same in the controller's informer cache
    budget,   \* the NamespaceBudget at the API server
    seen,     \* the same in the cache
    pc,       \* control point of the running Reconcile
    stage,    \* which loop it is in: step 9, step 10 or cleanup
    phase,    \* the phase this Reconcile computed
    excl,     \* spec.exclusions as this Reconcile read them
    todo,     \* workloads its current loop has still to visit
    cur,      \* the workload a ScaleDown or Restore call is working on
    base,     \* that call's local copy of it
    listed,   \* the plugin's listed copies that it has still to patch
    faults,   \* faults so far
    want,     \* history: the replica count the user last asked for
    shield    \* history: workloads that, as the cache shows them, have been excluded
              \* ever since this pass began

server == <<api, cache>>
objects == <<budget, seen>>
call == <<cur, base>>
control == <<pc, stage, phase, excl, todo, cur, base>>
pass == <<pc, stage, phase, excl, todo, cur, base, shield>>
vars == <<api, cache, budget, seen, pc, stage, phase, excl, todo, cur, base,
          listed, faults, want, shield>>

BudgetStates == {"absent", "new", "active", "deleting"}
Patching == {"annotate", "zero", "refill", "unmark"}

TypeOK ==
    /\ api \in [Names -> Object \cup {Absent}]
    /\ cache \in [Names -> Object \cup {Absent}]
    /\ budget \in [state : BudgetStates, exclusions : ExclusionSpecs]
    /\ seen \in [state : BudgetStates, exclusions : ExclusionSpecs]
    /\ pc \in {"wait", "assess", "detect", "next"} \cup Patching
    /\ stage \in {"none", "idle", "suspend", "cleanup"}
    /\ phase \in Phases \cup {"none"}
    /\ excl \in ExclusionSpecs \cup {{}}
    /\ todo \in SUBSET Names
    /\ cur \in Names \cup {NoName}
    /\ base \in Object \cup {Absent}
    /\ pc \in Patching => cur \in Names /\ base \in Object
    /\ pc \notin Patching => cur = NoName /\ base = Absent
    /\ pc \in {"annotate", "zero"} => stage \in {"idle", "suspend"}
    /\ pc \in {"refill", "unmark"} => stage = "cleanup"
    /\ pc = "refill" => HasRecord(base)
    /\ pc \in {"wait", "assess", "detect"} => stage = "none" /\ todo = {}
    /\ pc = "next" => stage # "none"
    /\ listed \in [Names -> Object \cup {Absent}]
    /\ \A d \in Names : listed[d] # Absent => HasRecord(listed[d])
    /\ faults \in 0..MaxFaults
    /\ want \in [Names -> Replicas]
    /\ shield \in SUBSET Names

Exists(d) == api[d] # Absent
Marked(d) == Exists(d) /\ IsScaledDownByOperator(api[d])

Init ==
    /\ api \in [Names -> {Absent} \cup {Fresh(n, l) : n \in Replicas, l \in LabelSets}]
    /\ cache = api
    /\ budget \in [state : {"absent"}, exclusions : ExclusionSpecs]
    /\ seen = budget
    /\ pc = "wait" /\ stage = "none" /\ phase = "none" /\ excl = {} /\ todo = {}
    /\ cur = NoName /\ base = Absent
    /\ listed = [d \in Names |-> Absent]
    /\ faults = 0
    /\ want = [d \in Names |-> IF api[d] = Absent THEN 0 ELSE api[d].replicas]
    /\ shield = {}

-----------------------------------------------------------------------------
(***************************************************************************)
(* Building blocks.                                                        *)
(***************************************************************************)

\* A write to Deployment d; a cache that never lags shows it at once.
Write(d, o) ==
    /\ api' = [api EXCEPT ![d] = o]
    /\ cache' = IF CacheLag THEN cache ELSE [cache EXCEPT ![d] = o]

WriteBudget(b) ==
    /\ budget' = b
    /\ seen' = IF CacheLag THEN seen ELSE b

\* d, shown to the controller as o, is excluded.
ExcludedAsRead(d, o, exclusions) ==
    IsExcluded(d, exclusions) \/ (o # Absent /\ IsLabelExcluded(o.labels, exclusions))

\* The history variable shield, on a step that may change what the cache shows.  It
\* goes by the cache: a label that has not reached it excludes nothing yet.
ShieldFollows == shield' = {d \in shield : ExcludedAsRead(d, cache'[d], excl)}

\* Reconcile returns, with or without an error; the request is queued again.
ReturnToQueue ==
    /\ pc' = "wait" /\ stage' = "none" /\ phase' = "none" /\ excl' = {} /\ todo' = {}
    /\ shield' = {} /\ cur' = NoName /\ base' = Absent

\* The ScaleDown or Restore call in hand is over and its loop goes on.
CallReturns ==
    /\ pc' = "next" /\ cur' = NoName /\ base' = Absent
    /\ UNCHANGED <<stage, phase, excl, shield, todo>>

\* What the server makes of the call's next patch.
Patched(form) == MergePatch(api[cur], base, form)

-----------------------------------------------------------------------------
(***************************************************************************)
(* Reconcile, steps 1 and 7 to 10: enforcement.                            *)
(***************************************************************************)

\* Step 1: an active budget is read.
StartPass ==
    /\ pc = "wait"
    /\ seen.state = "active"
    /\ pc' = "assess" /\ excl' = seen.exclusions
    /\ shield' = {d \in Names : ExcludedAsRead(d, cache[d], seen.exclusions)}
    /\ UNCHANGED <<server, objects, stage, phase, todo, call, listed, faults, want>>

\* Steps 4 to 6: the pass comes to its phase.
Assess(p) ==
    /\ pc = "assess"
    /\ pc' = "detect" /\ phase' = p
    /\ UNCHANGED <<server, objects, stage, excl, shield, todo, call, listed, faults, want>>

Acting == {"Exceeded", "Suspended"}   \* the phases that look for idle workloads

\* Mutant: the filter looks at names only.
DetectByName(found) ==
    /\ pc = "detect"
    /\ found # {} => phase \in Acting
    /\ pc' = "next" /\ stage' = "idle"
    /\ todo' = {d \in found : cache[d] # Absent /\ ~IsExcluded(d, excl)}
    /\ UNCHANGED <<server, objects, phase, excl, shield, call, listed, faults, want>>

\* Steps 7 and 8: over budget, DetectIdle reports some workloads (none when its
\* query failed), excluded ones are filtered out; the status is persisted.
DetectIdle(found) ==
    /\ pc = "detect"
    /\ found # {} => phase \in Acting
    /\ pc' = "next" /\ stage' = "idle"
    /\ todo' = {d \in found : cache[d] # Absent /\ ~Excluded(d, cache[d], excl)}
    /\ UNCHANGED <<server, objects, phase, excl, shield, call, listed, faults, want>>

\* A Prometheus query, the window's syntax or the status update failed: the
\* pass ends before it touched a workload.
PassFails ==
    /\ pc \in {"assess", "detect"}
    /\ faults < MaxFaults /\ faults' = faults + 1
    /\ ReturnToQueue
    /\ UNCHANGED <<server, objects, listed, want>>

\* Mutant: ScaleDown does not skip a workload that is at zero already.
ScaleDownAnyUnmarked(d) ==
    /\ cache[d] # Absent
    /\ ~IsScaledDownByOperator(cache[d])

\* The early returns of ScaleDown, after its Get.
ScaleDownApplies(d) ==
    /\ cache[d] # Absent
    /\ ~IsScaledDownByOperator(cache[d])
    /\ cache[d].replicas # 0

ScaleDownSkips(d) ==
    /\ pc = "next" /\ stage \in {"idle", "suspend"} /\ d \in todo
    /\ ~ScaleDownApplies(d)
    /\ todo' = todo \ {d}
    /\ UNCHANGED <<server, objects, pc, stage, phase, excl, shield, call, listed, faults, want>>

ScaleDownStarts(d) ==
    /\ pc = "next" /\ stage \in {"idle", "suspend"} /\ d \in todo
    /\ ScaleDownApplies(d)
    /\ todo' = todo \ {d}
    /\ pc' = "annotate" /\ cur' = d /\ base' = cache[d]
    /\ UNCHANGED <<server, objects, stage, phase, excl, shield, listed, faults, want>>

\* Mutant: replicas go to zero before the record is written.
ZeroFirst ==
    /\ pc = "annotate" /\ Exists(cur)
    /\ Write(cur, Patched(ZeroedForm(base)))
    /\ base' = AnnotatedForm(base)
    /\ pc' = "zero"
    /\ UNCHANGED <<objects, stage, phase, excl, shield, todo, cur, listed, faults, want>>

\* Patch 1 of ScaleDown; the client decodes the server's answer into the copy.
Annotate ==
    /\ pc = "annotate" /\ Exists(cur)
    /\ Write(cur, Patched(AnnotatedForm(base)))
    /\ base' = Patched(AnnotatedForm(base))
    /\ pc' = "zero"
    /\ UNCHANGED <<objects, stage, phase, excl, shield, todo, cur, listed, faults, want>>

\* Patch 2 of ScaleDown.
ZeroReplicas ==
    /\ pc = "zero" /\ Exists(cur)
    /\ Write(cur, Patched(ZeroedForm(base)))
    /\ CallReturns
    /\ UNCHANGED <<objects, listed, faults, want>>

\* Mutant: SuspendAll never looks beyond the workloads found idle.
SuspendNone ==
    /\ pc = "next" /\ stage = "idle" /\ todo = {} /\ phase = "Suspended"
    /\ stage' = "suspend"
    /\ UNCHANGED <<server, objects, pc, phase, excl, shield, todo, call, listed, faults, want>>

\* Step 10: SuspendAll's List.  Its loop judges the listed copies, so the
\* workloads it will hand to ScaleDown are settled here.
SuspendAll ==
    /\ pc = "next" /\ stage = "idle" /\ todo = {} /\ phase = "Suspended"
    /\ stage' = "suspend"
    /\ todo' = {d \in Names : ScaleDownApplies(d) /\ ~Excluded(d, cache[d], excl)}
    /\ UNCHANGED <<server, objects, pc, phase, excl, shield, call, listed, faults, want>>

PassEnds ==
    /\ pc = "next" /\ todo = {}
    /\ \/ stage = "suspend"
       \/ stage = "idle" /\ phase # "Suspended"
    /\ ReturnToQueue
    /\ UNCHANGED <<server, objects, listed, faults, want>>

-----------------------------------------------------------------------------
(***************************************************************************)
(* Reconcile, steps 2 and 3: the finalizer and its cleanup.                *)
(***************************************************************************)

\* Step 3.  An Update computed from a stale copy is refused and changes nothing.  The
\* pass ends with it, so that a lost answer makes no difference.
RegisterFinalizer ==
    /\ pc = "wait"
    /\ seen.state = "new" /\ seen = budget
    /\ WriteBudget([budget EXCEPT !.state = "active"])
    /\ UNCHANGED <<server, pass, listed, faults, want>>

\* Step 2: the deletion is noticed and cleanup lists the Deployments.
StartCleanup ==
    /\ pc = "wait"
    /\ seen.state = "deleting"
    /\ pc' = "next" /\ stage' = "cleanup" /\ excl' = seen.exclusions
    /\ todo' = {d \in Names : cache[d] # Absent /\ IsScaledDownByOperator(cache[d])}
    /\ UNCHANGED <<server, objects, phase, shield, call, listed, faults, want>>

\* Restore's errors after its Get: the Deployment is gone, or its record is
\* missing or unreadable.
Unrestorable(d) ==
    cache[d] # Absent => IsScaledDownByOperator(cache[d]) /\ ~HasRecord(cache[d])

\* Restore finds that the mark is gone.
RestoreSkips(d) ==
    /\ pc = "next" /\ stage = "cleanup" /\ d \in todo
    /\ cache[d] # Absent /\ ~IsScaledDownByOperator(cache[d])
    /\ todo' = todo \ {d}
    /\ UNCHANGED <<server, objects, pc, stage, phase, excl, shield, call, listed, faults, want>>

\* Restore returns an error; cleanup, and Reconcile with it, is abandoned.
RestoreFails(d) ==
    /\ pc = "next" /\ stage = "cleanup" /\ d \in todo
    /\ Unrestorable(d)
    /\ ReturnToQueue
    /\ UNCHANGED <<server, objects, listed, faults, want>>

\* Mutant: Restore removes the annotations first.
RestoreUnmarksFirst(d) ==
    /\ pc = "next" /\ stage = "cleanup" /\ d \in todo
    /\ cache[d] # Absent /\ IsScaledDownByOperator(cache[d]) /\ HasRecord(cache[d])
    /\ todo' = todo \ {d}
    /\ pc' = "unmark" /\ cur' = d /\ base' = cache[d]
    /\ UNCHANGED <<server, objects, stage, phase, excl, shield, listed, faults, want>>

\* Mutant: Restore does not check that the record is there and parses.
RestoreUnparsed(d) ==
    /\ pc = "next" /\ stage = "cleanup" /\ d \in todo
    /\ cache[d] # Absent /\ IsScaledDownByOperator(cache[d])
    /\ todo' = todo \ {d}
    /\ pc' = "refill" /\ cur' = d /\ base' = cache[d]
    /\ UNCHANGED <<server, objects, stage, phase, excl, shield, listed, faults, want>>

RestoreStarts(d) ==
    /\ pc = "next" /\ stage = "cleanup" /\ d \in todo
    /\ cache[d] # Absent /\ IsScaledDownByOperator(cache[d]) /\ HasRecord(cache[d])
    /\ todo' = todo \ {d}
    /\ pc' = "refill" /\ cur' = d /\ base' = cache[d]
    /\ UNCHANGED <<server, objects, stage, phase, excl, shield, listed, faults, want>>

\* Patch 1 of Restore.
RestoreReplicas ==
    /\ pc = "refill" /\ Exists(cur)
    /\ Write(cur, Patched(RestoredForm(base)))
    /\ base' = Patched(RestoredForm(base))
    /\ pc' = "unmark"
    /\ UNCHANGED <<objects, stage, phase, excl, shield, todo, cur, listed, faults, want>>

\* Patch 2 of Restore.
RemoveAnnotations ==
    /\ pc = "unmark" /\ Exists(cur)
    /\ Write(cur, Patched(UnmarkedForm(base)))
    /\ CallReturns
    /\ UNCHANGED <<objects, listed, faults, want>>

\* The Update that drops the finalizer carries the resourceVersion read at the
\* start of this Reconcile, so a budget edited since then refuses it.  Reconcile
\* returns in any case: a lost answer makes no difference.
RemoveFinalizer ==
    /\ pc = "next" /\ stage = "cleanup" /\ todo = {}
    /\ budget.state = "deleting" /\ budget.exclusions = excl
    /\ WriteBudget([budget EXCEPT !.state = "absent"])
    /\ ReturnToQueue
    /\ UNCHANGED <<server, listed, faults, want>>

FinalizerUpdateFails ==
    /\ pc = "next" /\ stage = "cleanup" /\ todo = {}
    /\ \/ (budget.state # "deleting" \/ budget.exclusions # excl) /\ UNCHANGED faults
       \/ faults < MaxFaults /\ faults' = faults + 1
    /\ ReturnToQueue
    /\ UNCHANGED <<server, objects, listed, want>>

-----------------------------------------------------------------------------
(***************************************************************************)
(* Failing requests and crashes.                                           *)
(***************************************************************************)

\* Mutant: cleanup logs a failed Restore and goes on, as the other callers do.
CallFailsQuietly == CallReturns

\* After a failed patch ScaleDown's callers log it and go on; cleanup gives up.
CallFails == IF stage = "cleanup" THEN ReturnToQueue ELSE CallReturns

\* The Deployment was deleted since it was read.
PatchNotFound ==
    /\ pc \in Patching /\ ~Exists(cur)
    /\ CallFails
    /\ UNCHANGED <<server, objects, listed, faults, want>>

\* The server refuses the patch, or the request never reaches it.
PatchRejected ==
    /\ pc \in Patching /\ Exists(cur)
    /\ faults < MaxFaults /\ faults' = faults + 1
    /\ CallFails
    /\ UNCHANGED <<server, objects, listed, want>>

\* The patch in hand, by control point.
CallForm ==
    CASE pc = "annotate" -> AnnotatedForm(base)
      [] pc = "zero"     -> ZeroedForm(base)
      [] pc = "refill"   -> RestoredForm(base)
      [] pc = "unmark"   -> UnmarkedForm(base)

\* The patch is applied and its answer is lost.
PatchAnswerLost ==
    /\ pc \in Patching /\ Exists(cur)
    /\ faults < MaxFaults /\ faults' = faults + 1
    /\ Write(cur, Patched(CallForm))
    /\ CallFails
    /\ UNCHANGED <<objects, listed, want>>

\* The process dies inside a pass; its successor fills its cache afresh.
Crash ==
    /\ pc # "wait"
    /\ faults < MaxFaults /\ faults' = faults + 1
    /\ ReturnToQueue
    /\ cache' = api /\ seen' = budget
    /\ UNCHANGED <<api, budget, listed, want>>

-----------------------------------------------------------------------------
(***************************************************************************)
(* The informer cache catches up with one object.  The server's versions   *)
(* of an object reach the cache in order, some of them skipped.            *)
(***************************************************************************)
CacheSync(d) ==
    /\ CacheLag /\ cache[d] # api[d]
    /\ cache' = [cache EXCEPT ![d] = api[d]]
    /\ ShieldFollows
    /\ UNCHANGED <<api, objects, control, listed, faults, want>>

BudgetSync ==
    /\ CacheLag /\ seen # budget
    /\ seen' = budget
    /\ UNCHANGED <<server, budget, pass, listed, faults, want>>

-----------------------------------------------------------------------------
(***************************************************************************)
(* kubectl budget restore: one List, then one patch for each Deployment it *)
(* can restore.                                                            *)
(***************************************************************************)
PluginList ==
    /\ PluginOn
    /\ \A d \in Names : listed[d] = Absent
    /\ listed' = [d \in Names |->
                    IF Marked(d) /\ HasRecord(api[d]) THEN api[d] ELSE Absent]
    /\ UNCHANGED <<server, objects, pass, faults, want>>

PluginPatch(d) ==
    /\ listed[d] # Absent /\ Exists(d)
    /\ Write(d, MergePatch(api[d], listed[d], ReleasedForm(listed[d])))
    /\ listed' = [listed EXCEPT ![d] = Absent]
    /\ UNCHANGED <<objects, pass, faults, want>>

\* The patch fails, or the command's 30 seconds are over.
PluginSkips(d) ==
    /\ listed[d] # Absent
    /\ listed' = [listed EXCEPT ![d] = Absent]
    /\ UNCHANGED <<server, objects, pass, faults, want>>

-----------------------------------------------------------------------------
(***************************************************************************)
(* Users.  UserOps says what they do: "scale" a Deployment, also while     *)
(* somebody else is changing it ("race"), "relabel", "delete" and          *)
(* "create" one, "tamper" with its record, edit the exclusions             *)
(* ("exclude").  Budgets come and go in every instance.                    *)
(***************************************************************************)

\* Somebody holds a copy of d or answers for its replicas.
Held(d) ==
    \/ Marked(d)
    \/ cur = d
    \/ listed[d] # Absent
    \/ cache[d] # api[d]

UserScale(d, n) ==
    /\ "scale" \in UserOps /\ Exists(d)
    /\ "race" \in UserOps \/ ~Held(d)
    /\ Write(d, [api[d] EXCEPT !.replicas = n])
    /\ want' = [want EXCEPT ![d] = n]
    /\ UNCHANGED <<objects, pass, listed, faults>>

UserRelabel(d, l) ==
    /\ "relabel" \in UserOps /\ Exists(d)
    /\ Write(d, [api[d] EXCEPT !.labels = l])
    /\ ShieldFollows
    /\ UNCHANGED <<objects, control, listed, faults, want>>

UserTampers(d, o) ==
    /\ "tamper" \in UserOps /\ Marked(d)
    /\ Write(d, [api[d] EXCEPT !.orig = o])
    /\ UNCHANGED <<objects, pass, listed, faults, want>>

UserDeletes(d) ==
    /\ "delete" \in UserOps /\ Exists(d)
    /\ Write(d, Absent)
    /\ want' = [want EXCEPT ![d] = 0]
    /\ ShieldFollows
    /\ UNCHANGED <<objects, control, listed, faults>>

UserCreates(d, n, l) ==
    /\ "create" \in UserOps /\ ~Exists(d)
    /\ Write(d, Fresh(n, l))
    /\ want' = [want EXCEPT ![d] = n]
    /\ ShieldFollows
    /\ UNCHANGED <<objects, control, listed, faults>>

\* A budget of the same name comes back only once the cache saw the old one go.
BudgetCreate(exclusions) ==
    /\ budget.state = "absent" /\ seen.state = "absent"
    /\ WriteBudget([state |-> "new", exclusions |-> exclusions])
    /\ UNCHANGED <<server, pass, listed, faults, want>>

\* Without the finalizer the object goes at once.
BudgetDelete ==
    /\ budget.state \in {"new", "active"}
    /\ WriteBudget([budget EXCEPT !.state = IF @ = "new" THEN "absent" ELSE "deleting"])
    /\ UNCHANGED <<server, pass, listed, faults, want>>

BudgetEdit(exclusions) ==
    /\ "exclude" \in UserOps /\ budget.state # "absent"
    /\ WriteBudget([budget EXCEPT !.exclusions = exclusions])
    /\ UNCHANGED <<server, pass, listed, faults, want>>

-----------------------------------------------------------------------------
EnforceStep ==
    \/ StartPass
    \/ \E p \in Phases : Assess(p)
    \/ \E found \in SUBSET Names : DetectIdle(found)
    \/ \E d \in Names : ScaleDownSkips(d) \/ ScaleDownStarts(d)
    \/ Annotate \/ ZeroReplicas \/ SuspendAll \/ PassEnds

CleanupStep ==
    \/ RegisterFinalizer \/ StartCleanup
    \/ \E d \in Names : RestoreSkips(d) \/ RestoreFails(d) \/ RestoreStarts(d)
    \/ RestoreReplicas \/ RemoveAnnotations
    \/ RemoveFinalizer \/ FinalizerUpdateFails

ControllerStep == EnforceStep \/ CleanupStep \/ PatchNotFound

FaultStep == PassFails \/ PatchRejected \/ PatchAnswerLost \/ Crash

CacheStep == BudgetSync \/ \E d \in Names : CacheSync(d)

PluginStep == PluginList \/ \E d \in Names : PluginPatch(d) \/ PluginSkips(d)

UserStep ==
    \/ \E d \in Names :
          \/ \E n \in Replicas : UserScale(d, n)
          \/ \E l \in LabelSets : UserRelabel(d, l)
          \/ \E o \in {Missing, Garbage} : UserTampers(d, o)
          \/ UserDeletes(d)
          \/ \E n \in Replicas, l \in LabelSets : UserCreates(d, n, l)
    \/ \E exclusions \in ExclusionSpecs : BudgetCreate(exclusions) \/ BudgetEdit(exclusions)
    \/ BudgetDelete

Next ==
    \/ ControllerStep \/ FaultStep \/ CacheStep \/ PluginStep \/ UserStep

Spec == Init /\ [][Next]_vars

(***************************************************************************)
(* The work queue hands a budget out again after every return, within a    *)
(* minute or after a back-off, and the watch delivers what changed: the    *)
(* controller and the cache do not stop for good.  Nothing is assumed of   *)
(* users, the plugin or faults.                                            *)
(***************************************************************************)
FairSpec ==
    /\ Spec
    /\ WF_vars(ControllerStep)
    /\ WF_vars(BudgetSync)
    /\ \A d \in Names : WF_vars(CacheSync(d))

-----------------------------------------------------------------------------
(***************************************************************************)
(* Properties.                                                             *)
(***************************************************************************)

\* A Deployment carries the operator's mark exactly when it carries a usable
\* record, and the record is never zero: Restore and the plugin can always bring
\* it back, whatever patches were merged into it (scaledown.go, both functions;
\* restore.go).
MarkedIsRestorable ==
    \A d \in Names : Exists(d) =>
        IF IsScaledDownByOperator(api[d])
        THEN HasRecord(api[d]) /\ api[d].orig # 0
        ELSE api[d].orig = Missing

\* A workload the user wants running is never at zero without a positive record
\* to bring it back from (docs/design.md: "makes the recovery record durable
\* before the destructive mutation").
Recoverable ==
    \A d \in Names : Exists(d) /\ api[d].replicas = 0 /\ want[d] # 0 =>
        IsScaledDownByOperator(api[d]) /\ HasRecord(api[d]) /\ api[d].orig # 0

\* While users leave the Deployments the operator holds alone, the operator
\* neither loses nor invents a replica: the record of a marked Deployment, and
\* the replicas of any other, are what the user asked for, at every crash point
\* of ScaleDown and Restore.
CustodyKept ==
    \A d \in Names : Exists(d) =>
        want[d] = IF IsScaledDownByOperator(api[d]) THEN api[d].orig ELSE api[d].replicas

\* A budget is not gone before everything it scaled down was given back: no mark
\* survives the finalizer (cleanup and steps 2 and 3 of Reconcile), whatever
\* fails or is tampered with in between.
NothingLeftBehind ==
    budget.state \in {"absent", "new"} => \A d \in Names : ~Marked(d)

\* A workload that the controller's cache showed as excluded from the moment a pass
\* read its budget is not handed to ScaleDown in that pass (the filter of step 7 and
\* SuspendAll's).  The server may know better for as long as the cache lags: "an
\* excluded Deployment is never touched" (README.md) holds of what the cache shows.
ShieldedNeverInHand ==
    pc \in {"annotate", "zero"} => cur \notin shield

\* The deletion of a budget completes, whatever crashes and failed requests come
\* in between: no retry of cleanup waits for something that never comes.
DeletionCompletes == budget.state = "deleting" ~> budget.state = "absent"

\* d runs, marked or not, although nothing exempts it from the hard limit.
Evading(d) ==
    /\ budget.state = "active"
    /\ Exists(d) /\ api[d].replicas # 0
    /\ ~Excluded(d, api[d], budget.exclusions)

\* d is marked and runs.
HalfScaled(d) == Marked(d) /\ api[d].replicas # 0

\* No call is at work on the marked and running d: a fault ended ScaleDown between its
\* patches, or a user scaled d up in the operator's hands.  ScaleDown skips it from
\* then on (see ScaleDownCompletes).
CutShort(d) ==
    /\ HalfScaled(d) /\ cur # d
    /\ faults > 0 \/ "race" \in UserOps

\* Over the hard limit every running workload that is not excluded is scaled to zero in
\* the end, or the user changes the situation; a mark alone does not count.  The
\* exception is a scale-down that was cut short (SuspendAll and ScaleDown, which try
\* again in every pass).
HardLimitReached == \A d \in Names : Evading(d) ~> ~Evading(d) \/ CutShort(d)

\* A scale-down that has written its record is completed: the marked Deployment
\* goes to zero, unless the mark is taken off (docs/design.md: "a later
\* reconciliation can complete the operation").
ScaleDownCompletes == \A d \in Names : HalfScaled(d) ~> ~HalfScaled(d)
-----------------------------------------------------------------------------
(***************************************************************************)
(* What is promised, see Custody: a Deployment is held while it carries    *)
(* the mark, and the namespace is governed while its budget has the        *)
(* finalizer.                                                              *)
(***************************************************************************)
C == INSTANCE Custody WITH
        present  <- {d \in Names : Exists(d)},
        held     <- {d \in Names : Marked(d)},
        running  <- [d \in Names |-> IF Exists(d) THEN api[d].replicas ELSE 0],
        governed <- budget.state \in {"active", "deleting"}

\* The enforcement implements Custody: step by step, through every crash, failed
\* request and retry, replicas and marks change only in the ways promised there
\* (ScaleDown, Restore, cleanup, the finalizer), while users leave what the
\* operator holds alone.
CustodyRefined == C!Spec
=============================================================================
