------------------------ MODULE WorkloadScalingProofs ------------------------
(***************************************************************************)
(* Theorems about WorkloadScaling, for every set of Deployments, every     *)
(* replica bound, every choice of exclusions and any number of faults.     *)
(***************************************************************************)
EXTENDS WorkloadScaling, TLAPS

-----------------------------------------------------------------------------
(***************************************************************************)
(* The operators on Deployments.                                           *)
(***************************************************************************)

\* A merge patch computed from two well-formed copies leaves a well-formed
\* object well-formed (client.MergeFrom).
LEMMA MergePatchType ==
    ASSUME NEW current \in Object, NEW old \in Object, NEW new \in Object
    PROVE  MergePatch(current, old, new) \in Object
BY DEF MergePatch, MergedField, Object

\* The four forms the handlers patch towards are well-formed (scaledown.go).
LEMMA FormType ==
    ASSUME NEW o \in Object
    PROVE  /\ AnnotatedForm(o) \in Object
           /\ ZeroedForm(o) \in Object
           /\ UnmarkedForm(o) \in Object
           /\ HasRecord(o) => RestoredForm(o) \in Object /\ ReleasedForm(o) \in Object
BY MaxReplicasAssumption
   DEF AnnotatedForm, ZeroedForm, UnmarkedForm, RestoredForm, ReleasedForm,
       HasRecord, Object, Replicas

\* Writing a well-formed object, or deleting one, keeps the server's objects and
\* the cache well-formed.
LEMMA WriteType ==
    ASSUME TypeOK, NEW d \in Names, NEW o \in Object \cup {Absent}, Write(d, o)
    PROVE  /\ api' \in [Names -> Object \cup {Absent}]
           /\ cache' \in [Names -> Object \cup {Absent}]
BY DEF TypeOK, Write

\* The same for the budget.
LEMMA WriteBudgetType ==
    ASSUME TypeOK, NEW b \in [state : BudgetStates, exclusions : ExclusionSpecs],
           WriteBudget(b)
    PROVE  /\ budget' \in [state : BudgetStates, exclusions : ExclusionSpecs]
           /\ seen' \in [state : BudgetStates, exclusions : ExclusionSpecs]
BY DEF TypeOK, WriteBudget

-----------------------------------------------------------------------------
(***************************************************************************)
(* Type correctness.  Names cited again and again below.                   *)
(***************************************************************************)
LEMMA TypeStep == TypeOK /\ [Next]_vars => TypeOK'
<1> SUFFICES ASSUME TypeOK, [Next]_vars PROVE TypeOK'
  OBVIOUS
<1> USE DEF Patching
<1>1. CASE StartPass \/ \E p \in Phases : Assess(p)
  BY <1>1 DEF TypeOK, StartPass, Assess, server, objects, call
<1>2. ASSUME NEW found \in SUBSET Names, DetectIdle(found) PROVE TypeOK'
  BY <1>2 DEF TypeOK, DetectIdle, server, objects, call
<1>3. ASSUME NEW d \in Names, ScaleDownSkips(d) PROVE TypeOK'
  BY <1>3 DEF TypeOK, ScaleDownSkips, server, objects, call
<1>4. ASSUME NEW d \in Names, ScaleDownStarts(d) PROVE TypeOK'
  BY <1>4 DEF TypeOK, ScaleDownStarts, ScaleDownApplies, server, objects
<1>5. CASE Annotate
  <2>1. cur \in Names /\ base \in Object /\ api[cur] \in Object
    BY <1>5 DEF TypeOK, Annotate, Exists
  <2>2. Patched(AnnotatedForm(base)) \in Object
    BY <2>1, FormType, MergePatchType DEF Patched
  <2>3. /\ api' \in [Names -> Object \cup {Absent}]
        /\ cache' \in [Names -> Object \cup {Absent}]
    BY <1>5, <2>1, <2>2, WriteType DEF Annotate
  <2>. QED BY <1>5, <2>1, <2>2, <2>3 DEF TypeOK, Annotate, objects
<1>6. CASE ZeroReplicas
  <2>1. cur \in Names /\ base \in Object /\ api[cur] \in Object
    BY <1>6 DEF TypeOK, ZeroReplicas, Exists
  <2>2. Patched(ZeroedForm(base)) \in Object
    BY <2>1, FormType, MergePatchType DEF Patched
  <2>3. /\ api' \in [Names -> Object \cup {Absent}]
        /\ cache' \in [Names -> Object \cup {Absent}]
    BY <1>6, <2>1, <2>2, WriteType DEF ZeroReplicas
  <2>. QED BY <1>6, <2>3 DEF TypeOK, ZeroReplicas, CallReturns, objects
<1>7. CASE SuspendAll
  BY <1>7 DEF TypeOK, SuspendAll, server, objects, call
<1>8. CASE PassEnds
  BY <1>8 DEF TypeOK, PassEnds, ReturnToQueue, server, objects
<1>9. CASE RegisterFinalizer
  <2>1. [budget EXCEPT !.state = "active"]
          \in [state : BudgetStates, exclusions : ExclusionSpecs]
    BY DEF TypeOK, BudgetStates
  <2>2. /\ budget' \in [state : BudgetStates, exclusions : ExclusionSpecs]
        /\ seen' \in [state : BudgetStates, exclusions : ExclusionSpecs]
    BY <1>9, <2>1, WriteBudgetType DEF RegisterFinalizer
  <2>. QED BY <1>9, <2>2 DEF TypeOK, RegisterFinalizer, server, pass
<1>10. CASE StartCleanup
  BY <1>10 DEF TypeOK, StartCleanup, server, objects, call
<1>11. ASSUME NEW d \in Names, RestoreSkips(d) PROVE TypeOK'
  BY <1>11 DEF TypeOK, RestoreSkips, server, objects, call
<1>12. ASSUME NEW d \in Names, RestoreFails(d) PROVE TypeOK'
  BY <1>12 DEF TypeOK, RestoreFails, ReturnToQueue, server, objects
<1>13. ASSUME NEW d \in Names, RestoreStarts(d) PROVE TypeOK'
  BY <1>13 DEF TypeOK, RestoreStarts, server, objects
<1>14. CASE RestoreReplicas
  <2>1. cur \in Names /\ base \in Object /\ HasRecord(base) /\ api[cur] \in Object
    BY <1>14 DEF TypeOK, RestoreReplicas, Exists
  <2>2. Patched(RestoredForm(base)) \in Object
    BY <2>1, FormType, MergePatchType DEF Patched
  <2>3. /\ api' \in [Names -> Object \cup {Absent}]
        /\ cache' \in [Names -> Object \cup {Absent}]
    BY <1>14, <2>1, <2>2, WriteType DEF RestoreReplicas
  <2>. QED BY <1>14, <2>1, <2>2, <2>3 DEF TypeOK, RestoreReplicas, objects
<1>15. CASE RemoveAnnotations
  <2>1. cur \in Names /\ base \in Object /\ api[cur] \in Object
    BY <1>15 DEF TypeOK, RemoveAnnotations, Exists
  <2>2. Patched(UnmarkedForm(base)) \in Object
    BY <2>1, FormType, MergePatchType DEF Patched
  <2>3. /\ api' \in [Names -> Object \cup {Absent}]
        /\ cache' \in [Names -> Object \cup {Absent}]
    BY <1>15, <2>1, <2>2, WriteType DEF RemoveAnnotations
  <2>. QED BY <1>15, <2>3 DEF TypeOK, RemoveAnnotations, CallReturns, objects
<1>16. CASE RemoveFinalizer
  <2>1. [budget EXCEPT !.state = "absent"]
          \in [state : BudgetStates, exclusions : ExclusionSpecs]
    BY DEF TypeOK, BudgetStates
  <2>2. /\ budget' \in [state : BudgetStates, exclusions : ExclusionSpecs]
        /\ seen' \in [state : BudgetStates, exclusions : ExclusionSpecs]
    BY <1>16, <2>1, WriteBudgetType DEF RemoveFinalizer
  <2>. QED BY <1>16, <2>2 DEF TypeOK, RemoveFinalizer, ReturnToQueue, server
<1>17. CASE FinalizerUpdateFails
  BY <1>17, MaxFaultsAssumption
     DEF TypeOK, FinalizerUpdateFails, ReturnToQueue, server, objects
<1>18. CASE PatchNotFound
  BY <1>18 DEF TypeOK, PatchNotFound, CallFails, ReturnToQueue, CallReturns, server, objects
<1>19. CASE PassFails
  BY <1>19, MaxFaultsAssumption DEF TypeOK, PassFails, ReturnToQueue, server, objects
<1>20. CASE PatchRejected
  BY <1>20, MaxFaultsAssumption
     DEF TypeOK, PatchRejected, CallFails, ReturnToQueue, CallReturns, server, objects
<1>21. CASE PatchAnswerLost
  <2>1. cur \in Names /\ base \in Object /\ api[cur] \in Object
    BY <1>21 DEF TypeOK, PatchAnswerLost, Exists
  <2>2. CallForm \in Object
    BY <1>21, <2>1, FormType DEF PatchAnswerLost, CallForm, TypeOK
  <2>3. Patched(CallForm) \in Object
    BY <2>1, <2>2, MergePatchType DEF Patched
  <2>4. /\ api' \in [Names -> Object \cup {Absent}]
        /\ cache' \in [Names -> Object \cup {Absent}]
    BY <1>21, <2>1, <2>3, WriteType DEF PatchAnswerLost
  <2>. QED
    BY <1>21, <2>4, MaxFaultsAssumption
       DEF TypeOK, PatchAnswerLost, CallFails, ReturnToQueue, CallReturns, objects
<1>22. CASE Crash
  BY <1>22, MaxFaultsAssumption DEF TypeOK, Crash, ReturnToQueue
<1>23. ASSUME NEW d \in Names, CacheSync(d) PROVE TypeOK'
  BY <1>23 DEF TypeOK, CacheSync, ShieldFollows, objects, control
<1>24. CASE BudgetSync
  BY <1>24 DEF TypeOK, BudgetSync, server, pass
<1>25. CASE PluginList
  BY <1>25 DEF TypeOK, PluginList, Marked, Exists, server, objects, pass
<1>26. ASSUME NEW d \in Names, PluginPatch(d) PROVE TypeOK'
  <2>1. listed[d] \in Object /\ HasRecord(listed[d]) /\ api[d] \in Object
    BY <1>26 DEF TypeOK, PluginPatch, Exists
  <2>2. MergePatch(api[d], listed[d], ReleasedForm(listed[d])) \in Object
    BY <2>1, FormType, MergePatchType
  <2>3. /\ api' \in [Names -> Object \cup {Absent}]
        /\ cache' \in [Names -> Object \cup {Absent}]
    BY <1>26, <2>2, WriteType DEF PluginPatch
  <2>. QED BY <1>26, <2>3 DEF TypeOK, PluginPatch, objects, pass
<1>27. ASSUME NEW d \in Names, PluginSkips(d) PROVE TypeOK'
  BY <1>27 DEF TypeOK, PluginSkips, server, objects, pass
<1>28. ASSUME NEW d \in Names, NEW n \in Replicas, UserScale(d, n) PROVE TypeOK'
  <2>1. [api[d] EXCEPT !.replicas = n] \in Object
    BY <1>28 DEF TypeOK, UserScale, Exists, Object
  <2>2. /\ api' \in [Names -> Object \cup {Absent}]
        /\ cache' \in [Names -> Object \cup {Absent}]
    BY <1>28, <2>1, WriteType DEF UserScale
  <2>. QED BY <1>28, <2>2 DEF TypeOK, UserScale, objects, pass
<1>29. ASSUME NEW d \in Names, NEW l \in LabelSets, UserRelabel(d, l) PROVE TypeOK'
  <2>1. [api[d] EXCEPT !.labels = l] \in Object
    BY <1>29 DEF TypeOK, UserRelabel, Exists, Object
  <2>2. /\ api' \in [Names -> Object \cup {Absent}]
        /\ cache' \in [Names -> Object \cup {Absent}]
    BY <1>29, <2>1, WriteType DEF UserRelabel
  <2>. QED BY <1>29, <2>2 DEF TypeOK, UserRelabel, ShieldFollows, objects, control
<1>30. ASSUME NEW d \in Names, NEW o \in {Missing, Garbage}, UserTampers(d, o) PROVE TypeOK'
  <2>1. [api[d] EXCEPT !.orig = o] \in Object
    BY <1>30 DEF TypeOK, UserTampers, Marked, Exists, Object
  <2>2. /\ api' \in [Names -> Object \cup {Absent}]
        /\ cache' \in [Names -> Object \cup {Absent}]
    BY <1>30, <2>1, WriteType DEF UserTampers
  <2>. QED BY <1>30, <2>2 DEF TypeOK, UserTampers, objects, pass
<1>31. ASSUME NEW d \in Names, UserDeletes(d) PROVE TypeOK'
  <2>1. /\ api' \in [Names -> Object \cup {Absent}]
        /\ cache' \in [Names -> Object \cup {Absent}]
    BY <1>31, WriteType DEF UserDeletes
  <2>2. 0 \in Replicas
    BY MaxReplicasAssumption DEF Replicas
  <2>. QED BY <1>31, <2>1, <2>2 DEF TypeOK, UserDeletes, ShieldFollows, objects, control
<1>32. ASSUME NEW d \in Names, NEW n \in Replicas, NEW l \in LabelSets, UserCreates(d, n, l)
       PROVE  TypeOK'
  <2>1. Fresh(n, l) \in Object
    BY DEF Fresh, Object
  <2>2. /\ api' \in [Names -> Object \cup {Absent}]
        /\ cache' \in [Names -> Object \cup {Absent}]
    BY <1>32, <2>1, WriteType DEF UserCreates
  <2>. QED BY <1>32, <2>2 DEF TypeOK, UserCreates, ShieldFollows, objects, control
<1>33. ASSUME NEW exclusions \in ExclusionSpecs, BudgetCreate(exclusions) PROVE TypeOK'
  <2>1. /\ budget' \in [state : BudgetStates, exclusions : ExclusionSpecs]
        /\ seen' \in [state : BudgetStates, exclusions : ExclusionSpecs]
    BY <1>33, WriteBudgetType DEF BudgetCreate, BudgetStates
  <2>. QED BY <1>33, <2>1 DEF TypeOK, BudgetCreate, server, pass
<1>34. ASSUME NEW exclusions \in ExclusionSpecs, BudgetEdit(exclusions) PROVE TypeOK'
  <2>1. [budget EXCEPT !.exclusions = exclusions]
          \in [state : BudgetStates, exclusions : ExclusionSpecs]
    BY DEF TypeOK
  <2>2. /\ budget' \in [state : BudgetStates, exclusions : ExclusionSpecs]
        /\ seen' \in [state : BudgetStates, exclusions : ExclusionSpecs]
    BY <1>34, <2>1, WriteBudgetType DEF BudgetEdit
  <2>. QED BY <1>34, <2>2 DEF TypeOK, BudgetEdit, server, pass
<1>35. CASE BudgetDelete
  <2>1. [budget EXCEPT !.state = IF @ = "new" THEN "absent" ELSE "deleting"]
          \in [state : BudgetStates, exclusions : ExclusionSpecs]
    BY DEF TypeOK, BudgetStates
  <2>2. /\ budget' \in [state : BudgetStates, exclusions : ExclusionSpecs]
        /\ seen' \in [state : BudgetStates, exclusions : ExclusionSpecs]
    BY <1>35, <2>1, WriteBudgetType DEF BudgetDelete
  <2>. QED BY <1>35, <2>2 DEF TypeOK, BudgetDelete, server, pass
<1>36. CASE UNCHANGED vars
  BY <1>36 DEF TypeOK, vars
<1>. QED
  BY <1>1, <1>2, <1>3, <1>4, <1>5, <1>6, <1>7, <1>8, <1>9, <1>10, <1>11, <1>12,
     <1>13, <1>14, <1>15, <1>16, <1>17, <1>18, <1>19, <1>20, <1>21, <1>22, <1>23,
     <1>24, <1>25, <1>26, <1>27, <1>28, <1>29, <1>30, <1>31, <1>32, <1>33, <1>34,
     <1>35, <1>36
     DEF Next, ControllerStep, EnforceStep, CleanupStep, FaultStep, CacheStep,
         PluginStep, UserStep

\* The initial states are well typed.
LEMMA TypeInitially == Init => TypeOK
<1> SUFFICES ASSUME Init PROVE TypeOK
  OBVIOUS
<1>1. \A n \in Replicas, l \in LabelSets : Fresh(n, l) \in Object
  BY DEF Fresh, Object
<1>2. api \in [Names -> Object \cup {Absent}]
  BY <1>1 DEF Init
<1>3. want \in [Names -> Replicas]
  BY <1>2, MaxReplicasAssumption DEF Init, Object, Replicas
<1>. QED
  BY <1>2, <1>3, MaxFaultsAssumption DEF Init, TypeOK, Patching, BudgetStates

\* Every variable keeps its type, and the control points of Reconcile their
\* bookkeeping: a copy is in hand exactly while a ScaleDown or Restore call runs,
\* and a Restore call in hand has a record to restore from.
THEOREM TypeCorrect == Spec => []TypeOK
BY TypeInitially, TypeStep, PTL DEF Spec

-----------------------------------------------------------------------------
(***************************************************************************)
(* A cache without lag.                                                    *)
(***************************************************************************)
InSync == ~CacheLag => cache = api /\ seen = budget

\* Unless the cache may lag, it shows what the server holds.
LEMMA SyncStep == TypeOK /\ InSync /\ [Next]_vars => InSync'
<1> SUFFICES ASSUME TypeOK, InSync, ~CacheLag, [Next]_vars
             PROVE  cache' = api' /\ seen' = budget'
  BY DEF InSync
<1>1. cache = api /\ seen = budget
  BY DEF InSync
<1>2. CASE EnforceStep
  BY <1>1, <1>2
     DEF EnforceStep, StartPass, Assess, DetectIdle, ScaleDownSkips, ScaleDownStarts, Annotate,
         ZeroReplicas, SuspendAll, PassEnds, Write, server, objects
<1>3. CASE CleanupStep
  BY <1>1, <1>3
     DEF CleanupStep, RegisterFinalizer, StartCleanup, RestoreSkips, RestoreFails,
         RestoreStarts, RestoreReplicas, RemoveAnnotations, RemoveFinalizer,
         FinalizerUpdateFails, Write, WriteBudget, server, objects
<1>4. CASE PatchNotFound \/ FaultStep \/ CacheStep \/ PluginStep
  BY <1>1, <1>4
     DEF PatchNotFound, FaultStep, PassFails, PatchRejected, PatchAnswerLost, Crash,
         CacheStep, CacheSync, BudgetSync, PluginStep, PluginList, PluginPatch,
         PluginSkips, Write, server, objects
<1>5. CASE UserStep
  BY <1>1, <1>5
     DEF UserStep, UserScale, UserRelabel, UserTampers, UserDeletes, UserCreates,
         BudgetCreate, BudgetEdit, BudgetDelete, Write, WriteBudget, server, objects
<1>6. CASE UNCHANGED vars
  BY <1>1, <1>6 DEF vars
<1>. QED BY <1>2, <1>3, <1>4, <1>5, <1>6 DEF Next, ControllerStep

-----------------------------------------------------------------------------
(***************************************************************************)
(* The finalizer gives everything back.  NothingLeftBehind alone is not    *)
(* inductive: that no mark is left when the finalizer goes depends on      *)
(* cleanup's loop having every marked Deployment still before it or in     *)
(* hand, and on the patch in hand really removing the mark, which a merge  *)
(* patch computed from an unmarked copy would not.                         *)
(***************************************************************************)
CleanupInv ==
    /\ stage \in {"idle", "suspend"} \/ pc \in {"assess", "detect"}
         => budget.state \in {"active", "deleting"}
    /\ stage = "cleanup" => budget.state = "deleting"
    /\ stage = "cleanup" => \A d \in Names : Marked(d) => d \in todo \/ d = cur
    /\ pc = "refill" => IsScaledDownByOperator(base)
    /\ pc = "unmark" /\ ~IsScaledDownByOperator(base) => ~Marked(cur)
    /\ NothingLeftBehind

\* What a write leaves behind, at the Deployment written and elsewhere.
LEMMA WriteAt ==
    ASSUME TypeOK, NEW d \in Names, NEW o, Write(d, o)
    PROVE  /\ api'[d] = o
           /\ \A e \in Names \ {d} : api'[e] = api[e]
BY DEF TypeOK, Write

\* Who is marked after a merge patch.
LEMMA MergedMark ==
    ASSUME NEW current \in Object, NEW old \in Object, NEW new \in Object
    PROVE  MergePatch(current, old, new).by = IF new.by = old.by THEN current.by ELSE new.by
BY DEF MergePatch, MergedField

\* The forms, field by field.
LEMMA FormFields ==
    ASSUME NEW o
    PROVE  /\ AnnotatedForm(o).replicas = o.replicas
           /\ AnnotatedForm(o).by = "governor"
           /\ AnnotatedForm(o).orig = o.replicas
           /\ ZeroedForm(o).replicas = 0
           /\ ZeroedForm(o).by = o.by
           /\ ZeroedForm(o).orig = o.orig
           /\ RestoredForm(o).replicas = o.orig
           /\ RestoredForm(o).by = o.by
           /\ RestoredForm(o).orig = o.orig
           /\ UnmarkedForm(o).replicas = o.replicas
           /\ UnmarkedForm(o).by = "none"
           /\ UnmarkedForm(o).orig = Missing
           /\ ReleasedForm(o).replicas = o.orig
           /\ ReleasedForm(o).by = "none"
           /\ ReleasedForm(o).orig = Missing
BY DEF AnnotatedForm, ZeroedForm, RestoredForm, UnmarkedForm, ReleasedForm

\* CleanupInv is inductive when the cache does not lag.
LEMMA CleanupStepInv ==
    ASSUME ~CacheLag, TypeOK, InSync, CleanupInv, [Next]_vars
    PROVE  CleanupInv'
<1> USE DEF Patching, BudgetStates
<1>0. cache = api /\ seen = budget
  BY DEF InSync
<1>1. CASE EnforceStep
  <2>1. CASE StartPass \/ \E p \in Phases : Assess(p)
    BY <1>0, <2>1
       DEF CleanupInv, NothingLeftBehind, Marked, Exists, StartPass, Assess, TypeOK, server,
           objects, call
  <2>2. ASSUME NEW found \in SUBSET Names, DetectIdle(found) PROVE CleanupInv'
    BY <2>2
       DEF CleanupInv, NothingLeftBehind, Marked, Exists, DetectIdle, TypeOK, server,
           objects, call
  <2>3. ASSUME NEW d \in Names, ScaleDownSkips(d) \/ ScaleDownStarts(d) PROVE CleanupInv'
    BY <2>3
       DEF CleanupInv, NothingLeftBehind, Marked, Exists, ScaleDownSkips,
           ScaleDownStarts, TypeOK, server, objects, call
  <2>4. CASE Annotate \/ ZeroReplicas
    BY <2>4
       DEF CleanupInv, NothingLeftBehind, Annotate, ZeroReplicas, CallReturns, TypeOK, objects
  <2>5. CASE SuspendAll \/ PassEnds
    BY <2>5
       DEF CleanupInv, NothingLeftBehind, Marked, Exists, SuspendAll, PassEnds,
           ReturnToQueue, TypeOK, server, objects, call
  <2>. QED BY <1>1, <2>1, <2>2, <2>3, <2>4, <2>5 DEF EnforceStep
<1>2. CASE CleanupStep
  <2>1. CASE RegisterFinalizer
    BY <2>1
       DEF CleanupInv, NothingLeftBehind, Marked, Exists, RegisterFinalizer, WriteBudget,
           TypeOK, server, pass
  <2>2. CASE StartCleanup
    BY <1>0, <2>2
       DEF CleanupInv, NothingLeftBehind, Marked, Exists, StartCleanup, TypeOK, server,
           objects, call
  <2>3. ASSUME NEW d \in Names, RestoreSkips(d) PROVE CleanupInv'
    BY <1>0, <2>3
       DEF CleanupInv, NothingLeftBehind, Marked, Exists, RestoreSkips, TypeOK, server,
           objects, call
  <2>4. ASSUME NEW d \in Names, RestoreFails(d) PROVE CleanupInv'
    BY <2>4
       DEF CleanupInv, NothingLeftBehind, Marked, Exists, RestoreFails, ReturnToQueue,
           TypeOK, server, objects
  <2>5. ASSUME NEW d \in Names, RestoreStarts(d) PROVE CleanupInv'
    BY <2>5, NoNameAssumption
       DEF CleanupInv, NothingLeftBehind, Marked, Exists, RestoreStarts, TypeOK, server,
           objects
  <2>6. CASE RestoreReplicas
    <3>1. cur \in Names /\ base \in Object /\ HasRecord(base) /\ api[cur] \in Object
      BY <2>6 DEF TypeOK, RestoreReplicas, Exists
    <3>2. /\ api'[cur] = Patched(RestoredForm(base))
          /\ \A e \in Names \ {cur} : api'[e] = api[e]
      BY <2>6, <3>1, WriteAt DEF RestoreReplicas
    <3>3. Patched(RestoredForm(base)).by = api[cur].by
      <4>1. RestoredForm(base) \in Object
        BY <3>1, FormType
      <4>2. RestoredForm(base).by = base.by
        BY FormFields
      <4> QED
        BY <3>1, <4>1, <4>2, MergedMark DEF Patched
    <3>4. \A e \in Names : Marked(e)' => Marked(e)
      BY <3>1, <3>2, <3>3, AbsentAssumption DEF Marked, Exists, IsScaledDownByOperator
    <3>. QED
      BY <2>6, <3>1, <3>2, <3>3, <3>4
         DEF CleanupInv, NothingLeftBehind, RestoreReplicas, TypeOK, objects, Marked,
             IsScaledDownByOperator
  <2>7. CASE RemoveAnnotations
    <3>1. cur \in Names /\ base \in Object /\ api[cur] \in Object
      BY <2>7 DEF TypeOK, RemoveAnnotations, Exists
    <3>2. /\ api'[cur] = Patched(UnmarkedForm(base))
          /\ \A e \in Names \ {cur} : api'[e] = api[e]
      BY <2>7, <3>1, WriteAt DEF RemoveAnnotations
    <3>3. Patched(UnmarkedForm(base)).by
            = IF base.by = "none" THEN api[cur].by ELSE "none"
      BY <3>1, FormType, FormFields, MergedMark DEF Patched
    <3>4. base.by = "none" => ~Marked(cur)
      BY <2>7 DEF CleanupInv, RemoveAnnotations, IsScaledDownByOperator
    <3>5. \A e \in Names : Marked(e)' => Marked(e) /\ e # cur
      BY <3>1, <3>2, <3>3, <3>4, AbsentAssumption DEF Marked, Exists, IsScaledDownByOperator
    <3>. QED
      BY <2>7, <3>5
         DEF CleanupInv, NothingLeftBehind, RemoveAnnotations, CallReturns, TypeOK, objects
  <2>8. CASE RemoveFinalizer
    BY <2>8, NoNameAssumption
       DEF CleanupInv, NothingLeftBehind, Marked, Exists, RemoveFinalizer, WriteBudget,
           ReturnToQueue, TypeOK, server
  <2>9. CASE FinalizerUpdateFails
    BY <2>9
       DEF CleanupInv, NothingLeftBehind, Marked, Exists, FinalizerUpdateFails,
           ReturnToQueue, TypeOK, server, objects
  <2>. QED
    BY <1>2, <2>1, <2>2, <2>3, <2>4, <2>5, <2>6, <2>7, <2>8, <2>9 DEF CleanupStep
<1>3. CASE PatchNotFound
  BY <1>3
     DEF CleanupInv, NothingLeftBehind, Marked, Exists, PatchNotFound, CallFails,
         ReturnToQueue, CallReturns, TypeOK, server, objects
<1>4. CASE PassFails \/ PatchRejected \/ Crash
  BY <1>4
     DEF CleanupInv, NothingLeftBehind, Marked, Exists, PassFails, PatchRejected, Crash,
         CallFails, ReturnToQueue, CallReturns, TypeOK, server, objects
<1>5. CASE PatchAnswerLost
  BY <1>5
     DEF CleanupInv, NothingLeftBehind, PatchAnswerLost, CallFails, ReturnToQueue,
         CallReturns, TypeOK, objects
<1>6. CASE CacheStep
  BY <1>6 DEF CacheStep, CacheSync, BudgetSync
\* Nobody but ScaleDown marks a Deployment.
<1>7. CASE PluginStep \/ UserStep \/ UNCHANGED vars
  <2>1. ASSUME \A d \in Names : Marked(d)' => Marked(d),
               UNCHANGED control,
               budget'.state = budget.state \/ (budget.state = "new" /\ budget'.state = "absent")
                 \/ (budget.state = "active" /\ budget'.state = "deleting")
                 \/ (budget.state = "absent" /\ budget'.state = "new")
        PROVE  CleanupInv'
    BY <2>1 DEF CleanupInv, NothingLeftBehind, control, TypeOK
  <2>2. ASSUME NEW d \in Names, PluginPatch(d) PROVE CleanupInv'
    <3>1. listed[d] \in Object /\ HasRecord(listed[d]) /\ api[d] \in Object
      BY <2>2 DEF TypeOK, PluginPatch, Exists
    <3>2. /\ api'[d] = MergePatch(api[d], listed[d], ReleasedForm(listed[d]))
          /\ \A e \in Names \ {d} : api'[e] = api[e]
      BY <2>2, <3>1, WriteAt DEF PluginPatch
    <3>3. MergePatch(api[d], listed[d], ReleasedForm(listed[d])).by \in {api[d].by, "none"}
      <4>1. ReleasedForm(listed[d]) \in Object /\ ReleasedForm(listed[d]).by = "none"
        BY <3>1, FormType, FormFields
      <4>. QED BY <3>1, <4>1, MergedMark
    <3>4. \A e \in Names : Marked(e)' => Marked(e)
      BY <3>1, <3>2, <3>3, AbsentAssumption DEF Marked, Exists, IsScaledDownByOperator
    <3>. QED BY <2>1, <2>2, <3>4 DEF PluginPatch, objects, pass, control
  <2>3. CASE PluginList \/ \E d \in Names : PluginSkips(d)
    BY <2>1, <2>3
       DEF PluginList, PluginSkips, server, objects, pass, control, Marked, Exists
  <2>4. ASSUME NEW d \in Names, NEW n \in Replicas, UserScale(d, n) PROVE CleanupInv'
    <3>1. \A e \in Names : Marked(e)' => Marked(e)
      BY <2>4, WriteAt DEF UserScale, Marked, Exists, IsScaledDownByOperator, TypeOK, Object
    <3>. QED BY <2>1, <2>4, <3>1 DEF UserScale, objects, pass, control
  <2>5. ASSUME NEW d \in Names, NEW l \in LabelSets, UserRelabel(d, l) PROVE CleanupInv'
    <3>1. \A e \in Names : Marked(e)' => Marked(e)
      BY <2>5, WriteAt DEF UserRelabel, Marked, Exists, IsScaledDownByOperator, TypeOK, Object
    <3>. QED BY <2>1, <2>5, <3>1 DEF UserRelabel, objects, control
  <2>6. ASSUME NEW d \in Names, NEW o, UserTampers(d, o) PROVE CleanupInv'
    <3>1. \A e \in Names : Marked(e)' => Marked(e)
      BY <2>6, WriteAt DEF UserTampers, Marked, Exists, IsScaledDownByOperator, TypeOK, Object
    <3>. QED BY <2>1, <2>6, <3>1 DEF UserTampers, objects, pass, control
  <2>7. ASSUME NEW d \in Names, UserDeletes(d) PROVE CleanupInv'
    <3>1. \A e \in Names : Marked(e)' => Marked(e)
      BY <2>7, WriteAt DEF UserDeletes, Marked, Exists
    <3>. QED BY <2>1, <2>7, <3>1 DEF UserDeletes, objects, control
  <2>8. ASSUME NEW d \in Names, NEW n, NEW l, UserCreates(d, n, l) PROVE CleanupInv'
    <3>1. \A e \in Names : Marked(e)' => Marked(e)
      BY <2>8, WriteAt DEF UserCreates, Fresh, Marked, Exists, IsScaledDownByOperator
    <3>. QED BY <2>1, <2>8, <3>1 DEF UserCreates, objects, control
  <2>9. ASSUME NEW exclusions \in ExclusionSpecs,
               BudgetCreate(exclusions) \/ BudgetEdit(exclusions) \/ BudgetDelete
        PROVE  CleanupInv'
    BY <2>1, <2>9
       DEF BudgetCreate, BudgetEdit, BudgetDelete, WriteBudget, server, pass, control,
           Marked, Exists, TypeOK
  <2>10. CASE BudgetDelete
    BY <2>1, <2>10 DEF BudgetDelete, WriteBudget, server, pass, control, Marked, Exists, TypeOK
  <2>11. CASE UNCHANGED vars
    BY <2>1, <2>11 DEF vars, control, Marked, Exists
  <2>. QED
    BY <1>7, <2>2, <2>3, <2>4, <2>5, <2>6, <2>7, <2>8, <2>9, <2>10, <2>11
       DEF PluginStep, UserStep
<1>. QED
  BY <1>1, <1>2, <1>3, <1>4, <1>5, <1>6, <1>7 DEF Next, ControllerStep, FaultStep

\* Reading a cache that does not lag, the operator never lets a budget go while a
\* Deployment still carries its mark, whatever crashes, fails, races with the
\* plugin or is tampered with (cleanup and steps 2 and 3 of Reconcile).
THEOREM FinalizerGivesBack ==
    ASSUME ~CacheLag
    PROVE  Spec => []NothingLeftBehind
<1>1. Init => InSync /\ CleanupInv
  BY NoNameAssumption
     DEF Init, InSync, CleanupInv, NothingLeftBehind, Marked, Exists, Fresh,
         IsScaledDownByOperator
<1>2. TypeOK /\ InSync /\ CleanupInv /\ [Next]_vars => InSync' /\ CleanupInv'
  BY SyncStep, CleanupStepInv
<1>3. CleanupInv => NothingLeftBehind
  BY DEF CleanupInv
<1>. QED BY <1>1, <1>2, <1>3, TypeCorrect, PTL DEF Spec

-----------------------------------------------------------------------------
(***************************************************************************)
(* Exclusions are honoured: what a pass finds excluded from its start on   *)
(* it never takes in hand, with a cache of any age.                        *)
(*                                                                         *)
(* The checks and the patches are separate steps, so the invariant has to  *)
(* follow the decision: a shielded workload is excluded as the cache shows *)
(* it now, is not in the loop's remaining work, and is not in hand.        *)
(***************************************************************************)
ShieldInv ==
    /\ pc = "wait" => shield = {}
    /\ \A d \in shield : ExcludedAsRead(d, cache[d], excl)
    /\ stage \in {"idle", "suspend"} => todo \cap shield = {}
    /\ ShieldedNeverInHand

\* A write that keeps the labels of an existing Deployment changes nothing about
\* what the cache shows as excluded.
LEMMA LabelsKept ==
    ASSUME TypeOK, InSync, NEW d \in Names, NEW o, Write(d, o), Exists(d), o # Absent,
           o.labels = api[d].labels, NEW e \in Names, NEW exclusions,
           ExcludedAsRead(e, cache[e], exclusions)
    PROVE  ExcludedAsRead(e, cache'[e], exclusions)
BY DEF TypeOK, InSync, Write, Exists, ExcludedAsRead

\* A merge patch keeps the labels.
LEMMA MergeKeepsLabels ==
    ASSUME NEW current, NEW old, NEW new
    PROVE  MergePatch(current, old, new).labels = current.labels
BY DEF MergePatch

\* ShieldInv is inductive, whatever the constants.
LEMMA ShieldStep ==
    ASSUME TypeOK, InSync, ShieldInv, [Next]_vars
    PROVE  ShieldInv'
<1> USE DEF Patching
<1>0. shield \subseteq Names
  BY DEF TypeOK
<1>1. CASE StartPass \/ \E p \in Phases : Assess(p)
  BY <1>1 DEF ShieldInv, ShieldedNeverInHand, StartPass, Assess, TypeOK, server, objects, call
<1>2. ASSUME NEW found \in SUBSET Names, DetectIdle(found) PROVE ShieldInv'
  BY <1>0, <1>2
     DEF ShieldInv, ShieldedNeverInHand, DetectIdle, ExcludedAsRead, Excluded, server, call
<1>3. ASSUME NEW d \in Names, ScaleDownSkips(d) PROVE ShieldInv'
  BY <1>3 DEF ShieldInv, ShieldedNeverInHand, ScaleDownSkips, server, call
<1>4. ASSUME NEW d \in Names, ScaleDownStarts(d) PROVE ShieldInv'
  BY <1>4 DEF ShieldInv, ShieldedNeverInHand, ScaleDownStarts, server
<1>5. CASE SuspendAll
  BY <1>0, <1>5
     DEF ShieldInv, ShieldedNeverInHand, SuspendAll, ScaleDownApplies, ExcludedAsRead,
         Excluded, server, call
<1>6. ASSUME NEW form \in Object, pc \in Patching, Exists(cur), Write(cur, Patched(form)),
             UNCHANGED <<excl, shield>>
      PROVE  \A d \in shield' : ExcludedAsRead(d, cache'[d], excl')
  <2>1. cur \in Names /\ base \in Object /\ api[cur] \in Object
    BY <1>6 DEF TypeOK, Exists
  <2>2. Patched(form) # Absent /\ Patched(form).labels = api[cur].labels
    BY <1>6, <2>1, MergePatchType, MergeKeepsLabels, AbsentAssumption DEF Patched
  <2>. QED BY <1>0, <1>6, <2>1, <2>2, LabelsKept DEF ShieldInv
<1>7. CASE Annotate
  <2>1. AnnotatedForm(base) \in Object
    BY <1>7, FormType DEF TypeOK, Annotate
  <2>. QED BY <1>6, <1>7, <2>1 DEF ShieldInv, ShieldedNeverInHand, Annotate, TypeOK
<1>8. CASE ZeroReplicas
  <2>1. ZeroedForm(base) \in Object
    BY <1>8, FormType DEF TypeOK, ZeroReplicas
  <2>. QED
    BY <1>6, <1>8, <2>1 DEF ShieldInv, ShieldedNeverInHand, ZeroReplicas, CallReturns, TypeOK
<1>9. CASE RestoreReplicas
  <2>1. RestoredForm(base) \in Object
    BY <1>9, FormType DEF TypeOK, RestoreReplicas
  <2>. QED BY <1>6, <1>9, <2>1 DEF ShieldInv, ShieldedNeverInHand, RestoreReplicas, TypeOK
<1>10. CASE RemoveAnnotations
  <2>1. UnmarkedForm(base) \in Object
    BY <1>10, FormType DEF TypeOK, RemoveAnnotations
  <2>. QED
    BY <1>6, <1>10, <2>1
       DEF ShieldInv, ShieldedNeverInHand, RemoveAnnotations, CallReturns, TypeOK
<1>11. CASE PatchAnswerLost
  <2>1. CASE stage = "cleanup"
    BY <1>11, <2>1 DEF ShieldInv, ShieldedNeverInHand, PatchAnswerLost, CallFails, ReturnToQueue
  <2>2. CASE stage # "cleanup"
    <3>1. CallForm \in Object
      BY <1>11, <2>2, FormType DEF TypeOK, PatchAnswerLost, CallForm
    <3>. QED
      BY <1>6, <1>11, <2>2, <3>1
         DEF ShieldInv, ShieldedNeverInHand, PatchAnswerLost, CallFails, CallReturns, TypeOK
  <2>. QED BY <2>1, <2>2
<1>12. CASE PatchNotFound \/ PatchRejected
  BY <1>12
     DEF ShieldInv, ShieldedNeverInHand, PatchNotFound, PatchRejected, CallFails,
         ReturnToQueue, CallReturns, server
<1>13. CASE PassEnds \/ PassFails \/ Crash \/ RemoveFinalizer \/ FinalizerUpdateFails
              \/ \E d \in Names : RestoreFails(d)
  BY <1>13
     DEF ShieldInv, ShieldedNeverInHand, PassEnds, PassFails, Crash, RemoveFinalizer,
         FinalizerUpdateFails, RestoreFails, ReturnToQueue
<1>14. CASE RegisterFinalizer \/ BudgetSync \/ BudgetDelete
              \/ \E exclusions \in ExclusionSpecs :
                    BudgetCreate(exclusions) \/ BudgetEdit(exclusions)
  BY <1>14
     DEF ShieldInv, ShieldedNeverInHand, RegisterFinalizer, BudgetSync, BudgetDelete,
         BudgetCreate, BudgetEdit, server, pass
<1>15. CASE StartCleanup
  BY <1>15 DEF ShieldInv, ShieldedNeverInHand, StartCleanup, TypeOK, call
<1>16. ASSUME NEW d \in Names, RestoreSkips(d) \/ RestoreStarts(d) PROVE ShieldInv'
  BY <1>16
     DEF ShieldInv, ShieldedNeverInHand, RestoreSkips, RestoreStarts, server, call, TypeOK
<1>17. CASE PluginList \/ \E d \in Names : PluginSkips(d)
  BY <1>17 DEF ShieldInv, ShieldedNeverInHand, PluginList, PluginSkips, server, pass
<1>18. ASSUME NEW d \in Names, PluginPatch(d) PROVE ShieldInv'
  <2> DEFINE patched == MergePatch(api[d], listed[d], ReleasedForm(listed[d]))
  <2>1. listed[d] \in Object /\ HasRecord(listed[d]) /\ api[d] \in Object
    BY <1>18 DEF TypeOK, PluginPatch, Exists
  <2>2. patched # Absent /\ patched.labels = api[d].labels
    BY <2>1, FormType, MergePatchType, MergeKeepsLabels, AbsentAssumption
  <2>3. Write(d, patched) /\ Exists(d) /\ UNCHANGED pass
    BY <1>18 DEF PluginPatch
  <2>4. \A e \in shield : ExcludedAsRead(e, cache'[e], excl)
    BY <1>0, <2>2, <2>3, LabelsKept DEF ShieldInv
  <2>. QED BY <2>3, <2>4 DEF ShieldInv, ShieldedNeverInHand, pass
<1>19. ASSUME NEW d \in Names, NEW n \in Replicas, UserScale(d, n) PROVE ShieldInv'
  <2> DEFINE scaled == [api[d] EXCEPT !.replicas = n]
  <2>1. scaled \in Object /\ scaled.labels = api[d].labels
    BY <1>19 DEF TypeOK, UserScale, Exists, Object
  <2>2. Write(d, scaled) /\ Exists(d) /\ UNCHANGED pass
    BY <1>19 DEF UserScale
  <2>3. \A e \in shield : ExcludedAsRead(e, cache'[e], excl)
    BY <1>0, <2>1, <2>2, LabelsKept, AbsentAssumption DEF ShieldInv
  <2>. QED BY <2>2, <2>3 DEF ShieldInv, ShieldedNeverInHand, pass
<1>20. ASSUME NEW d \in Names, NEW o \in {Missing, Garbage}, UserTampers(d, o)
       PROVE  ShieldInv'
  <2> DEFINE tampered == [api[d] EXCEPT !.orig = o]
  <2>1. tampered \in Object /\ tampered.labels = api[d].labels
    BY <1>20 DEF TypeOK, UserTampers, Marked, Exists, Object
  <2>2. Write(d, tampered) /\ Exists(d) /\ UNCHANGED pass
    BY <1>20 DEF UserTampers, Marked
  <2>3. \A e \in shield : ExcludedAsRead(e, cache'[e], excl)
    BY <1>0, <2>1, <2>2, LabelsKept, AbsentAssumption DEF ShieldInv
  <2>. QED BY <2>2, <2>3 DEF ShieldInv, ShieldedNeverInHand, pass
<1>21. ASSUME UNCHANGED control, ShieldFollows PROVE ShieldInv'
  BY <1>21 DEF ShieldInv, ShieldedNeverInHand, control, ShieldFollows
<1>22. ASSUME NEW d, NEW n, NEW l,
              CacheSync(d) \/ UserRelabel(d, l) \/ UserDeletes(d) \/ UserCreates(d, n, l)
       PROVE  ShieldInv'
  BY <1>21, <1>22 DEF CacheSync, UserRelabel, UserDeletes, UserCreates
<1>23. CASE UNCHANGED vars
  BY <1>23 DEF ShieldInv, ShieldedNeverInHand, vars
<1>. QED
  BY <1>1, <1>2, <1>3, <1>4, <1>5, <1>7, <1>8, <1>9, <1>10, <1>11, <1>12, <1>13, <1>14,
     <1>15, <1>16, <1>17, <1>18, <1>19, <1>20, <1>22, <1>23
     DEF Next, ControllerStep, EnforceStep, CleanupStep, FaultStep, CacheStep, PluginStep,
         UserStep

\* A workload that was excluded ever since the pass read its budget, as the controller's
\* cache shows budget and labels, is not scaled down by that pass, however late the
\* cache is (the filter of step 7, SuspendAll's filter, and the reads that follow them).
THEOREM ExclusionsHonoured == Spec => []ShieldedNeverInHand
<1>1. Init => InSync /\ ShieldInv
  BY DEF Init, InSync, ShieldInv, ShieldedNeverInHand
<1>2. TypeOK /\ InSync /\ ShieldInv /\ [Next]_vars => InSync' /\ ShieldInv'
  BY SyncStep, ShieldStep
<1>3. ShieldInv => ShieldedNeverInHand
  BY DEF ShieldInv
<1>. QED BY <1>1, <1>2, <1>3, TypeCorrect, PTL DEF Spec
=============================================================================
