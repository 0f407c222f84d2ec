--------------------------- MODULE RecoveryProofs ---------------------------
(***************************************************************************)
(* What the operator's patches can and cannot lose: the mark and the       *)
(* record stay together under any interleaving of merge patches, and a     *)
(* workload is not left at zero without its record.                        *)
(***************************************************************************)
EXTENDS WorkloadScalingProofs

\* Mark and record go together, and the record is positive.
Sound(o) ==
    IF IsScaledDownByOperator(o) THEN HasRecord(o) /\ o.orig # 0 ELSE o.orig = Missing

\* Each patch of ScaleDown, of Restore and of the plugin, computed from a sound
\* copy, leaves a sound object sound, however the two differ.
LEMMA SoundMerge ==
    ASSUME NEW current \in Object, NEW old \in Object, Sound(current), Sound(old)
    PROVE  /\ ~IsScaledDownByOperator(old) /\ old.replicas # 0
                => /\ Sound(MergePatch(current, old, AnnotatedForm(old)))
                   /\ IsScaledDownByOperator(MergePatch(current, old, AnnotatedForm(old)))
           /\ Sound(MergePatch(current, old, ZeroedForm(old)))
           /\ Sound(MergePatch(current, old, RestoredForm(old)))
           /\ Sound(MergePatch(current, old, UnmarkedForm(old)))
           /\ Sound(MergePatch(current, old, ReleasedForm(old)))
<1> USE RecordAssumption
        DEF Sound, IsScaledDownByOperator, HasRecord, MergePatch, MergedField, Object, Replicas
<1>1. ~IsScaledDownByOperator(old) /\ old.replicas # 0
        => /\ Sound(MergePatch(current, old, AnnotatedForm(old)))
           /\ IsScaledDownByOperator(MergePatch(current, old, AnnotatedForm(old)))
  BY DEF AnnotatedForm
<1>2. Sound(MergePatch(current, old, ZeroedForm(old)))
  BY DEF ZeroedForm
<1>3. Sound(MergePatch(current, old, RestoredForm(old)))
  BY DEF RestoredForm
<1>4. Sound(MergePatch(current, old, UnmarkedForm(old)))
  BY DEF UnmarkedForm
<1>5. Sound(MergePatch(current, old, ReleasedForm(old)))
  BY DEF ReleasedForm, UnmarkedForm, RestoredForm
<1>. QED BY <1>1, <1>2, <1>3, <1>4, <1>5

(***************************************************************************)
(* MarkedIsRestorable speaks of the server only.  To be inductive it needs *)
(* the same of every copy a patch is computed from: the cache, the copy in *)
(* the running call and the plugin's list.                                 *)
(***************************************************************************)
SoundInv ==
    /\ \A d \in Names : api[d] # Absent => Sound(api[d])
    /\ \A d \in Names : cache[d] # Absent => Sound(cache[d])
    /\ \A d \in Names : listed[d] # Absent => Sound(listed[d])
    /\ pc \in Patching => Sound(base)
    /\ pc = "annotate" => ~IsScaledDownByOperator(base) /\ base.replicas # 0

\* A sound write keeps the server's objects and the cache sound.
LEMMA SoundWrite ==
    ASSUME TypeOK, SoundInv, NEW d \in Names, NEW o, o = Absent \/ Sound(o), Write(d, o)
    PROVE  /\ \A e \in Names : api'[e] # Absent => Sound(api'[e])
           /\ \A e \in Names : cache'[e] # Absent => Sound(cache'[e])
BY DEF TypeOK, SoundInv, Write

\* SoundInv is inductive unless users tamper with the records.
LEMMA SoundStep ==
    ASSUME "tamper" \notin UserOps, TypeOK, SoundInv, [Next]_vars
    PROVE  SoundInv'
<1> USE DEF Patching
<1>1. CASE Annotate
  <2>1. cur \in Names /\ base \in Object /\ api[cur] \in Object
    BY <1>1 DEF TypeOK, Annotate, Exists
  <2>2. Sound(Patched(AnnotatedForm(base)))
    BY <1>1, <2>1, SoundMerge, AbsentAssumption DEF SoundInv, Annotate, Patched
  <2>3. /\ \A e \in Names : api'[e] # Absent => Sound(api'[e])
        /\ \A e \in Names : cache'[e] # Absent => Sound(cache'[e])
    BY <1>1, <2>1, <2>2, SoundWrite DEF Annotate
  <2>. QED BY <1>1, <2>2, <2>3 DEF SoundInv, Annotate
<1>2. CASE ZeroReplicas
  <2>1. cur \in Names /\ base \in Object /\ api[cur] \in Object
    BY <1>2 DEF TypeOK, ZeroReplicas, Exists
  <2>2. Sound(Patched(ZeroedForm(base)))
    BY <1>2, <2>1, SoundMerge, AbsentAssumption DEF SoundInv, ZeroReplicas, Patched
  <2>3. /\ \A e \in Names : api'[e] # Absent => Sound(api'[e])
        /\ \A e \in Names : cache'[e] # Absent => Sound(cache'[e])
    BY <1>2, <2>1, <2>2, SoundWrite DEF ZeroReplicas
  <2>. QED BY <1>2, <2>3 DEF SoundInv, ZeroReplicas, CallReturns
<1>3. CASE RestoreReplicas
  <2>1. cur \in Names /\ base \in Object /\ api[cur] \in Object
    BY <1>3 DEF TypeOK, RestoreReplicas, Exists
  <2>2. Sound(Patched(RestoredForm(base)))
    BY <1>3, <2>1, SoundMerge, AbsentAssumption DEF SoundInv, RestoreReplicas, Patched
  <2>3. /\ \A e \in Names : api'[e] # Absent => Sound(api'[e])
        /\ \A e \in Names : cache'[e] # Absent => Sound(cache'[e])
    BY <1>3, <2>1, <2>2, SoundWrite DEF RestoreReplicas
  <2>. QED BY <1>3, <2>2, <2>3 DEF SoundInv, RestoreReplicas
<1>4. CASE RemoveAnnotations
  <2>1. cur \in Names /\ base \in Object /\ api[cur] \in Object
    BY <1>4 DEF TypeOK, RemoveAnnotations, Exists
  <2>2. Sound(Patched(UnmarkedForm(base)))
    BY <1>4, <2>1, SoundMerge, AbsentAssumption DEF SoundInv, RemoveAnnotations, Patched
  <2>3. /\ \A e \in Names : api'[e] # Absent => Sound(api'[e])
        /\ \A e \in Names : cache'[e] # Absent => Sound(cache'[e])
    BY <1>4, <2>1, <2>2, SoundWrite DEF RemoveAnnotations
  <2>. QED BY <1>4, <2>3 DEF SoundInv, RemoveAnnotations, CallReturns
<1>5. CASE PatchAnswerLost
  <2>1. cur \in Names /\ base \in Object /\ api[cur] \in Object
    BY <1>5 DEF TypeOK, PatchAnswerLost, Exists
  <2>2. Sound(api[cur]) /\ Sound(base)
    BY <1>5, <2>1, AbsentAssumption DEF SoundInv, PatchAnswerLost
  <2>3. Sound(Patched(CallForm))
    BY <1>5, <2>1, <2>2, SoundMerge DEF SoundInv, PatchAnswerLost, Patched, CallForm
  <2>4. /\ \A e \in Names : api'[e] # Absent => Sound(api'[e])
        /\ \A e \in Names : cache'[e] # Absent => Sound(cache'[e])
    BY <1>5, <2>1, <2>3, SoundWrite DEF PatchAnswerLost
  <2>. QED
    BY <1>5, <2>4 DEF SoundInv, PatchAnswerLost, CallFails, ReturnToQueue, CallReturns
<1>6. ASSUME NEW d \in Names, ScaleDownStarts(d) PROVE SoundInv'
  BY <1>6 DEF SoundInv, ScaleDownStarts, ScaleDownApplies, server
<1>7. ASSUME NEW d \in Names, RestoreStarts(d) PROVE SoundInv'
  BY <1>7 DEF SoundInv, RestoreStarts, server
<1>8. CASE \/ StartPass \/ \E p \in Phases : Assess(p)
           \/ \E found \in SUBSET Names : DetectIdle(found)
           \/ \E d \in Names : ScaleDownSkips(d) \/ RestoreSkips(d) \/ RestoreFails(d)
           \/ SuspendAll \/ PassEnds \/ StartCleanup
  BY <1>8
     DEF SoundInv, StartPass, Assess, DetectIdle, ScaleDownSkips, RestoreSkips, RestoreFails,
         SuspendAll, PassEnds, StartCleanup, ReturnToQueue, server, call
<1>9. CASE RegisterFinalizer \/ RemoveFinalizer \/ FinalizerUpdateFails
  BY <1>9
     DEF SoundInv, RegisterFinalizer, RemoveFinalizer, FinalizerUpdateFails,
         ReturnToQueue, server, pass
<1>10. CASE PatchNotFound \/ PassFails \/ PatchRejected \/ Crash
  BY <1>10
     DEF SoundInv, PatchNotFound, PassFails, PatchRejected, Crash, CallFails,
         ReturnToQueue, CallReturns, server
<1>11. CASE CacheStep
  BY <1>11
     DEF SoundInv, TypeOK, CacheStep, CacheSync, BudgetSync, server, pass, control
<1>12. ASSUME NEW d \in Names, PluginPatch(d) PROVE SoundInv'
  <2>1. listed[d] \in Object /\ api[d] \in Object
    BY <1>12 DEF TypeOK, PluginPatch, Exists
  <2>2. Sound(MergePatch(api[d], listed[d], ReleasedForm(listed[d])))
    BY <1>12, <2>1, SoundMerge, AbsentAssumption DEF SoundInv, PluginPatch
  <2>3. /\ \A e \in Names : api'[e] # Absent => Sound(api'[e])
        /\ \A e \in Names : cache'[e] # Absent => Sound(cache'[e])
    BY <1>12, <2>1, <2>2, SoundWrite DEF PluginPatch
  <2>. QED BY <1>12, <2>3 DEF SoundInv, TypeOK, PluginPatch, pass
<1>13. CASE PluginList \/ \E d \in Names : PluginSkips(d)
  BY <1>13 DEF SoundInv, TypeOK, PluginList, PluginSkips, Marked, Exists, server, pass
<1>14. ASSUME NEW d \in Names, NEW n \in Replicas, UserScale(d, n) PROVE SoundInv'
  <2>1. Sound([api[d] EXCEPT !.replicas = n])
    BY <1>14 DEF SoundInv, Sound, IsScaledDownByOperator, HasRecord, UserScale, Exists,
                 TypeOK, Object
  <2>2. /\ \A e \in Names : api'[e] # Absent => Sound(api'[e])
        /\ \A e \in Names : cache'[e] # Absent => Sound(cache'[e])
    BY <1>14, <2>1, SoundWrite DEF UserScale
  <2>. QED BY <1>14, <2>2 DEF SoundInv, UserScale, pass
<1>15. ASSUME NEW d \in Names, NEW l \in LabelSets, UserRelabel(d, l) PROVE SoundInv'
  <2>1. Sound([api[d] EXCEPT !.labels = l])
    BY <1>15 DEF SoundInv, Sound, IsScaledDownByOperator, HasRecord, UserRelabel, Exists,
                 TypeOK, Object
  <2>2. /\ \A e \in Names : api'[e] # Absent => Sound(api'[e])
        /\ \A e \in Names : cache'[e] # Absent => Sound(cache'[e])
    BY <1>15, <2>1, SoundWrite DEF UserRelabel
  <2>. QED BY <1>15, <2>2 DEF SoundInv, UserRelabel, control
<1>16. ASSUME NEW d \in Names, NEW o, UserTampers(d, o) PROVE SoundInv'
  BY <1>16 DEF UserTampers
<1>17. ASSUME NEW d \in Names, UserDeletes(d) PROVE SoundInv'
  <2>1. /\ \A e \in Names : api'[e] # Absent => Sound(api'[e])
        /\ \A e \in Names : cache'[e] # Absent => Sound(cache'[e])
    BY <1>17, SoundWrite DEF UserDeletes
  <2>. QED BY <1>17, <2>1 DEF SoundInv, UserDeletes, control
<1>18. ASSUME NEW d \in Names, NEW n, NEW l, UserCreates(d, n, l) PROVE SoundInv'
  <2>1. Sound(Fresh(n, l))
    BY DEF Sound, Fresh, IsScaledDownByOperator
  <2>2. /\ \A e \in Names : api'[e] # Absent => Sound(api'[e])
        /\ \A e \in Names : cache'[e] # Absent => Sound(cache'[e])
    BY <1>18, <2>1, SoundWrite DEF UserCreates
  <2>. QED BY <1>18, <2>2 DEF SoundInv, UserCreates, control
<1>19. CASE \/ \E exclusions \in ExclusionSpecs :
                 BudgetCreate(exclusions) \/ BudgetEdit(exclusions)
            \/ BudgetDelete
  BY <1>19 DEF SoundInv, BudgetCreate, BudgetEdit, BudgetDelete, server, pass
<1>20. CASE UNCHANGED vars
  BY <1>20 DEF SoundInv, vars
<1>. QED
  BY <1>1, <1>2, <1>3, <1>4, <1>5, <1>6, <1>7, <1>8, <1>9, <1>10, <1>11, <1>12, <1>13,
     <1>14, <1>15, <1>16, <1>17, <1>18, <1>19, <1>20
     DEF Next, ControllerStep, EnforceStep, CleanupStep, FaultStep, CacheStep, PluginStep,
         UserStep

\* As long as nobody tampers with the records, a Deployment is marked exactly when
\* it carries a positive record, with a cache of any age, with the plugin and
\* users patching the same objects, through any failure (scaledown.go, restore.go).
THEOREM MarksStayRestorable ==
    ASSUME "tamper" \notin UserOps
    PROVE  Spec => []MarkedIsRestorable
<1>1. Init => SoundInv
  BY DEF Init, SoundInv, Sound, Fresh, IsScaledDownByOperator, Patching
<1>2. TypeOK /\ SoundInv /\ [Next]_vars => SoundInv'
  BY SoundStep
<1>3. SoundInv => MarkedIsRestorable
  BY DEF SoundInv, Sound, MarkedIsRestorable, Exists
<1>. QED BY <1>1, <1>2, <1>3, TypeCorrect, PTL DEF Spec

-----------------------------------------------------------------------------
(***************************************************************************)
(* No workload is left at zero without its record.  Recoverable needs to   *)
(* know, beyond SoundInv, what is between two patches of one call: after   *)
(* ScaleDown's first patch the mark is there; before Restore's second one  *)
(* the replicas are back.  The latter holds although Restore's first patch *)
(* is empty when its copy shows the recorded count already, because such a *)
(* copy is then the truth.  The plugin, a lagging cache and a Deployment   *)
(* re-created in between each break that argument, and TLC shows the       *)
(* outcome for the first two.                                              *)
(***************************************************************************)
RecoverInv ==
    /\ \A d \in Names : listed[d] = Absent
    /\ pc = "zero" /\ Exists(cur) => Marked(cur)
    /\ pc = "refill" /\ Exists(cur) /\ base.replicas = base.orig /\ api[cur].replicas = 0
         => want[cur] = 0
    /\ pc = "unmark" /\ Exists(cur) /\ api[cur].replicas = 0 => want[cur] = 0
    /\ \A d \in Names : Exists(d) /\ api[d].replicas = 0 /\ want[d] # 0 => Marked(d)

\* Replicas, mark and record after a merge patch, at an existing Deployment.
LEMMA MergedFields ==
    ASSUME NEW current, NEW old, NEW new
    PROVE  LET m == MergePatch(current, old, new)
           IN  /\ m.replicas = IF new.replicas = old.replicas THEN current.replicas
                                                              ELSE new.replicas
               /\ m.by = IF new.by = old.by THEN current.by ELSE new.by
BY DEF MergePatch, MergedField

\* RecoverInv is inductive in a namespace where the cache does not lag, the plugin
\* is not used, records are left alone and no Deployment comes back under an old
\* name.
LEMMA RecoverStep ==
    ASSUME ~CacheLag, ~PluginOn, "tamper" \notin UserOps, "create" \notin UserOps,
           TypeOK, InSync, SoundInv, RecoverInv, [Next]_vars
    PROVE  RecoverInv'
<1> USE DEF Patching
<1>0. cache = api
  BY DEF InSync
<1>1. CASE Annotate
  <2>1. cur \in Names /\ base \in Object /\ api[cur] \in Object
    BY <1>1 DEF TypeOK, Annotate, Exists
  <2>2. /\ api'[cur] = Patched(AnnotatedForm(base))
        /\ \A e \in Names \ {cur} : api'[e] = api[e]
    BY <1>1, <2>1, WriteAt DEF Annotate
  <2>3. IsScaledDownByOperator(Patched(AnnotatedForm(base)))
    BY <1>1, <2>1, SoundMerge, AbsentAssumption DEF SoundInv, Annotate, Patched
  <2>. QED
    BY <1>1, <2>1, <2>2, <2>3 DEF RecoverInv, Annotate, Marked, Exists
<1>2. CASE ZeroReplicas
  <2>1. cur \in Names /\ base \in Object /\ api[cur] \in Object
    BY <1>2 DEF TypeOK, ZeroReplicas, Exists
  <2>2. /\ api'[cur] = Patched(ZeroedForm(base))
        /\ \A e \in Names \ {cur} : api'[e] = api[e]
    BY <1>2, <2>1, WriteAt DEF ZeroReplicas
  <2>3. IsScaledDownByOperator(Patched(ZeroedForm(base)))
    BY <1>2, FormFields, MergedFields
       DEF RecoverInv, ZeroReplicas, Marked, Patched, IsScaledDownByOperator
  <2>. QED
    BY <1>2, <2>1, <2>2, <2>3 DEF RecoverInv, ZeroReplicas, CallReturns, Marked, Exists
<1>3. CASE RestoreReplicas
  <2>1. cur \in Names /\ base \in Object /\ api[cur] \in Object
    BY <1>3 DEF TypeOK, RestoreReplicas, Exists
  <2>2. /\ api'[cur] = Patched(RestoredForm(base))
        /\ \A e \in Names \ {cur} : api'[e] = api[e]
    BY <1>3, <2>1, WriteAt DEF RestoreReplicas
  <2>3. Patched(RestoredForm(base)).by = api[cur].by
    BY FormFields, MergedFields DEF Patched
  <2>4. Patched(RestoredForm(base)).replicas
          = IF base.orig = base.replicas THEN api[cur].replicas ELSE base.orig
    BY FormFields, MergedFields DEF Patched
  <2>5. base.orig # 0
    BY <1>3, <2>1, RecordAssumption, MaxReplicasAssumption
       DEF SoundInv, Sound, RestoreReplicas, TypeOK, HasRecord, Replicas
  <2>6. Patched(RestoredForm(base)).replicas = 0 => want[cur] = 0
    BY <1>3, <2>4, <2>5 DEF RecoverInv, RestoreReplicas
  <2>. QED
    BY <1>3, <2>1, <2>2, <2>6 DEF RecoverInv, RestoreReplicas, Marked, Exists
<1>4. CASE RemoveAnnotations
  <2>1. cur \in Names /\ base \in Object /\ api[cur] \in Object
    BY <1>4 DEF TypeOK, RemoveAnnotations, Exists
  <2>2. /\ api'[cur] = Patched(UnmarkedForm(base))
        /\ \A e \in Names \ {cur} : api'[e] = api[e]
    BY <1>4, <2>1, WriteAt DEF RemoveAnnotations
  <2>3. Patched(UnmarkedForm(base)).replicas = api[cur].replicas
    BY FormFields, MergedFields DEF Patched
  <2>. QED
    BY <1>4, <2>1, <2>2, <2>3 DEF RecoverInv, RemoveAnnotations, CallReturns, Marked, Exists
<1>5. CASE PatchAnswerLost
  <2>1. cur \in Names /\ base \in Object /\ api[cur] \in Object
    BY <1>5 DEF TypeOK, PatchAnswerLost, Exists
  <2>2. /\ api'[cur] = Patched(CallForm)
        /\ \A e \in Names \ {cur} : api'[e] = api[e]
    BY <1>5, <2>1, WriteAt DEF PatchAnswerLost
  <2>3. Sound(api[cur]) /\ Sound(base)
    BY <1>5, <2>1, AbsentAssumption DEF SoundInv, PatchAnswerLost
  <2>4. Patched(CallForm).replicas = 0 /\ want[cur] # 0
          => IsScaledDownByOperator(Patched(CallForm))
    <3>1. CASE pc = "annotate"
      BY <2>1, <2>3, <3>1, SoundMerge DEF SoundInv, Patched, CallForm
    <3>2. CASE pc = "zero"
      BY <1>5, <3>2, FormFields, MergedFields
         DEF RecoverInv, PatchAnswerLost, Marked, Patched, CallForm, IsScaledDownByOperator
    <3>3. CASE pc = "refill"
      <4>1. base.orig # 0
        BY <2>1, <2>3, <3>3, RecordAssumption DEF Sound, TypeOK, HasRecord, Replicas
      <4>. QED
        BY <1>5, <3>3, <4>1, FormFields, MergedFields
           DEF RecoverInv, PatchAnswerLost, Patched, CallForm
    <3>4. CASE pc = "unmark"
      BY <1>5, <3>4, FormFields, MergedFields
         DEF RecoverInv, PatchAnswerLost, Patched, CallForm
    <3>. QED BY <1>5, <3>1, <3>2, <3>3, <3>4 DEF PatchAnswerLost
  <2>. QED
    BY <1>5, <2>1, <2>2, <2>4
       DEF RecoverInv, PatchAnswerLost, CallFails, ReturnToQueue, CallReturns, Marked, Exists
<1>6. ASSUME NEW d \in Names, ScaleDownStarts(d) PROVE RecoverInv'
  BY <1>6 DEF RecoverInv, ScaleDownStarts, server, Marked, Exists
<1>7. ASSUME NEW d \in Names, RestoreStarts(d) PROVE RecoverInv'
  <2>1. Sound(api[d]) /\ IsScaledDownByOperator(api[d]) /\ base' = api[d]
    BY <1>0, <1>7 DEF SoundInv, RestoreStarts
  <2>2. base'.orig # 0
    BY <2>1 DEF Sound
  <2>. QED
    BY <1>7, <2>1, <2>2 DEF RecoverInv, RestoreStarts, server, Marked, Exists
<1>8. CASE \/ StartPass \/ \E p \in Phases : Assess(p)
           \/ \E found \in SUBSET Names : DetectIdle(found)
           \/ \E d \in Names : ScaleDownSkips(d) \/ RestoreSkips(d) \/ RestoreFails(d)
           \/ SuspendAll \/ PassEnds \/ StartCleanup
  BY <1>8
     DEF RecoverInv, StartPass, Assess, DetectIdle, ScaleDownSkips, RestoreSkips, RestoreFails,
         SuspendAll, PassEnds, StartCleanup, ReturnToQueue, server, call, Marked, Exists
<1>9. CASE RegisterFinalizer \/ RemoveFinalizer \/ FinalizerUpdateFails
  BY <1>9
     DEF RecoverInv, RegisterFinalizer, RemoveFinalizer, FinalizerUpdateFails,
         ReturnToQueue, server, pass, Marked, Exists
<1>10. CASE PatchNotFound \/ PassFails \/ PatchRejected \/ Crash
  BY <1>10
     DEF RecoverInv, PatchNotFound, PassFails, PatchRejected, Crash, CallFails,
         ReturnToQueue, CallReturns, server, Marked, Exists
<1>11. CASE CacheStep
  BY <1>11 DEF CacheStep, CacheSync, BudgetSync
<1>12. CASE PluginStep
  BY <1>12 DEF PluginStep, PluginList, PluginPatch, PluginSkips, RecoverInv
<1>13. ASSUME NEW d \in Names, NEW n \in Replicas, UserScale(d, n) PROVE RecoverInv'
  <2>1. /\ api'[d] = [api[d] EXCEPT !.replicas = n]
        /\ \A e \in Names \ {d} : api'[e] = api[e]
    BY <1>13, WriteAt DEF UserScale
  <2>2. api[d] \in Object
    BY <1>13 DEF TypeOK, UserScale, Exists
  <2>3. api'[d].replicas = n /\ api'[d].by = api[d].by /\ api'[d] \in Object
    BY <2>1, <2>2 DEF Object
  <2>4. want'[d] = n /\ \A e \in Names \ {d} : want'[e] = want[e]
    BY <1>13 DEF UserScale, TypeOK
  <2>5. UNCHANGED <<pc, cur, base, listed>>
    BY <1>13 DEF UserScale, pass
  <2>6. \A e \in Names : Exists(e)' <=> Exists(e)
    BY <1>13, <2>1, <2>3, AbsentAssumption DEF UserScale, Exists
  <2>7. \A e \in Names : Marked(e)' <=> Marked(e)
    BY <2>1, <2>3, <2>6 DEF Marked, IsScaledDownByOperator
  <2>8. pc \in {"zero", "refill", "unmark"} => cur \in Names
    BY DEF TypeOK
  <2>. QED
    BY <2>1, <2>3, <2>4, <2>5, <2>6, <2>7, <2>8 DEF RecoverInv
<1>14. ASSUME NEW d \in Names, NEW l \in LabelSets, UserRelabel(d, l) PROVE RecoverInv'
  <2>1. /\ api'[d] = [api[d] EXCEPT !.labels = l]
        /\ \A e \in Names \ {d} : api'[e] = api[e]
    BY <1>14, WriteAt DEF UserRelabel
  <2>2. api[d] \in Object
    BY <1>14 DEF TypeOK, UserRelabel, Exists
  <2>3. /\ api'[d].replicas = api[d].replicas /\ api'[d].by = api[d].by
        /\ api'[d] \in Object
    BY <2>1, <2>2 DEF Object
  <2>4. UNCHANGED <<pc, cur, base, listed, want>>
    BY <1>14 DEF UserRelabel, control
  <2>5. \A e \in Names : Exists(e)' <=> Exists(e)
    BY <1>14, <2>1, <2>3, AbsentAssumption DEF UserRelabel, Exists
  <2>6. \A e \in Names : Marked(e)' <=> Marked(e)
    BY <2>1, <2>3, <2>5 DEF Marked, IsScaledDownByOperator
  <2>7. pc \in {"zero", "refill", "unmark"} => cur \in Names
    BY DEF TypeOK
  <2>. QED
    BY <2>1, <2>3, <2>4, <2>5, <2>6, <2>7 DEF RecoverInv
<1>15. ASSUME NEW d \in Names, UserDeletes(d) PROVE RecoverInv'
  <2>1. /\ api'[d] = Absent
        /\ \A e \in Names \ {d} : api'[e] = api[e]
        /\ \A e \in Names \ {d} : want'[e] = want[e]
    BY <1>15, WriteAt DEF UserDeletes, TypeOK
  <2>2. pc \in {"zero", "refill", "unmark"} => cur \in Names
    BY DEF TypeOK
  <2>. QED
    BY <1>15, <2>1, <2>2 DEF RecoverInv, UserDeletes, control, Marked, Exists
<1>16. ASSUME NEW d, NEW n, NEW l, NEW o, UserTampers(d, o) \/ UserCreates(d, n, l)
       PROVE  RecoverInv'
  BY <1>16 DEF UserTampers, UserCreates
<1>17. CASE \/ \E exclusions \in ExclusionSpecs :
                 BudgetCreate(exclusions) \/ BudgetEdit(exclusions)
            \/ BudgetDelete
  BY <1>17
     DEF RecoverInv, BudgetCreate, BudgetEdit, BudgetDelete, server, pass, Marked, Exists
<1>18. CASE UNCHANGED vars
  BY <1>18 DEF RecoverInv, vars, Marked, Exists
<1>. QED
  BY <1>1, <1>2, <1>3, <1>4, <1>5, <1>6, <1>7, <1>8, <1>9, <1>10, <1>11, <1>12, <1>13,
     <1>14, <1>15, <1>16, <1>17, <1>18
     DEF Next, ControllerStep, EnforceStep, CleanupStep, FaultStep, UserStep

\* Under those conditions a workload the user wants running is never at zero
\* replicas without the mark and the positive record it can be restored from,
\* whatever the users' own scaling, failed requests and crashes do in between.
THEOREM NeverLost ==
    ASSUME ~CacheLag, ~PluginOn, "tamper" \notin UserOps, "create" \notin UserOps
    PROVE  Spec => []Recoverable
<1>1. Init => InSync /\ SoundInv /\ RecoverInv
  BY DEF Init, InSync, SoundInv, Sound, Fresh, IsScaledDownByOperator, Patching,
         RecoverInv, Marked, Exists
<1>2. TypeOK /\ InSync /\ SoundInv /\ RecoverInv /\ [Next]_vars
        => InSync' /\ SoundInv' /\ RecoverInv'
  BY SyncStep, SoundStep, RecoverStep
<1>3. SoundInv /\ RecoverInv => Recoverable
  BY DEF SoundInv, Sound, RecoverInv, Recoverable, Marked, Exists
<1>. QED BY <1>1, <1>2, <1>3, TypeCorrect, PTL DEF Spec
=============================================================================
