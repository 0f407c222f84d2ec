---------------------------- MODULE CustodyProofs ----------------------------
(***************************************************************************)
(* The operator gives back what it took: in a namespace of any size, and   *)
(* through any crash or failed request, the enforcement implements         *)
(* Custody.                                                                *)
(***************************************************************************)
EXTENDS RecoveryProofs

\* The two show the same to everybody but the label selectors.
Agree(o, b) == o.replicas = b.replicas /\ o.by = b.by /\ o.orig = b.orig

(***************************************************************************)
(* CustodyKept speaks of the server at rest.  To be inductive it needs to  *)
(* know that the copy a call works on is the truth, and where in its two   *)
(* patches the call is: a merge patch sends nothing but differences to the *)
(* copy, so a copy that is off leaves fields of both.                      *)
(***************************************************************************)
CustodyInv ==
    /\ CustodyKept
    /\ \A d \in Names : listed[d] = Absent
    /\ pc \in Patching /\ Exists(cur) => Agree(api[cur], base)
    /\ pc = "annotate" => base.by = "none" /\ base.replicas # 0
    /\ pc \in {"zero", "refill", "unmark"} => base.by = "governor"
    /\ pc = "unmark" => base.replicas = base.orig

\* What a patch leaves when it was computed from the truth: what the call meant.
LEMMA MergeOfTruth ==
    ASSUME NEW current, NEW old, NEW new, Agree(current, old)
    PROVE  Agree(MergePatch(current, old, new), new)
BY DEF Agree, MergePatch, MergedField

\* The patch in hand, field by field, and its type.
LEMMA CallFormFields ==
    ASSUME TypeOK, pc \in Patching
    PROVE  /\ CallForm \in Object
           /\ pc = "annotate" => Agree(CallForm, AnnotatedForm(base))
           /\ pc = "zero"     => Agree(CallForm, ZeroedForm(base))
           /\ pc = "refill"   => Agree(CallForm, RestoredForm(base))
           /\ pc = "unmark"   => Agree(CallForm, UnmarkedForm(base))
<1>1. base \in Object
  BY DEF TypeOK
<1>2. pc = "refill" => HasRecord(base)
  BY DEF TypeOK
<1>. QED BY <1>1, <1>2, FormType DEF CallForm, Patching, Agree

\* Custody's view of the Deployments, see C.
Present == {d \in Names : Exists(d)}
HeldSet == {d \in Names : Marked(d)}
Running == [d \in Names |-> IF Exists(d) THEN api[d].replicas ELSE 0]
Governed == budget.state \in {"active", "deleting"}

\* Each patch of ScaleDown and Restore that reaches the server leaves there what
\* the call meant, keeps CustodyKept, and is a step of Custody.
LEMMA PatchInCustody ==
    ASSUME TypeOK, CleanupInv, CustodyInv,
           pc \in Patching, Exists(cur), Write(cur, Patched(CallForm)),
           UNCHANGED <<budget, want>>
    PROVE  /\ api'[cur] \in Object
           /\ Agree(api'[cur], CallForm)
           /\ CustodyKept'
           /\ C!Next
<1>1. cur \in Names /\ base \in Object /\ api[cur] \in Object
  BY DEF TypeOK, Exists
<1>2. CallForm \in Object
  BY CallFormFields
<1>3. /\ api'[cur] = Patched(CallForm)
      /\ \A e \in Names \ {cur} : api'[e] = api[e]
  BY <1>1, WriteAt
<1>4. Agree(api'[cur], CallForm)
  BY <1>3, MergeOfTruth DEF CustodyInv, Patched
<1>5. api'[cur] \in Object
  BY <1>1, <1>2, <1>3, MergePatchType DEF Patched
<1>6. \A e \in Names : Exists(e)' <=> Exists(e)
  BY <1>1, <1>3, <1>5, AbsentAssumption DEF Exists
<1>7. \A e \in Names :
         Marked(e)' <=> IF e = cur THEN CallForm.by = "governor" ELSE Marked(e)
  BY <1>1, <1>3, <1>4, <1>6 DEF Marked, Agree, IsScaledDownByOperator
<1>8. Agree(api[cur], base)
  BY DEF CustodyInv
<1>9. Marked(cur) <=> base.by = "governor"
  BY <1>8 DEF Agree, Marked, IsScaledDownByOperator
<1>10. want[cur] = IF base.by = "governor" THEN base.orig ELSE base.replicas
  BY <1>1, <1>8 DEF CustodyInv, CustodyKept, Agree, IsScaledDownByOperator
<1>11. want[cur] = IF CallForm.by = "governor" THEN CallForm.orig ELSE CallForm.replicas
  <2>1. CASE pc = "annotate"
    BY <1>10, <2>1, CallFormFields, FormFields DEF CustodyInv, Agree
  <2>2. CASE pc = "zero"
    BY <1>10, <2>2, CallFormFields, FormFields DEF CustodyInv, Agree
  <2>3. CASE pc = "refill"
    BY <1>10, <2>3, CallFormFields, FormFields DEF CustodyInv, Agree
  <2>4. CASE pc = "unmark"
    BY <1>10, <2>4, CallFormFields, FormFields DEF CustodyInv, Agree
  <2>. QED BY <2>1, <2>2, <2>3, <2>4 DEF Patching
<1>12. CustodyKept'
  BY <1>1, <1>3, <1>4, <1>6, <1>11
     DEF CustodyInv, CustodyKept, Agree, Exists, IsScaledDownByOperator
<1>13. /\ Present' = Present
       /\ HeldSet' = IF CallForm.by = "governor" THEN HeldSet \cup {cur} ELSE HeldSet \ {cur}
       /\ Running' = [Running EXCEPT ![cur] = CallForm.replicas]
       /\ Governed' = Governed
  <2>1. Present' = Present
    BY <1>6 DEF Present
  <2>2. HeldSet' = IF CallForm.by = "governor" THEN HeldSet \cup {cur} ELSE HeldSet \ {cur}
    BY <1>1, <1>7 DEF HeldSet
  <2>3. Running' = [Running EXCEPT ![cur] = CallForm.replicas]
    BY <1>1, <1>3, <1>4, <1>6 DEF Running, Agree, Exists
  <2>. QED BY <2>1, <2>2, <2>3 DEF Governed
<1>14. /\ cur \in Present /\ Running[cur] = base.replicas
       /\ (cur \in HeldSet <=> base.by = "governor")
  BY <1>1, <1>8, <1>9 DEF Present, Running, HeldSet, Agree
<1>15. C!Next
  <2>0. PICK d \in Names : d = cur
    BY <1>1
  <2>1. CASE pc = "annotate"
    <3>1. CallForm.by = "governor" /\ CallForm.replicas = base.replicas
      BY <2>1, CallFormFields, FormFields DEF Agree
    <3>2. Governed
      BY <2>1 DEF CleanupInv, TypeOK, Governed
    <3>3. Running' = Running
      BY <1>13, <1>14, <3>1 DEF Running
    <3>4. C!Take(d)
      BY <2>0, <1>13, <1>14, <2>1, <3>1, <3>2, <3>3
         DEF CustodyInv, C!Take, Present, HeldSet, Running, Governed
    <3>. QED BY <3>4 DEF C!Next
  <2>2. CASE pc = "zero"
    <3>1. CallForm.by = "governor" /\ CallForm.replicas = 0 /\ base.by = "governor"
      BY <2>2, CallFormFields, FormFields DEF Agree, CustodyInv
    <3>2. C!Stop(d)
      BY <2>0, <1>13, <1>14, <3>1 DEF C!Stop, Present, HeldSet, Running, Governed
    <3>. QED BY <3>2 DEF C!Next
  <2>3. CASE pc = "refill"
    <3>1. /\ CallForm.by = "governor" /\ CallForm.replicas = base.orig
          /\ base.by = "governor"
      BY <2>3, CallFormFields, FormFields DEF Agree, CustodyInv
    <3>2. C!Resume(d)
      BY <2>0, <1>10, <1>13, <1>14, <3>1 DEF C!Resume, Present, HeldSet, Running, Governed
    <3>. QED BY <3>2 DEF C!Next
  <2>4. CASE pc = "unmark"
    <3>1. /\ CallForm.by = "none" /\ CallForm.replicas = base.orig
          /\ base.by = "governor"
      BY <2>4, CallFormFields, FormFields DEF Agree, CustodyInv
    <3>2. C!GiveBack(d)
      BY <2>0, <1>10, <1>13, <1>14, <3>1 DEF C!GiveBack, Present, HeldSet, Running, Governed
    <3>. QED BY <3>2 DEF C!Next
  <2>. QED BY <2>1, <2>2, <2>3, <2>4 DEF Patching
<1>. QED BY <1>4, <1>5, <1>12, <1>15

\* A step that leaves the Deployments, what users want of them and the finalizer
\* alone is none that Custody sees.
LEMMA QuietInCustody ==
    ASSUME CustodyKept, UNCHANGED <<api, want>>, Governed' = Governed
    PROVE  CustodyKept' /\ UNCHANGED C!vars
BY DEF CustodyKept, Governed, Exists, Marked, C!vars

\* The finalizer comes and goes as Custody's does.
LEMMA FinalizerInCustody ==
    ASSUME CustodyKept, UNCHANGED <<api, want>>, Governed' # Governed,
           Governed => \A d \in Names : ~Marked(d)
    PROVE  CustodyKept' /\ C!Next
<1>1. CustodyKept'
  BY DEF CustodyKept, Exists
<1>2. Present' = Present /\ HeldSet' = HeldSet /\ Running' = Running
  BY DEF Present, HeldSet, Running, Exists, Marked
<1>3. CASE Governed
  <2>1. C!End
    BY <1>2, <1>3 DEF C!End, Present, HeldSet, Running, Governed
  <2>. QED BY <1>1, <2>1 DEF C!Next
<1>4. CASE ~Governed
  <2>1. C!Begin
    BY <1>2, <1>4 DEF C!Begin, Present, HeldSet, Running, Governed
  <2>. QED BY <1>1, <2>1 DEF C!Next
<1>. QED BY <1>3, <1>4

\* A user who sizes a Deployment nobody holds asks, in Custody's terms.
LEMMA ScaleInCustody ==
    ASSUME TypeOK, CustodyInv, "race" \notin UserOps,
           NEW d \in Names, NEW n \in Replicas, UserScale(d, n)
    PROVE  CustodyInv' /\ C!Next
<1>1. api[d] \in Object /\ Exists(d) /\ ~Marked(d) /\ cur # d
  BY DEF TypeOK, UserScale, Exists, Held
<1>2. /\ api'[d] = [api[d] EXCEPT !.replicas = n]
      /\ \A e \in Names \ {d} : api'[e] = api[e]
  BY WriteAt DEF UserScale
<1>3. api'[d] \in Object /\ api'[d].replicas = n /\ api'[d].by = api[d].by
  BY <1>1, <1>2 DEF Object
<1>4. want' = [want EXCEPT ![d] = n] /\ UNCHANGED <<pc, cur, base, listed, budget>>
  BY DEF UserScale, pass, objects
<1>5. \A e \in Names : (Exists(e)' <=> Exists(e)) /\ (Marked(e)' <=> Marked(e))
  BY <1>1, <1>2, <1>3, AbsentAssumption DEF Exists, Marked, IsScaledDownByOperator
<1>6. CustodyKept'
  <2>1. want'[d] = n /\ \A e \in Names \ {d} : want'[e] = want[e]
    BY <1>4 DEF TypeOK
  <2>2. ~IsScaledDownByOperator(api'[d])
    BY <1>1, <1>3 DEF Marked, IsScaledDownByOperator
  <2>. QED BY <1>2, <1>3, <2>1, <2>2 DEF CustodyInv, CustodyKept, Exists
<1>7. CustodyInv'
  <2>1. pc \in Patching => cur \in Names \ {d}
    BY <1>1 DEF TypeOK
  <2>2. pc \in Patching => api'[cur] = api[cur]
    BY <1>2, <2>1
  <2>. QED BY <1>4, <1>6, <2>2 DEF CustodyInv, Exists
<1>8. /\ Present' = Present \cup {d} /\ HeldSet' = HeldSet /\ d \notin HeldSet
      /\ Running' = [Running EXCEPT ![d] = n] /\ Governed' = Governed
  <2>1. Present' = Present \cup {d}
    BY <1>1, <1>5 DEF Present
  <2>2. HeldSet' = HeldSet /\ d \notin HeldSet
    BY <1>1, <1>5 DEF HeldSet
  <2>3. Running' = [Running EXCEPT ![d] = n]
    BY <1>1, <1>2, <1>3, <1>5 DEF Running
  <2>. QED BY <1>4, <2>1, <2>2, <2>3 DEF Governed
<1>9. C!Ask(d, n)
  BY <1>4, <1>8 DEF C!Ask, Present, HeldSet, Running, Governed
<1>. QED BY <1>7, <1>9 DEF C!Next, Replicas

\* New labels are nothing that Custody or a call in hand would see.
LEMMA RelabelInCustody ==
    ASSUME TypeOK, CustodyInv, NEW d \in Names, NEW l \in LabelSets, UserRelabel(d, l)
    PROVE  CustodyInv' /\ UNCHANGED C!vars
<1>1. api[d] \in Object /\ Exists(d)
  BY DEF TypeOK, UserRelabel, Exists
<1>2. /\ api'[d] = [api[d] EXCEPT !.labels = l]
      /\ \A e \in Names \ {d} : api'[e] = api[e]
  BY WriteAt DEF UserRelabel
<1>3. api'[d] \in Object /\ Agree(api'[d], api[d])
  BY <1>1, <1>2 DEF Object, Agree
<1>4. UNCHANGED <<want, pc, cur, base, listed, budget>>
  BY DEF UserRelabel, control, objects
<1>5. \A e \in Names : Exists(e)' <=> Exists(e)
  BY <1>1, <1>2, <1>3, AbsentAssumption DEF Exists
<1>6. \A e \in Names : Exists(e) => Agree(api'[e], api[e])
  BY <1>2, <1>3 DEF Agree
<1>7. \A e \in Names : Marked(e)' <=> Marked(e)
  BY <1>5, <1>6 DEF Marked, Agree, IsScaledDownByOperator
<1>8. CustodyKept'
  BY <1>4, <1>5, <1>6 DEF CustodyInv, CustodyKept, Agree, IsScaledDownByOperator
<1>9. CustodyInv'
  <2>1. pc \in Patching => cur \in Names
    BY DEF TypeOK
  <2>2. pc \in Patching /\ Exists(cur)' => Agree(api'[cur], base)
    BY <1>4, <1>5, <1>6, <2>1 DEF CustodyInv, Agree, Exists
  <2>. QED BY <1>4, <1>8, <2>2 DEF CustodyInv
<1>10. Running' = Running
  BY <1>5, <1>6 DEF Running, Agree
<1>11. Present' = Present /\ HeldSet' = HeldSet
  BY <1>5, <1>7 DEF Present, HeldSet
<1>. QED BY <1>4, <1>9, <1>10, <1>11 DEF C!vars, Present, HeldSet, Running

\* A deleted Deployment leaves the operator's hands at once.
LEMMA DeleteInCustody ==
    ASSUME TypeOK, CustodyInv, NEW d \in Names, UserDeletes(d)
    PROVE  CustodyInv' /\ C!Next
<1>1. Exists(d)
  BY DEF UserDeletes
<1>2. api'[d] = Absent /\ \A e \in Names \ {d} : api'[e] = api[e]
  BY WriteAt DEF UserDeletes
<1>3. want' = [want EXCEPT ![d] = 0] /\ UNCHANGED <<pc, cur, base, listed, budget>>
  BY DEF UserDeletes, control, objects
<1>4. CustodyInv'
  <2>1. pc \in Patching => cur \in Names
    BY DEF TypeOK
  <2>. QED BY <1>2, <1>3, <2>1 DEF CustodyInv, CustodyKept, Exists, TypeOK
<1>5. /\ Present' = Present \ {d} /\ d \in Present /\ HeldSet' = HeldSet \ {d}
      /\ Running' = [Running EXCEPT ![d] = 0]
  <2>1. Present' = Present \ {d} /\ d \in Present
    BY <1>1, <1>2 DEF Present, Exists
  <2>2. HeldSet' = HeldSet \ {d}
    BY <1>2 DEF HeldSet, Marked, Exists
  <2>3. Running' = [Running EXCEPT ![d] = 0]
    BY <1>2 DEF Running, Exists
  <2>. QED BY <2>1, <2>2, <2>3
<1>6. C!Remove(d)
  BY <1>3, <1>5 DEF C!Remove, Present, HeldSet, Running
<1>. QED BY <1>4, <1>6 DEF C!Next

-----------------------------------------------------------------------------
\* A namespace where the operator is alone with what it holds: its cache does not
\* lag, nobody runs the plugin or edits records, users leave held Deployments as
\* they are and do not bring back a name that they deleted.
Undisturbed ==
    /\ ~CacheLag /\ ~PluginOn
    /\ UserOps \cap {"race", "tamper", "create"} = {}

\* CustodyInv is inductive in such a namespace, and every step is one of Custody.
LEMMA CustodyStep ==
    ASSUME Undisturbed, TypeOK, InSync, SoundInv, CleanupInv, CustodyInv, [Next]_vars
    PROVE  CustodyInv' /\ [C!Next]_(C!vars)
<1> USE DEF Patching
<1>0. cache = api /\ seen = budget
  BY DEF InSync, Undisturbed
\* No call is in hand after the step, and nothing that Custody sees has happened.
<1>1. ASSUME UNCHANGED <<api, want, listed>>, Governed' = Governed, pc' \notin Patching
      PROVE  CustodyInv' /\ [C!Next]_(C!vars)
  BY <1>1, QuietInCustody DEF CustodyInv
\* Nothing has happened at all.
<1>2. ASSUME UNCHANGED <<api, want, listed, pc, cur, base>>, Governed' = Governed
      PROVE  CustodyInv' /\ [C!Next]_(C!vars)
  BY <1>2, QuietInCustody DEF CustodyInv, Exists
<1>3. CASE Annotate
  <2>1. Write(cur, Patched(CallForm)) /\ base' = Patched(CallForm) /\ base' = api'[cur]
    <3>1. CallForm = AnnotatedForm(base) /\ cur \in Names
      BY <1>3 DEF Annotate, CallForm, TypeOK
    <3>. QED BY <1>3, <3>1, WriteAt DEF Annotate
  <2>2. /\ Agree(api'[cur], CallForm) /\ CustodyKept' /\ C!Next
    BY <1>3, <2>1, PatchInCustody DEF Annotate, objects
  <2>3. CallForm.by = "governor"
    BY <1>3, CallFormFields, FormFields DEF Annotate, Agree
  <2>. QED BY <1>3, <2>1, <2>2, <2>3 DEF CustodyInv, Annotate, Agree
<1>4. CASE RestoreReplicas
  <2>1. Write(cur, Patched(CallForm)) /\ base' = Patched(CallForm) /\ base' = api'[cur]
    <3>1. CallForm = RestoredForm(base) /\ cur \in Names
      BY <1>4 DEF RestoreReplicas, CallForm, TypeOK
    <3>. QED BY <1>4, <3>1, WriteAt DEF RestoreReplicas
  <2>2. /\ Agree(api'[cur], CallForm) /\ CustodyKept' /\ C!Next
    BY <1>4, <2>1, PatchInCustody DEF RestoreReplicas, objects
  <2>3. CallForm.by = "governor" /\ CallForm.replicas = CallForm.orig
    BY <1>4, CallFormFields, FormFields DEF RestoreReplicas, Agree, CustodyInv
  <2>. QED BY <1>4, <2>1, <2>2, <2>3 DEF CustodyInv, RestoreReplicas, Agree
<1>5. CASE ZeroReplicas \/ RemoveAnnotations \/ PatchAnswerLost
  <2>1. Write(cur, Patched(CallForm)) /\ pc \in Patching /\ Exists(cur)
    <3>1. pc = "zero" => CallForm = ZeroedForm(base)
      BY DEF CallForm
    <3>2. pc = "unmark" => CallForm = UnmarkedForm(base)
      BY DEF CallForm
    <3>. QED BY <1>5, <3>1, <3>2 DEF ZeroReplicas, RemoveAnnotations, PatchAnswerLost
  <2>2. UNCHANGED <<budget, want, listed>> /\ pc' \in {"next", "wait"}
    BY <1>5 DEF ZeroReplicas, RemoveAnnotations, PatchAnswerLost, CallFails, CallReturns,
                ReturnToQueue, objects
  <2>3. CustodyKept' /\ C!Next
    BY <2>1, <2>2, PatchInCustody
  <2>. QED BY <2>2, <2>3 DEF CustodyInv
<1>6. ASSUME NEW d \in Names, ScaleDownStarts(d) PROVE CustodyInv' /\ [C!Next]_(C!vars)
  <2>1. /\ UNCHANGED <<api, want, listed, budget>>
        /\ pc' = "annotate" /\ cur' = d /\ base' = api[d]
    BY <1>0, <1>6 DEF ScaleDownStarts, server, objects
  <2>2. api[d] \in Object /\ api[d].by = "none" /\ api[d].replicas # 0
    BY <1>0, <1>6
       DEF ScaleDownStarts, ScaleDownApplies, IsScaledDownByOperator, TypeOK, Object
  <2>3. CustodyKept' /\ UNCHANGED C!vars
    BY <2>1, QuietInCustody DEF CustodyInv, Governed
  <2>. QED BY <2>1, <2>2, <2>3 DEF CustodyInv, Agree
<1>7. ASSUME NEW d \in Names, RestoreStarts(d) PROVE CustodyInv' /\ [C!Next]_(C!vars)
  <2>1. /\ UNCHANGED <<api, want, listed, budget>>
        /\ pc' = "refill" /\ cur' = d /\ base' = api[d] /\ api[d].by = "governor"
    BY <1>0, <1>7 DEF RestoreStarts, server, objects, IsScaledDownByOperator
  <2>2. CustodyKept' /\ UNCHANGED C!vars
    BY <2>1, QuietInCustody DEF CustodyInv, Governed
  <2>. QED BY <2>1, <2>2 DEF CustodyInv, Agree
<1>8. CASE \/ StartPass \/ \E p \in Phases : Assess(p)
           \/ \E found \in SUBSET Names : DetectIdle(found)
           \/ \E d \in Names : ScaleDownSkips(d) \/ RestoreSkips(d) \/ RestoreFails(d)
           \/ SuspendAll \/ PassEnds \/ StartCleanup \/ FinalizerUpdateFails
  <2>1. UNCHANGED <<api, want, listed, budget>> /\ pc' \notin Patching
    BY <1>8
       DEF StartPass, Assess, DetectIdle, ScaleDownSkips, RestoreSkips, RestoreFails,
           SuspendAll, PassEnds, StartCleanup, FinalizerUpdateFails, ReturnToQueue,
           server, objects
  <2>. QED BY <1>1, <2>1 DEF Governed
<1>9. CASE RegisterFinalizer
  <2>1. /\ UNCHANGED <<api, want, listed, pc, cur, base>>
        /\ ~Governed /\ Governed'
    BY <1>9 DEF RegisterFinalizer, WriteBudget, Governed, server, pass, TypeOK
  <2>2. CustodyKept' /\ C!Next
    BY <2>1, FinalizerInCustody DEF CustodyInv
  <2>. QED BY <2>1, <2>2 DEF CustodyInv, Exists
<1>10. CASE RemoveFinalizer
  <2>1. /\ UNCHANGED <<api, want, listed>> /\ pc' = "wait"
        /\ Governed /\ ~Governed'
    BY <1>10 DEF RemoveFinalizer, WriteBudget, ReturnToQueue, Governed, server, TypeOK
  <2>2. \A d \in Names : ~Marked(d)
    BY <1>10, NoNameAssumption DEF RemoveFinalizer, CleanupInv, TypeOK
  <2>3. CustodyKept' /\ C!Next
    BY <2>1, <2>2, FinalizerInCustody DEF CustodyInv
  <2>. QED BY <2>1, <2>3 DEF CustodyInv
<1>11. CASE PatchNotFound \/ PassFails \/ PatchRejected \/ Crash
  <2>1. UNCHANGED <<api, want, listed, budget>> /\ pc' \notin Patching
    BY <1>11
       DEF PatchNotFound, PassFails, PatchRejected, Crash, CallFails, ReturnToQueue,
           CallReturns, server, objects
  <2>. QED BY <1>1, <2>1 DEF Governed
<1>12. CASE CacheStep \/ PluginStep
  BY <1>12
     DEF CacheStep, CacheSync, BudgetSync, PluginStep, PluginList, PluginPatch, PluginSkips,
         CustodyInv, Undisturbed
<1>13. CASE UserStep
  <2>1. ASSUME NEW d \in Names, NEW n \in Replicas, UserScale(d, n)
        PROVE  CustodyInv' /\ [C!Next]_(C!vars)
    BY <2>1, ScaleInCustody DEF Undisturbed
  <2>2. ASSUME NEW d \in Names, NEW l \in LabelSets, UserRelabel(d, l)
        PROVE  CustodyInv' /\ [C!Next]_(C!vars)
    BY <2>2, RelabelInCustody
  <2>3. ASSUME NEW d \in Names, UserDeletes(d) PROVE CustodyInv' /\ [C!Next]_(C!vars)
    BY <2>3, DeleteInCustody
  <2>4. ASSUME NEW d, NEW n, NEW l, NEW o, UserTampers(d, o) \/ UserCreates(d, n, l)
        PROVE  CustodyInv' /\ [C!Next]_(C!vars)
    BY <2>4 DEF UserTampers, UserCreates, Undisturbed
  <2>5. CASE \/ \E exclusions \in ExclusionSpecs :
                   BudgetCreate(exclusions) \/ BudgetEdit(exclusions)
             \/ BudgetDelete
    <3>1. UNCHANGED <<api, want, listed, pc, cur, base>> /\ Governed' = Governed
      BY <2>5
         DEF BudgetCreate, BudgetEdit, BudgetDelete, WriteBudget, Governed, server, pass,
             TypeOK
    <3>. QED BY <1>2, <3>1
  <2>. QED BY <1>13, <2>1, <2>2, <2>3, <2>4, <2>5 DEF UserStep
<1>14. CASE UNCHANGED vars
  BY <1>2, <1>14 DEF vars, Governed
<1>. QED
  BY <1>3, <1>4, <1>5, <1>6, <1>7, <1>8, <1>9, <1>10, <1>11, <1>12, <1>13, <1>14
     DEF Next, ControllerStep, EnforceStep, CleanupStep, FaultStep

\* All that CustodyStep rests on, from the initial states on.
LEMMA CustodyInitially ==
    Init => /\ InSync /\ SoundInv /\ CleanupInv /\ CustodyInv
            /\ C!Init
<1> SUFFICES ASSUME Init
             PROVE  InSync /\ SoundInv /\ CleanupInv /\ CustodyInv /\ C!Init
  OBVIOUS
<1>1. InSync /\ SoundInv /\ CleanupInv
  BY NoNameAssumption
     DEF Init, InSync, SoundInv, Sound, CleanupInv, NothingLeftBehind, Marked, Exists,
         Fresh, IsScaledDownByOperator, Patching
<1>2. \A d \in Names : Exists(d) => /\ api[d].by = "none"
                                    /\ want[d] = api[d].replicas
                                    /\ api[d].replicas \in Replicas
  BY DEF Init, Exists, Fresh
<1>3. CustodyInv
  BY <1>2 DEF Init, CustodyInv, CustodyKept, IsScaledDownByOperator, Patching
<1>4. HeldSet = {}
  BY <1>2 DEF HeldSet, Marked, IsScaledDownByOperator
<1>5. Running = want
  BY <1>2 DEF Init, Running, Exists
<1>6. want \in [Names -> 0..MaxReplicas] /\ \A d \in Names \ Present : want[d] = 0
  BY <1>2, MaxReplicasAssumption DEF Init, Present, Exists, Replicas
<1>7. ~Governed
  BY DEF Init, Governed
<1>8. C!Init
  BY <1>4, <1>5, <1>6, <1>7 DEF C!Init, Present, HeldSet, Running, Governed
<1>. QED BY <1>1, <1>3, <1>8

\* In a namespace of any size where nobody interferes with what the operator holds,
\* it neither loses nor invents a replica: the record of a marked Deployment, and
\* the replicas of any other, are what its user asked for, at every crash point of
\* ScaleDown and Restore.
THEOREM ReplicasKept ==
    ASSUME Undisturbed
    PROVE  Spec => []CustodyKept
<1>1. /\ TypeOK /\ InSync /\ SoundInv /\ CleanupInv /\ CustodyInv /\ [Next]_vars
        => InSync' /\ SoundInv' /\ CleanupInv' /\ CustodyInv'
  BY SyncStep, SoundStep, CleanupStepInv, CustodyStep DEF Undisturbed
<1>2. CustodyInv => CustodyKept
  BY DEF CustodyInv
<1>. QED BY <1>1, <1>2, CustodyInitially, TypeCorrect, PTL DEF Spec

\* In such a namespace the enforcement, with its caches, merge patches, crashes and
\* retries, implements Custody: the operator marks running Deployments only, stops
\* only those it holds, gives each back at the size its user asked for, and keeps
\* its finalizer until it holds none.
THEOREM ImplementsCustody ==
    ASSUME Undisturbed
    PROVE  Spec => CustodyRefined
<1>1. /\ TypeOK /\ InSync /\ SoundInv /\ CleanupInv /\ CustodyInv /\ [Next]_vars
        => InSync' /\ SoundInv' /\ CleanupInv' /\ CustodyInv' /\ [C!Next]_(C!vars)
  BY SyncStep, SoundStep, CleanupStepInv, CustodyStep DEF Undisturbed
<1>. QED
  BY <1>1, CustodyInitially, TypeCorrect, PTL DEF Spec, CustodyRefined, C!Spec
=============================================================================
