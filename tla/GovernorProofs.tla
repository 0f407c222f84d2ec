--------------------------- MODULE GovernorProofs ---------------------------
(***************************************************************************)
(* The two halves of a Reconcile together, for every value of the          *)
(* constants: the composition keeps what each half guarantees on its own,  *)
(* and what only the two together can guarantee holds.                     *)
(***************************************************************************)
EXTENDS Governor, CustodyProofs, SumProofs

\* The accounting half with its lemmas.
B == INSTANCE SignalProofs WITH pc <- step, Procs <- {Manager}, WindowOk <- TRUE

-----------------------------------------------------------------------------
(***************************************************************************)
(* B is A: the lemmas of SignalProofs are about the same formulas.         *)
(***************************************************************************)

\* The assumptions of BudgetReconcile.
LEMMA AccountingAssumed ==
    /\ MonthLen \in Nat \ {0} /\ MaxTime \in Nat
    /\ Rates \subseteq Nat
    /\ Never \notin Int
    /\ FaultKinds \subseteq {"create", "fill", "query", "persist", "answer", "slack",
                            "crash"}
    /\ MaxFaults \in Nat
    /\ Monthly \in [B!Dims -> Nat]
BY AccountingAssumption, MaxFaultsAssumption DEF A!Dims, B!Dims

\* The values.
LEMMA SameValues ==
    /\ A!Dims = B!Dims /\ A!Samples = B!Samples /\ A!Months = B!Months
    /\ A!BlankStatus = B!BlankStatus /\ A!PhaseNames = B!PhaseNames
    /\ \A t : A!Month(t) = B!Month(t)
BY DEF A!Dims, B!Dims, A!Samples, B!Samples, A!Months, B!Months, A!Month, B!Month,
       A!BlankStatus, B!BlankStatus, A!Zero, B!Zero, A!Conditions, B!Conditions,
       A!PhaseNames, B!PhaseNames

\* The type invariant and the initial states.
LEMMA SameStates ==
    /\ A!TypeOK <=> B!TypeOK
    /\ A!Init <=> B!Init
<1>1. A!TypeOK <=> B!TypeOK
  BY DEF A!TypeOK, B!TypeOK, A!Status, B!Status, A!Time, B!Time, A!PhaseNames, B!PhaseNames,
         A!Usage, B!Usage, A!Dims, B!Dims, A!Conditions, B!Conditions, A!Report, B!Report,
         A!Months, B!Months, A!Month, B!Month
<1>2. A!Init <=> B!Init
  BY DEF A!Init, B!Init, A!BlankStatus, B!BlankStatus, A!Zero, B!Zero, A!Dims, B!Dims,
         A!Conditions, B!Conditions, A!Months, B!Months, A!Month, B!Month, A!Time, B!Time
<1> QED
  BY <1>1, <1>2

\* The actions.
LEMMA SameFetch == A!Fetch(Manager, TRUE) <=> B!Fetch(Manager, TRUE)
BY DEF A!Fetch, B!Fetch, A!RolloverDue, B!RolloverDue, A!Day, B!Day, A!Month, B!Month,
       A!Goto, B!Goto, A!StartPeriod, B!StartPeriod, A!Zero, B!Zero, A!Dims, B!Dims,
       A!world, B!world

LEMMA SameReturn == A!Return(Manager) <=> B!Return(Manager)
BY DEF A!Return, B!Return, A!Goto, B!Goto, A!BlankStatus, B!BlankStatus, A!Zero, B!Zero,
       A!Dims, B!Dims, A!Conditions, B!Conditions

LEMMA SameReport ==
    /\ A!CreateReport(Manager) <=> B!CreateReport(Manager)
    /\ A!CreateFails(Manager) <=> B!CreateFails(Manager)
    /\ A!FillReport(Manager) <=> B!FillReport(Manager)
    /\ A!FillFails(Manager) <=> B!FillFails(Manager)
    /\ A!CreateAnswerLost(Manager) <=> B!CreateAnswerLost(Manager)
    /\ A!FillAnswerLost(Manager) <=> B!FillAnswerLost(Manager)
BY DEF A!CreateReport, B!CreateReport, A!CreateFails, B!CreateFails,
       A!FillReport, B!FillReport, A!FillFails, B!FillFails, A!Goto, B!Goto,
       A!CreateAnswerLost, B!CreateAnswerLost, A!FillAnswerLost, B!FillAnswerLost,
       A!Month, B!Month, A!StartPeriod, B!StartPeriod, A!Zero, B!Zero, A!Dims, B!Dims,
       A!local, B!local, A!world, B!world

LEMMA SameAccount ==
    ASSUME NEW rate
    PROVE  A!Account(Manager, rate) <=> B!Account(Manager, rate)
BY DEF A!Account, B!Account, A!Accumulate, B!Accumulate, A!determinePhase, B!determinePhase,
       A!Goto, B!Goto, A!WithConditions, B!WithConditions, A!setCondition, B!setCondition,
       A!AtLeast, B!AtLeast, A!Return, B!Return, A!BlankStatus, B!BlankStatus,
       A!Zero, B!Zero, A!Dims, B!Dims, A!Conditions, B!Conditions, A!world, B!world

LEMMA SameEnd ==
    /\ A!Persist(Manager) <=> B!Persist(Manager)
    /\ A!PersistFails(Manager) <=> B!PersistFails(Manager)
    /\ A!PersistAnswerLost(Manager) <=> B!PersistAnswerLost(Manager)
    /\ A!QueryFails(Manager) <=> B!QueryFails(Manager)
    /\ A!Finish(Manager) <=> B!Finish(Manager)
    /\ A!Crash(Manager) <=> B!Crash(Manager)
    /\ A!Tick <=> B!Tick
<1>1. /\ A!Persist(Manager) <=> B!Persist(Manager)
      /\ A!Tick <=> B!Tick
  BY DEF A!Persist, B!Persist, A!Tick, B!Tick, A!Earliest, B!Earliest,
         A!Goto, B!Goto, A!local, B!local
<1>2. /\ A!PersistFails(Manager) <=> B!PersistFails(Manager)
      /\ A!PersistAnswerLost(Manager) <=> B!PersistAnswerLost(Manager)
      /\ A!QueryFails(Manager) <=> B!QueryFails(Manager)
      /\ A!Finish(Manager) <=> B!Finish(Manager)
      /\ A!Crash(Manager) <=> B!Crash(Manager)
  BY SameReturn
     DEF A!PersistFails, B!PersistFails, A!QueryFails, B!QueryFails, A!Finish, B!Finish,
         A!PersistAnswerLost, B!PersistAnswerLost, A!Earliest, B!Earliest,
         A!Crash, B!Crash, A!Notice, B!Notice, A!world, B!world
<1> QED
  BY <1>1, <1>2

-----------------------------------------------------------------------------
(***************************************************************************)
(* Every step is a step of each half, or leaves it alone but for the       *)
(* number of faults; only the accounting also sees passes that return      *)
(* before step 4.                                                          *)
(***************************************************************************)

\* Nothing happens to the workloads, and a request of the accounting may fail.
WorkloadsRest == UNCHANGED workloads /\ faults' \in 0..MaxFaults

\* Nothing happens to the accounting, and a request of the enforcement may fail.
LedgerRests == UNCHANGED ledger /\ faults' \in 0..MaxFaults

\* Steps 2 and 3 return.
EarlyReturn ==
    /\ At({"query"}) /\ pc = "wait"
    /\ B!Return(Manager)
    /\ UNCHANGED <<world, faults>>

\* A fault is counted.
LEMMA FaultCounted ==
    ASSUME TypeOK, faults' = faults \/ (faults < MaxFaults /\ faults' = faults + 1)
    PROVE  faults' \in 0..MaxFaults
BY MaxFaultsAssumption DEF TypeOK

\* The phase an accounting pass comes to is one the enforcement knows.
LEMMA AccountedPhase ==
    ASSUME B!TypeInv, NEW rate \in B!Samples, B!Account(Manager, rate)
    PROVE  copy'[Manager].phase \in Phases
<1> DEFINE after == B!Accumulate(copy[Manager], rate, now)
           set == [after EXCEPT !.phase = B!determinePhase(after.acc)]
           new == B!WithConditions(set, now)
<1>1. copy[Manager] \in B!Status /\ now \in B!Time /\ B!Past(copy[Manager])
  BY DEF B!TypeInv, B!TypeOK, B!NoFuture
<1>2. after \in B!Status
  BY <1>1, B!AccumulateType, AccountingAssumed DEF B!Past, B!Samples
<1>3. copy' = [copy EXCEPT ![Manager] = new]
  BY DEF B!Account
<1>a. copy'[Manager] = new
  BY <1>3 DEF B!TypeInv, B!TypeOK
<1> HIDE DEF after
<1>4. B!determinePhase(after.acc) \in {"OK", "Warning", "Exceeded", "Suspended"}
  BY DEF B!determinePhase
<1>5. set \in B!Status /\ set.phase = B!determinePhase(after.acc)
  BY <1>2, <1>4 DEF B!Status, B!PhaseNames
<1> HIDE DEF set
<1>6. new.phase = set.phase
  BY <1>1, <1>5, B!ConditionsHonest, AccountingAssumed
<1> HIDE DEF new
<1> QED
  BY <1>a, <1>4, <1>5, <1>6, AccountingAssumption DEF A!PhaseNames

\* The enforcement half of every step.
LEMMA EnforcementHalf ==
    ASSUME TypeOK, B!TypeInv, [GovernorNext]_all
    PROVE  [Next]_vars \/ WorkloadsRest
<1>0. faults \in 0..MaxFaults
  BY DEF TypeOK
<1>a. ASSUME UNCHANGED workloads, UNCHANGED faults PROVE [Next]_vars \/ WorkloadsRest
  BY <1>0, <1>a DEF WorkloadsRest
<1>1. CASE BeginPass
  BY <1>a, <1>1 DEF BeginPass, Next, ControllerStep, EnforceStep
<1>2. CASE WriteReport
  BY <1>a, <1>2 DEF WriteReport, A!CreateReport, A!FillReport
<1>3. CASE EndBeforeAccounting
  BY <1>a, <1>3 DEF EndBeforeAccounting, Next, ControllerStep, CleanupStep
<1>4. ASSUME NEW rate \in A!Samples, Account(rate) PROVE [Next]_vars
  <2>1. copy'[Manager].phase \in Phases
    BY <1>4, AccountedPhase, SameAccount, SameValues DEF Account
  <2> QED
    BY <1>4, <2>1 DEF Account, Next, ControllerStep, EnforceStep
<1>5. ASSUME NEW found \in SUBSET Names, DetectAndPersist(found) PROVE [Next]_vars
  BY <1>5 DEF DetectAndPersist, Next, ControllerStep, EnforceStep
<1>6. CASE ActOnWorkloads
  BY <1>6 DEF ActOnWorkloads, Next, ControllerStep, EnforceStep
<1>7. CASE FinishPass
  BY <1>7 DEF FinishPass, Next, ControllerStep, EnforceStep
<1>8. CASE CleanUp
  BY <1>8 DEF CleanUp, Next, ControllerStep, CleanupStep
<1>9. CASE PatchMisses \/ PatchFails
  BY <1>9 DEF PatchMisses, PatchFails, Next, ControllerStep, FaultStep
<1>10. CASE ReportFails
  BY <1>10, FaultCounted
     DEF ReportFails, A!CreateFails, A!FillFails, A!CreateAnswerLost, A!FillAnswerLost,
         WorkloadsRest
<1>11. CASE PassGivesUp \/ PassStoredUnheard
  BY <1>11 DEF PassGivesUp, PassStoredUnheard, Next, FaultStep
<1>12. CASE ProcessDies
  <2>1. CASE pc = "wait"
    BY <1>12, <2>1, FaultCounted DEF ProcessDies, A!Crash, WorkloadsRest
  <2>2. CASE pc # "wait"
    BY <1>12, <2>2 DEF ProcessDies, Next, FaultStep
  <2> QED
    BY <2>1, <2>2
<1>13. CASE UserActs
  BY <1>13 DEF UserActs, Next, UserStep
<1>14. CASE Midnight
  BY <1>a, <1>14 DEF Midnight, A!Tick
<1>15. CASE UNCHANGED all
  BY <1>a, <1>15 DEF all
<1> QED
  BY <1>1, <1>2, <1>3, <1>4, <1>5, <1>6, <1>7, <1>8, <1>9, <1>10, <1>11, <1>12, <1>13,
     <1>14, <1>15
     DEF GovernorNext, ManagerStep

\* The accounting half of every step.
LEMMA AccountingHalf ==
    ASSUME TypeOK, [GovernorNext]_all
    PROVE  [B!Next]_(B!vars) \/ EarlyReturn \/ LedgerRests
<1>a. ASSUME UNCHANGED ledger,
             faults' = faults \/ (faults < MaxFaults /\ faults' = faults + 1)
      PROVE  LedgerRests
  BY <1>a, FaultCounted DEF LedgerRests
<1>b. ASSUME B!ProcStep(Manager) \/ B!FaultStep(Manager) \/ B!Tick PROVE B!Next
  BY <1>b DEF B!Next
<1>1. CASE BeginPass
  BY <1>b, <1>1, SameFetch DEF BeginPass, B!ProcStep
<1>2. CASE WriteReport
  BY <1>b, <1>2, SameReport DEF WriteReport, B!ProcStep
<1>3. CASE EndBeforeAccounting
  BY <1>3, SameReturn
     DEF EndBeforeAccounting, EarlyReturn, StartCleanup, RegisterFinalizer
<1>4. ASSUME NEW rate \in A!Samples, Account(rate) PROVE B!Next
  BY <1>b, <1>4, SameAccount, SameValues DEF Account, B!ProcStep
<1>5. ASSUME NEW found \in SUBSET Names, DetectAndPersist(found) PROVE B!Next
  BY <1>b, <1>5, SameEnd DEF DetectAndPersist, B!ProcStep
<1>6. CASE ActOnWorkloads
  BY <1>a, <1>6 DEF ActOnWorkloads, ScaleDownSkips, Annotate, ScaleDownStarts, ZeroReplicas,
                    SuspendAll
<1>7. CASE PassStoredUnheard
  BY <1>b, <1>7, SameEnd DEF PassStoredUnheard, B!FaultStep, B!AnswerLost
<1>8. CASE FinishPass
  BY <1>b, <1>8, SameEnd DEF FinishPass, B!ProcStep
<1>9. CASE CleanUp
  BY <1>a, <1>9 DEF CleanUp, RestoreSkips, RestoreFails, RestoreStarts, RestoreReplicas,
                    RemoveAnnotations, RemoveFinalizer, FinalizerUpdateFails
<1>10. CASE PatchMisses \/ PatchFails
  BY <1>a, <1>10 DEF PatchMisses, PatchFails, PatchNotFound, PatchRejected, PatchAnswerLost
<1>11. CASE ReportFails
  BY <1>b, <1>11, SameReport DEF ReportFails, B!ProcStep, B!FaultStep, B!AnswerLost
<1>12. CASE PassGivesUp
  BY <1>b, <1>12, SameEnd DEF PassGivesUp, B!FaultStep
<1>13. CASE ProcessDies
  <2>1. CASE At({"wait"})
    BY <1>a, <1>13, <2>1 DEF ProcessDies, Crash
  <2>2. CASE ~At({"wait"})
    BY <1>b, <1>13, <2>2, SameEnd DEF ProcessDies, B!FaultStep
  <2> QED
    BY <2>1, <2>2
<1>14. CASE UserActs
  BY <1>a, <1>14 DEF UserActs, BudgetDelete, BudgetCreate, UserDeletes, UserScale
<1>15. CASE Midnight
  BY <1>b, <1>15, SameEnd DEF Midnight
<1>16. CASE UNCHANGED all
  BY <1>a, <1>16 DEF all
<1> QED
  BY <1>1, <1>2, <1>3, <1>4, <1>5, <1>6, <1>7, <1>8, <1>9, <1>10, <1>11, <1>12, <1>13,
     <1>14, <1>15, <1>16
     DEF GovernorNext, ManagerStep

\* There is one process and its cache does not lag.
LEMMA ManagerAlone == B!Alone
BY NoLagAssumption DEF B!Alone

\* What one half knows of itself survives a step of the other (step 4 of Reconcile
\* and its early returns).
LEMMA HalvesStep ==
    ASSUME TypeOK, B!TypeInv, B!SoloInv, [GovernorNext]_all
    PROVE  TypeOK' /\ B!TypeInv' /\ B!SoloInv' /\ B!SignalStep
<1>1. TypeOK'
  <2>1. CASE [Next]_vars
    BY <2>1, TypeStep
  <2>2. CASE WorkloadsRest
    BY <2>2 DEF WorkloadsRest, workloads, server, objects, pass, TypeOK
  <2> QED
    BY <2>1, <2>2, EnforcementHalf
<1>2. CASE [B!Next]_(B!vars)
  BY <1>1, <1>2, B!BudgetTypeStep, B!SoloStep, ManagerAlone, AccountingAssumed
<1>3. CASE EarlyReturn
  <2>1. B!TypeInv'
    BY <1>3, B!ReturnType, AccountingAssumed DEF EarlyReturn, world, TypeOK
  <2>2. B!SignalStep
    BY <1>3, B!NoSignal, AccountingAssumed DEF EarlyReturn, world, B!TypeInv
  <2>3. B!SoloInv'
    BY <1>3 DEF EarlyReturn, world, B!SoloInv, B!Return, B!Goto, B!TypeInv, B!TypeOK
  <2> QED
    BY <1>1, <2>1, <2>2, <2>3
<1>4. CASE LedgerRests
  <2>1. B!TypeInv'
    BY <1>4 DEF LedgerRests, ledger, world, B!TypeInv, B!TypeOK, B!NoFuture, B!Past
  <2>2. B!SignalStep
    BY <1>4, B!NoSignal, AccountingAssumed DEF LedgerRests, ledger, world, B!TypeInv
  <2>3. B!SoloInv'
    BY <1>4
       DEF LedgerRests, ledger, world, B!SoloInv, B!Read, B!Rolling, B!Computed, B!HonestChange
  <2> QED
    BY <1>1, <2>1, <2>2, <2>3
<1> QED
  BY <1>2, <1>3, <1>4, AccountingHalf

-----------------------------------------------------------------------------
(***************************************************************************)
(* The two control points keep in step, and the phase the enforcement acts *)
(* in is the stored one.                                                   *)
(***************************************************************************)

\* Where the enforcement may be, by the control point of the accounting.
ControlInv ==
    /\ At({"wait"}) => pc = "wait" \/ stage = "cleanup"
    /\ At({"create", "fill", "query"}) => pc \in {"wait", "assess"}
    /\ At({"persist"}) => pc = "detect"
    /\ At({"act"}) => stage \in {"idle", "suspend"}

\* Where the phase comes from, and what it allows.
PhaseInv ==
    /\ pc \in {"wait", "assess"} \/ stage = "cleanup" => phase = "none"
    /\ phase # "none" => phase = copy[Manager].phase
    /\ pc \in {"annotate", "zero"} => phase \in Acting
    /\ stage = "idle" /\ todo # {} => phase \in Acting
    /\ stage = "suspend" => phase = "Suspended"

JointInv == ControlInv /\ PhaseInv /\ torn \in BOOLEAN

\* The control point of the accounting after each of its actions.
LEMMA StepGoes ==
    ASSUME B!TypeInv
    PROVE  /\ A!Fetch(Manager, TRUE) => /\ step[Manager] = "wait"
                                        /\ step'[Manager] \in {"create", "query"}
           /\ A!CreateReport(Manager) => step[Manager] = "create" /\ step'[Manager] = "fill"
           /\ A!FillReport(Manager) => step[Manager] = "fill" /\ step'[Manager] = "query"
           /\ A!CreateFails(Manager) => step[Manager] = "create" /\ step'[Manager] = "query"
           /\ A!FillFails(Manager) => step[Manager] = "fill" /\ step'[Manager] = "query"
           /\ A!CreateAnswerLost(Manager)
                => step[Manager] = "create" /\ step'[Manager] = "query"
           /\ A!FillAnswerLost(Manager) => step[Manager] = "fill" /\ step'[Manager] = "query"
           /\ A!Return(Manager) => step'[Manager] = "wait"
           /\ A!QueryFails(Manager) => step[Manager] = "query" /\ step'[Manager] = "wait"
           /\ A!PersistFails(Manager) => step[Manager] = "persist" /\ step'[Manager] = "wait"
           /\ A!PersistAnswerLost(Manager)
                => step[Manager] = "persist" /\ step'[Manager] = "wait"
           /\ \A rate : A!Account(Manager, rate)
                         => step[Manager] = "query" /\ step'[Manager] = "persist"
           /\ A!Persist(Manager) => /\ step[Manager] = "persist" /\ step'[Manager] = "act"
                                    /\ copy' = copy
           /\ A!Finish(Manager) => step[Manager] = "act" /\ step'[Manager] = "wait"
           /\ A!Crash(Manager) => step'[Manager] = "wait"
BY DEF B!TypeInv, B!TypeOK, A!Goto, A!Fetch, A!CreateReport, A!FillReport, A!CreateFails,
       A!FillFails, A!CreateAnswerLost, A!FillAnswerLost, A!Return, A!QueryFails,
       A!PersistFails, A!PersistAnswerLost, A!Account, A!Persist, A!Finish, A!Crash, A!local

\* JointInv is inductive: one step for each action.
LEMMA JointStep ==
    ASSUME TypeOK, B!TypeInv, B!SoloInv, JointInv, [GovernorNext]_all
    PROVE  JointInv'
<1> USE DEF JointInv, ControlInv, PhaseInv, At
<1>0. /\ step[Manager] \in {"wait", "create", "fill", "query", "persist", "act"}
      /\ "none" \notin Phases
  BY PhasesAssumption DEF B!TypeInv, B!TypeOK
\* The enforcement returns, and so does the accounting.
<1>a. ASSUME ReturnToQueue, step'[Manager] = "wait", torn' \in BOOLEAN PROVE JointInv'
  BY <1>a DEF ReturnToQueue
\* The accounting returns, or goes on, and the enforcement waits for it.
<1>b. ASSUME UNCHANGED workloads, pc \in {"wait", "assess"}, stage = "none",
             step'[Manager] \in {"create", "fill", "query", "wait"},
             step'[Manager] = "wait" => pc = "wait", torn' \in BOOLEAN
      PROVE  JointInv'
  BY <1>b DEF workloads, pass, TypeOK
\* The accounting waits.
<1>c. ASSUME UNCHANGED <<ledger, phase>>
      PROVE  /\ step' = step /\ copy' = copy
             /\ phase' # "none" => phase' = copy'[Manager].phase
  BY <1>c DEF ledger
<1>1. CASE BeginPass
  <2>1. CASE seen.state = "active"
    BY <1>1, <2>1, StepGoes DEF BeginPass, StartPass, TypeOK
  <2>2. CASE seen.state # "active"
    BY <1>b, <1>1, <2>2, StepGoes DEF BeginPass, TypeOK
  <2> QED
    BY <2>1, <2>2
<1>2. CASE WriteReport
  BY <1>b, <1>2, StepGoes DEF WriteReport, TypeOK
<1>3. CASE EndBeforeAccounting
  <2>1. CASE StartCleanup
    BY <1>3, <2>1, StepGoes DEF EndBeforeAccounting, StartCleanup, TypeOK
  <2>2. CASE RegisterFinalizer \/ UNCHANGED <<workloads, faults>>
    BY <1>3, <2>2, StepGoes
       DEF EndBeforeAccounting, RegisterFinalizer, workloads, pass, TypeOK
  <2> QED
    BY <1>3, <2>1, <2>2 DEF EndBeforeAccounting
<1>4. ASSUME NEW rate \in A!Samples, Account(rate) PROVE JointInv'
  <2>1. copy'[Manager].phase \in Phases
    BY <1>4, AccountedPhase, SameAccount, SameValues DEF Account
  <2> QED
    BY <1>4, <2>1, StepGoes DEF Account, Assess, TypeOK
<1>5. ASSUME NEW found \in SUBSET Names, DetectAndPersist(found) PROVE JointInv'
  BY <1>5, StepGoes DEF DetectAndPersist, DetectIdle, TypeOK
<1>6. CASE ActOnWorkloads
  <2>1. ASSUME NEW d \in Names, ScaleDownSkips(d) PROVE JointInv'
    BY <1>6, <2>1, <1>c DEF ActOnWorkloads, ScaleDownSkips, TypeOK
  <2>2. ASSUME NEW d \in Names, ScaleDownStarts(d) PROVE JointInv'
    BY <1>6, <2>2, <1>c DEF ActOnWorkloads, ScaleDownStarts, TypeOK, Acting
  <2>3. CASE Annotate
    BY <1>6, <2>3, <1>c DEF ActOnWorkloads, Annotate, TypeOK
  <2>4. CASE ZeroReplicas
    BY <1>6, <2>4, <1>c DEF ActOnWorkloads, ZeroReplicas, CallReturns, TypeOK, Patching
  <2>5. CASE SuspendAll
    BY <1>6, <2>5, <1>c DEF ActOnWorkloads, SuspendAll, TypeOK
  <2> QED
    BY <1>6, <2>1, <2>2, <2>3, <2>4, <2>5 DEF ActOnWorkloads
<1>10. CASE FinishPass
  BY <1>10, <1>a, StepGoes DEF FinishPass, PassEnds
<1>11. CASE CleanUp
  <2>1. ASSUME NEW d \in Names, RestoreSkips(d) \/ RestoreStarts(d) PROVE JointInv'
    BY <1>11, <2>1, <1>c DEF CleanUp, RestoreSkips, RestoreStarts, TypeOK
  <2>2. CASE RestoreReplicas \/ RemoveAnnotations
    BY <1>11, <2>2, <1>c
       DEF CleanUp, RestoreReplicas, RemoveAnnotations, CallReturns, TypeOK
  <2>3. CASE ReturnToQueue
    BY <1>11, <2>3, <1>a DEF CleanUp, ledger
  <2> QED
    BY <1>11, <2>1, <2>2, <2>3
       DEF CleanUp, RestoreFails, RemoveFinalizer, FinalizerUpdateFails
<1>12. CASE PatchMisses \/ PatchFails
  <2>1. /\ pc \in Patching /\ UNCHANGED <<ledger, torn>>
        /\ IF stage = "cleanup" THEN ReturnToQueue ELSE CallReturns
    BY <1>12 DEF PatchMisses, PatchFails, PatchNotFound, PatchRejected, PatchAnswerLost,
                 CallFails
  <2>2. CASE stage = "cleanup"
    <3>1. step[Manager] = "wait"
      BY <2>1, <2>2, <1>0 DEF TypeOK, Patching
    <3> QED
      BY <2>1, <2>2, <3>1, <1>a DEF ledger
  <2>3. CASE stage # "cleanup"
    <3>1. stage \in {"idle", "suspend"} /\ cur \in Names
      BY <2>1, <2>3 DEF TypeOK, Patching
    <3> QED
      BY <2>1, <2>3, <3>1, <1>c DEF CallReturns, TypeOK
  <2> QED
    BY <2>2, <2>3
<1>13. CASE ReportFails
  BY <1>13, <1>b, StepGoes DEF ReportFails, TypeOK
<1>14. CASE PassGivesUp \/ PassStoredUnheard
  BY <1>14, <1>a, StepGoes DEF PassGivesUp, PassStoredUnheard, PassFails, Tear
<1>15. CASE ProcessDies
  <2>1. step'[Manager] = "wait" /\ torn' \in BOOLEAN
    BY <1>15, StepGoes DEF ProcessDies, Tear, ledger
  <2>2. CASE pc = "wait"
    BY <1>15, <2>1, <2>2, <1>b DEF ProcessDies, TypeOK
  <2>3. CASE pc # "wait"
    BY <1>15, <2>1, <2>3, <1>a DEF ProcessDies, Crash
  <2> QED
    BY <2>2, <2>3
<1>16. CASE UserActs
  <2>1. UNCHANGED <<pc, stage, phase, todo>>
    BY <1>16 DEF UserActs, BudgetDelete, BudgetCreate, UserDeletes, UserScale, control, pass
  <2> QED
    BY <1>16, <2>1, <1>c DEF UserActs
<1>17. CASE Midnight
  BY <1>17 DEF Midnight, A!Tick, A!local, workloads, pass
<1>18. CASE UNCHANGED all
  BY <1>18 DEF all, ledger, workloads, pass
<1> QED
  BY <1>1, <1>2, <1>4, <1>3, <1>5, <1>6, <1>10, <1>11, <1>12, <1>13,
     <1>14, <1>15, <1>16, <1>17, <1>18
     DEF GovernorNext, ManagerStep

\* A workload comes into the operator's hands by the first patch of ScaleDown, and
\* by no other write, whoever makes it.
LEMMA OnlyAnnotateMarks ==
    ASSUME TypeOK, [Next]_vars, NEW d \in Names, ~Marked(d), Marked(d)'
    PROVE  pc = "annotate"
<1> SUFFICES ASSUME pc # "annotate" PROVE FALSE
  OBVIOUS
<1> USE DEF Marked, Exists, IsScaledDownByOperator
\* A write that leaves the mark alone or takes it off.
<1>1. ASSUME NEW e \in Names, NEW o, Write(e, o),
             o # Absent => o.by = "none" \/ (api[e] # Absent /\ o.by = api[e].by)
      PROVE  FALSE
  BY <1>1, WriteAt
<1>2. ASSUME pc \in Patching, Exists(cur), Write(cur, Patched(CallForm)) PROVE FALSE
  <2>1. cur \in Names /\ base \in Object /\ api[cur] \in Object /\ CallForm \in Object
    BY <1>2, CallFormFields DEF TypeOK
  <2>2. CallForm.by \in {base.by, "none"}
    BY <1>2, CallFormFields, FormFields DEF Patching, Agree
  <2>3. Patched(CallForm).by \in {api[cur].by, "none"}
    BY <2>1, <2>2, MergedMark DEF Patched, Object
  <2> QED
    BY <1>1, <1>2, <2>1, <2>3
<1>3. ASSUME api' = api PROVE FALSE
  BY <1>3
<1>4. CASE EnforceStep
  <2>1. CASE Annotate \/ ZeroReplicas
    BY <1>2, <2>1 DEF Annotate, ZeroReplicas, Patching, CallForm
  <2> QED
    BY <1>3, <1>4, <2>1
       DEF EnforceStep, StartPass, Assess, DetectIdle, ScaleDownSkips, ScaleDownStarts,
           SuspendAll, PassEnds, server
<1>5. CASE CleanupStep
  <2>1. CASE RestoreReplicas \/ RemoveAnnotations
    BY <1>2, <2>1 DEF RestoreReplicas, RemoveAnnotations, Patching, CallForm
  <2> QED
    BY <1>3, <1>5, <2>1
       DEF CleanupStep, RegisterFinalizer, StartCleanup, RestoreSkips, RestoreFails,
           RestoreStarts, RemoveFinalizer, FinalizerUpdateFails, server
<1>6. CASE PatchNotFound \/ FaultStep \/ CacheStep
  BY <1>2, <1>3, <1>6
     DEF PatchNotFound, FaultStep, PassFails, PatchRejected, PatchAnswerLost, Crash, CacheStep,
         BudgetSync, CacheSync, server
<1>7. CASE PluginStep
  <2>1. ASSUME NEW e \in Names, PluginPatch(e) PROVE FALSE
    <3>1. listed[e] \in Object /\ api[e] \in Object /\ ReleasedForm(listed[e]) \in Object
      BY <2>1, FormType DEF PluginPatch, TypeOK
    <3>2. ReleasedForm(listed[e]).by = "none"
      BY FormFields
    <3>3. MergePatch(api[e], listed[e], ReleasedForm(listed[e])).by \in {api[e].by, "none"}
      BY <3>1, <3>2, MergedMark
    <3> QED
      BY <1>1, <2>1, <3>3 DEF PluginPatch
  <2> QED
    BY <1>3, <1>7, <2>1 DEF PluginStep, PluginList, PluginSkips, server
<1>8. CASE UserStep
  <2>1. ASSUME NEW e \in Names, NEW n, UserScale(e, n) PROVE FALSE
    <3>1. api[e] \in Object
      BY <2>1 DEF UserScale, TypeOK
    <3>2. [api[e] EXCEPT !.replicas = n].by = api[e].by
      BY <3>1 DEF Object
    <3> QED
      BY <1>1, <2>1, <3>2 DEF UserScale
  <2>2. ASSUME NEW e \in Names, NEW l, UserRelabel(e, l) PROVE FALSE
    <3>1. api[e] \in Object
      BY <2>2 DEF UserRelabel, TypeOK
    <3>2. [api[e] EXCEPT !.labels = l].by = api[e].by
      BY <3>1 DEF Object
    <3> QED
      BY <1>1, <2>2, <3>2 DEF UserRelabel
  <2>3. ASSUME NEW e \in Names, NEW o, UserTampers(e, o) PROVE FALSE
    <3>1. api[e] \in Object
      BY <2>3 DEF UserTampers, TypeOK
    <3>2. [api[e] EXCEPT !.orig = o].by = api[e].by
      BY <3>1 DEF Object
    <3> QED
      BY <1>1, <2>3, <3>2 DEF UserTampers
  <2>4. ASSUME NEW e \in Names, UserDeletes(e) PROVE FALSE
    BY <1>1, <2>4 DEF UserDeletes
  <2>5. ASSUME NEW e \in Names, NEW n, NEW l, UserCreates(e, n, l) PROVE FALSE
    BY <1>1, <2>5 DEF UserCreates, Fresh
  <2> QED
    BY <1>3, <1>8, <2>1, <2>2, <2>3, <2>4, <2>5
       DEF UserStep, BudgetCreate, BudgetEdit, BudgetDelete, server
<1>9. CASE UNCHANGED vars
  BY <1>3, <1>9 DEF vars
<1> QED
  BY <1>4, <1>5, <1>6, <1>7, <1>8, <1>9 DEF Next, ControllerStep

\* While ScaleDown has a workload in hand, the phase it acts in is stored.
LEMMA ActsOnStoredPhase ==
    ASSUME TypeOK, B!TypeInv, B!SoloInv, JointInv, pc = "annotate"
    PROVE  status.phase \in Acting
<1>1. stage \in {"idle", "suspend"}
  BY DEF TypeOK
<1>2. step[Manager] = "act"
  BY <1>1 DEF TypeOK, B!TypeInv, B!TypeOK, JointInv, ControlInv, At
<1>3. status = copy[Manager]
  BY <1>2 DEF B!SoloInv
<1>4. phase \in Acting /\ phase = copy[Manager].phase
  BY DEF JointInv, PhaseInv, Acting
<1> QED
  BY <1>3, <1>4

-----------------------------------------------------------------------------
(***************************************************************************)
(* Theorems.                                                               *)
(***************************************************************************)

\* All that the proofs below rest on.
GovernorInv == TypeOK /\ B!TypeInv /\ B!SoloInv /\ JointInv

\* GovernorInv holds in every reachable state of a whole Reconcile.
LEMMA GovernorInvariant == GovernorSpec => []GovernorInv
<1>1. GovernorInit => GovernorInv
  <2> SUFFICES ASSUME GovernorInit PROVE GovernorInv
    OBVIOUS
  <2>1. Init /\ B!Init
    BY SameStates DEF GovernorInit
  <2>2. TypeOK
    BY <2>1, TypeInitially
  <2>3. B!TypeInv /\ B!SoloInv
    BY <2>1, B!BudgetTypeInitially, B!SoloInitially, AccountingAssumed
  <2>4. JointInv
    BY <2>1 DEF GovernorInit, Init, B!Init, JointInv, ControlInv, PhaseInv, At
  <2> QED
    BY <2>2, <2>3, <2>4 DEF GovernorInv
<1>2. GovernorInv /\ [GovernorNext]_all => GovernorInv'
  BY HalvesStep, JointStep DEF GovernorInv
<1> QED
  BY <1>1, <1>2, PTL DEF GovernorSpec

\* Every reachable state of a whole Reconcile is well typed, and its two halves are
\* at control points of the same pass: no workload is touched before the status is
\* stored, and none is left in hand when the pass is over (steps 1 to 11).
THEOREM GovernorTypeCorrect == GovernorSpec => []GovernorTypeOK
<1>1. GovernorInv => GovernorTypeOK
  BY SameStates
     DEF GovernorInv, B!TypeInv, GovernorTypeOK, JointInv, ControlInv, PhaseInv
<1> QED
  BY <1>1, GovernorInvariant, PTL

\* A workload is marked only when the phase stored at the API server calls for it,
\* whatever crashed, failed or was retried before (steps 6 and 8 to 10).
THEOREM MarksFollowTheStatus == GovernorSpec => MarkedOnlyOverBudget
<1>1. GovernorInv /\ [GovernorNext]_all
        => [\A d \in Names : ~Marked(d) /\ Marked(d)' => status.phase \in Acting]_all
  <2> SUFFICES ASSUME GovernorInv, [GovernorNext]_all,
                      NEW d \in Names, ~Marked(d), Marked(d)'
               PROVE  status.phase \in Acting
    OBVIOUS
  <2>1. CASE [Next]_vars
    BY <2>1, OnlyAnnotateMarks, ActsOnStoredPhase DEF GovernorInv
  <2>2. CASE WorkloadsRest
    BY <2>2 DEF WorkloadsRest, workloads, server, Marked, Exists, IsScaledDownByOperator
  <2> QED
    BY <2>1, <2>2, EnforcementHalf DEF GovernorInv
<1> QED
  BY <1>1, GovernorInvariant, PTL DEF GovernorSpec, MarkedOnlyOverBudget

-----------------------------------------------------------------------------
(***************************************************************************)
(* What each half guarantees on its own, it guarantees in a whole          *)
(* Reconcile.                                                              *)
(***************************************************************************)

\* Steps 1 to 6 and the notices do not disturb the enforcement: no mark survives
\* the finalizer, however the accounting fails in between.
THEOREM GovernorGivesBack == GovernorSpec => []NothingLeftBehind
<1>1. GovernorInit => InSync /\ CleanupInv
  BY CustodyInitially DEF GovernorInit
<1>2. GovernorInv /\ InSync /\ CleanupInv /\ [GovernorNext]_all => InSync' /\ CleanupInv'
  <2> SUFFICES ASSUME GovernorInv, InSync, CleanupInv, [GovernorNext]_all
               PROVE  InSync' /\ CleanupInv'
    OBVIOUS
  <2>1. CASE [Next]_vars
    BY <2>1, SyncStep, CleanupStepInv, NoLagAssumption DEF GovernorInv
  <2>2. CASE WorkloadsRest
    BY <2>2 DEF WorkloadsRest, workloads, server, objects, pass, InSync, CleanupInv,
                NothingLeftBehind, Marked, Exists
  <2> QED
    BY <2>1, <2>2, EnforcementHalf DEF GovernorInv
<1>3. CleanupInv => NothingLeftBehind
  BY DEF CleanupInv
<1> QED
  BY <1>1, <1>2, <1>3, GovernorInvariant, PTL DEF GovernorSpec

\* In a namespace where nobody interferes with what the operator holds, a whole
\* Reconcile implements Custody, as the enforcement alone does.
THEOREM GovernorImplementsCustody ==
    ASSUME Undisturbed
    PROVE  GovernorSpec => CustodyRefined
<1> DEFINE KeptInv == InSync /\ SoundInv /\ CleanupInv /\ CustodyInv
<1>1. GovernorInit => KeptInv /\ C!Init
  BY CustodyInitially DEF GovernorInit
<1>2. GovernorInv /\ KeptInv /\ [GovernorNext]_all => KeptInv' /\ [C!Next]_(C!vars)
  <2> SUFFICES ASSUME GovernorInv, KeptInv, [GovernorNext]_all
               PROVE  KeptInv' /\ [C!Next]_(C!vars)
    OBVIOUS
  <2>1. CASE [Next]_vars
    BY <2>1, SyncStep, SoundStep, CleanupStepInv, CustodyStep DEF Undisturbed, GovernorInv
  <2>2. CASE WorkloadsRest
    <3>1. UNCHANGED <<api, cache, budget, seen, pc, stage, phase, excl, todo, cur, base,
                      shield, listed, want>>
      BY <2>2 DEF WorkloadsRest, workloads, server, objects, pass
    <3>2. InSync' /\ SoundInv' /\ CleanupInv'
      BY <3>1 DEF InSync, SoundInv, CleanupInv, NothingLeftBehind, Marked, Exists
    <3>3. CustodyInv' /\ UNCHANGED C!vars
      BY <3>1, QuietInCustody DEF CustodyInv, Exists, Governed
    <3> QED
      BY <3>2, <3>3
  <2> QED
    BY <2>1, <2>2, EnforcementHalf DEF GovernorInv
<1> QED
  BY <1>1, <1>2, GovernorInvariant, PTL DEF GovernorSpec, CustodyRefined, C!Spec

\* The enforcement and the deletion of a budget do not disturb the accounting:
\* within a period the stored phase only climbs, so what the enforcement has done
\* in a phase is not called off by a later sample (steps 5, 6 and 8).
THEOREM GovernorPhaseClimbs == GovernorSpec => A!PhaseOnlyClimbs
<1>1. GovernorInv /\ [GovernorNext]_all
        => [status'.since = status.since
              => A!Rank[status'.phase] >= A!Rank[status.phase]]_(A!vars)
  BY HalvesStep DEF GovernorInv, B!SignalStep, A!Rank, B!Rank
<1> QED
  BY <1>1, GovernorInvariant, PTL DEF GovernorSpec, A!PhaseOnlyClimbs

\* A pass that dies or gives up in its accounting does not lose a workload either:
\* one the user wants running is never at zero without the record it can be restored
\* from, through a whole Reconcile and the deletion of the budget (ScaleDown and
\* Restore, under the conditions of NeverLost that this composition leaves open).
THEOREM GovernorNeverLoses ==
    ASSUME ~PluginOn, "tamper" \notin UserOps, "create" \notin UserOps
    PROVE  GovernorSpec => []Recoverable
<1> DEFINE SafeInv == InSync /\ SoundInv /\ RecoverInv
<1>1. GovernorInit => SafeInv
  BY DEF GovernorInit, Init, InSync, SoundInv, Sound, Fresh, IsScaledDownByOperator, Patching,
         RecoverInv, Marked, Exists
<1>2. GovernorInv /\ SafeInv /\ [GovernorNext]_all => SafeInv'
  <2> SUFFICES ASSUME GovernorInv, SafeInv, [GovernorNext]_all PROVE SafeInv'
    OBVIOUS
  <2>1. CASE [Next]_vars
    BY <2>1, SyncStep, SoundStep, RecoverStep, NoLagAssumption DEF GovernorInv
  <2>2. CASE WorkloadsRest
    <3>1. UNCHANGED <<api, cache, budget, seen, pc, stage, phase, excl, todo, cur, base,
                      shield, listed, want>>
      BY <2>2 DEF WorkloadsRest, workloads, server, objects, pass
    <3> QED
      BY <3>1 DEF InSync, SoundInv, RecoverInv, Marked, Exists
  <2> QED
    BY <2>1, <2>2, EnforcementHalf DEF GovernorInv
<1>3. SafeInv => Recoverable
  BY DEF SoundInv, Sound, RecoverInv, Recoverable, Marked, Exists
<1> QED
  BY <1>1, <1>2, <1>3, GovernorInvariant, PTL DEF GovernorSpec

\* Nor does the time that the report, the queries and the status update take between
\* the read of the budget and the scale-down let an excluded workload through: one
\* that was excluded since the pass began, as the controller's cache shows it, is not
\* handed to ScaleDown (steps 1 to 10).
THEOREM GovernorHonoursExclusions == GovernorSpec => []ShieldedNeverInHand
<1>1. GovernorInit => InSync /\ ShieldInv
  BY DEF GovernorInit, Init, InSync, ShieldInv, ShieldedNeverInHand
<1>2. GovernorInv /\ InSync /\ ShieldInv /\ [GovernorNext]_all => InSync' /\ ShieldInv'
  <2> SUFFICES ASSUME GovernorInv, InSync, ShieldInv, [GovernorNext]_all
               PROVE  InSync' /\ ShieldInv'
    OBVIOUS
  <2>1. CASE [Next]_vars
    BY <2>1, SyncStep, ShieldStep DEF GovernorInv
  <2>2. CASE WorkloadsRest
    BY <2>2 DEF WorkloadsRest, workloads, server, objects, pass, InSync, ShieldInv,
                ShieldedNeverInHand, ExcludedAsRead
  <2> QED
    BY <2>1, <2>2, EnforcementHalf DEF GovernorInv
<1>3. ShieldInv => ShieldedNeverInHand
  BY DEF ShieldInv
<1> QED
  BY <1>1, <1>2, <1>3, GovernorInvariant, PTL DEF GovernorSpec

\* A finished report stays as it is through the early returns and the deletion of the
\* budget too, which the accounting alone does not have (Generate, cleanup).
THEOREM GovernorReportsAreFinal == GovernorSpec => A!ReportFinal
<1>1. GovernorInit => B!FillInv
  BY SameStates DEF GovernorInit, B!Init, B!FillInv, B!Filling
<1>2. GovernorInv /\ B!FillInv /\ [GovernorNext]_all => B!FillInv' /\ B!Final
  <2> SUFFICES ASSUME GovernorInv, B!FillInv, [GovernorNext]_all
               PROVE  B!FillInv' /\ B!Final
    OBVIOUS
  <2>1. CASE [B!Next]_(B!vars)
    BY <2>1, B!FillStep, AccountingAssumed DEF GovernorInv, B!TypeInv
  <2>2. CASE EarlyReturn
    <3>1. reports' = reports /\ step' = [step EXCEPT ![Manager] = "wait"]
      BY <2>2 DEF EarlyReturn, world, B!Return, B!Goto
    <3>2. step'[Manager] = "wait"
      BY <3>1 DEF GovernorInv, B!TypeInv, B!TypeOK
    <3> QED
      BY <3>1, <3>2 DEF B!FillInv, B!Filling, B!Final
  <2>3. CASE LedgerRests
    BY <2>3 DEF LedgerRests, ledger, world, B!FillInv, B!Filling, B!Target, B!Month, B!Final
  <2> QED
    BY <2>1, <2>2, <2>3, AccountingHalf DEF GovernorInv
<1>3. B!Final => [\A m \in A!Months : reports[m].state = "full"
                                        => reports'[m] = reports[m]]_(A!vars)
  BY SameValues DEF B!Final
<1> QED
  BY <1>1, <1>2, <1>3, GovernorInvariant, PTL DEF GovernorSpec, A!ReportFinal

-----------------------------------------------------------------------------
(***************************************************************************)
(* The ledger: what the reports of some months say together.               *)
(***************************************************************************)
Billed(r, d, S) == A!MapThenSumSet(LAMBDA m : r[m].total[d], S)

\* Billed is a sum in the sense of SumProofs.
LEMMA BilledSums ==
    ASSUME NEW r, NEW d, NEW S, IsFiniteSet(S)
    PROVE  \E g : /\ Sums(g, [m \in S |-> r[m].total[d]], S)
                  /\ Billed(r, d, S) = g[S]
<1> DEFINE Body(h) == [s \in SUBSET S |-> IF s = {} THEN 0
                                          ELSE r[Picked(s)].total[d] + h[s \ {Picked(s)}]]
           f == [m \in S |-> r[m].total[d]]
           g == CHOOSE h : h = Body(h)
<1>1. ASSUME NEW h PROVE Sums(h, f, S) <=> h = Body(h)
  <2>1. \A s \in SUBSET S : s # {} => Picked(s) \in S
    BY DEF Picked
  <2>2. \A s \in SUBSET S : s # {} => f[Picked(s)] = r[Picked(s)].total[d]
    BY <2>1
  <2> HIDE DEF f
  <2>3. [s \in SUBSET S |-> IF s = {} THEN 0 ELSE f[Picked(s)] + h[s \ {Picked(s)}]]
          = Body(h)
    BY <2>2
  <2> QED
    BY <2>3 DEF Sums
<1>2. Billed(r, d, S) = g[S]
  BY DEF Billed, A!MapThenSumSet, A!MapThenFoldSet, Picked
<1> HIDE DEF Body, f
<1>3. g = Body(g)
  BY <1>1, SumsExist
<1> HIDE DEF g
<1>4. Sums(g, f, S)
  BY <1>1, <1>3
<1> QED
  BY <1>2, <1>4 DEF f

\* The months are finitely many.
LEMMA MonthsFinite == IsFiniteSet(B!Months) /\ B!Months \subseteq Nat
<1>1. B!Month(MaxTime) \in Nat
  BY B!MonthMonotone, AccountingAssumed DEF B!Time
<1> QED
  BY <1>1, FS_Interval DEF B!Months

\* What is billed is a usage; months without a total do not count, and a month that
\* has one counts once.
LEMMA BilledFacts ==
    ASSUME NEW r \in [B!Months -> B!Report], NEW d \in B!Dims, NEW S \in SUBSET B!Months
    PROVE  /\ Billed(r, d, S) \in Nat
           /\ \A T \in SUBSET S : (\A m \in S \ T : r[m].total[d] = 0)
                => Billed(r, d, S) = Billed(r, d, T)
           /\ \A m \in S : Billed(r, d, S) = r[m].total[d] + Billed(r, d, S \ {m})
           /\ \A q : (\A m \in S : q[m].total[d] = r[m].total[d])
                => Billed(q, d, S) = Billed(r, d, S)
<1> DEFINE f == [m \in S |-> r[m].total[d]]
<1>1. IsFiniteSet(S) /\ \A T \in SUBSET S : IsFiniteSet(T)
  BY MonthsFinite, FS_Subset
<1>2. \A m \in S : f[m] = r[m].total[d] /\ f[m] \in Nat
  BY DEF B!Report, B!Usage
<1>3. PICK g : Sums(g, f, S) /\ Billed(r, d, S) = g[S]
  BY <1>1, BilledSums
<1> HIDE DEF f
\* Part of the months, or other reports of the same months.
<1>4. ASSUME NEW T \in SUBSET S, NEW q, \A m \in T : q[m].total[d] = r[m].total[d]
      PROVE  Billed(q, d, T) = g[T]
  <2> DEFINE e == [m \in T |-> q[m].total[d]]
  <2>1. \A m \in T : f[m] = e[m]
    BY <1>2, <1>4
  <2>2. PICK h : Sums(h, e, T) /\ Billed(q, d, T) = h[T]
    BY <1>1, BilledSums
  <2> HIDE DEF e
  <2>3. g[T] = h[T]
    BY <1>1, <1>3, <2>1, <2>2, SumsAgree
  <2> QED
    BY <2>2, <2>3
<1>5. Billed(r, d, S) \in Nat
  <2>1. \A T \in SUBSET S : g[T] \in Nat
    BY <1>1, <1>2, <1>3, SumType, Zenon
  <2> QED
    BY <1>3, <2>1, S \in SUBSET S
<1>6. ASSUME NEW T \in SUBSET S, \A m \in S \ T : r[m].total[d] = 0
      PROVE  Billed(r, d, S) = Billed(r, d, T)
  <2>1. \A m \in S \ T : f[m] = 0
    BY <1>2, <1>6
  <2>2. g[S] = g[T]
    BY <1>1, <1>2, <1>3, <2>1, ZerosIgnored
  <2> QED
    BY <1>3, <1>4, <2>2
<1>7. ASSUME NEW m \in S
      PROVE  Billed(r, d, S) = r[m].total[d] + Billed(r, d, S \ {m})
  <2>1. g[S] = f[m] + g[S \ {m}]
    BY <1>1, <1>2, <1>3, SumTakesAny
  <2>2. Billed(r, d, S \ {m}) = g[S \ {m}]
    BY <1>4
  <2> QED
    BY <1>2, <1>3, <2>1, <2>2
<1>8. ASSUME NEW q, \A m \in S : q[m].total[d] = r[m].total[d]
      PROVE  Billed(q, d, S) = Billed(r, d, S)
  BY <1>3, <1>4, <1>8, S \in SUBSET S
<1> QED
  BY <1>5, <1>6, <1>7, <1>8

\* No months, no bill.
LEMMA BilledNothing == \A r, d : Billed(r, d, {}) = 0
<1> SUFFICES ASSUME NEW r, NEW d PROVE Billed(r, d, {}) = 0
  OBVIOUS
<1> DEFINE f == [m \in {} |-> r[m].total[d]]
<1>1. PICK g : Sums(g, f, {}) /\ Billed(r, d, {}) = g[{}]
  BY BilledSums, FS_EmptySet, Zenon
<1> HIDE DEF f
<1>2. PICK S : S = {}
  OBVIOUS
<1>3. Sums(g, f, S) /\ S \in SUBSET S
  BY <1>1, <1>2
<1>4. g[S] = 0
  BY <1>2, <1>3, SumUnfolds, Zenon
<1> QED
  BY <1>1, <1>2, <1>4

\* One month of them, taken apart.
LEMMA BilledTakes ==
    ASSUME NEW r \in [B!Months -> B!Report], NEW d \in B!Dims, NEW S \in SUBSET B!Months,
           NEW m \in S
    PROVE  Billed(r, d, S) = r[m].total[d] + Billed(r, d, S \ {m})
<1>1. \A n \in S : Billed(r, d, S) = r[n].total[d] + Billed(r, d, S \ {n})
  BY BilledFacts, Zenon
<1> QED
  BY <1>1, Zenon

\* The months before day t.
Before(t) == {m \in B!Months : t # Never /\ m < B!Month(t)}

\* Conserved in these terms.
LEMMA ConservedBilled ==
    A!Conserved <=>
      (status.last # Never => \A d \in B!Dims :
         status.acc[d] + Billed(reports, d, Before(status.since)) = status.last - started)
BY DEF A!Conserved, Billed, Before, A!ClosedMonths, A!Month, B!Month, A!Months, B!Months,
       A!Dims, B!Dims

-----------------------------------------------------------------------------
(***************************************************************************)
(* The life of the budget, as the two halves see it.                       *)
(***************************************************************************)
LifeInv ==
    /\ budget.state \in {"absent", "new"} => pc = "wait"
    /\ budget.state = "new" => started = Never
    /\ budget.state = "active" /\ pc = "wait" => At({"wait"})
    /\ stage = "cleanup" => budget.state = "deleting"

\* Passes over the budget are still accounted for.
Live == budget.state = "active" \/ pc \in {"assess", "detect"} \/ stage \in {"idle", "suspend"}

\* Accounting resumes only for a budget without a past.
LiveFromStart == Live' => Live \/ started = Never

\* LifeInv is inductive.
LEMMA LifeStep ==
    ASSUME GovernorInv, InSync, LifeInv, [GovernorNext]_all
    PROVE  LifeInv' /\ LiveFromStart
<1> USE DEF LifeInv, LiveFromStart, Live, At
<1>0. /\ seen = budget /\ budget.state \in {"absent", "new", "active", "deleting"}
      /\ step[Manager] \in {"wait", "create", "fill", "query", "persist", "act"}
      /\ TypeOK /\ B!TypeInv
      /\ budget \in [state : BudgetStates, exclusions : ExclusionSpecs]
  BY NoLagAssumption DEF InSync, TypeOK, B!TypeInv, B!TypeOK, GovernorInv, BudgetStates
<1>01. ASSUME NEW b, WriteBudget(b) PROVE budget' = b
  BY <1>01 DEF WriteBudget
\* Nothing happens to the budget, and the enforcement returns with the accounting.
<1>a. ASSUME UNCHANGED <<budget, started>>, ReturnToQueue, step'[Manager] = "wait"
      PROVE  LifeInv' /\ LiveFromStart
  BY <1>0, <1>a DEF ReturnToQueue
\* Nothing happens to the budget or to the loop the enforcement is in.
<1>b. ASSUME UNCHANGED <<budget, started, stage>>, pc # "wait", pc' # "wait",
             pc' \in {"assess", "detect"} => pc \in {"assess", "detect"}
      PROVE  LifeInv' /\ LiveFromStart
  BY <1>0, <1>b
<1>c. ASSUME UNCHANGED <<workloads, started, step>> PROVE LifeInv' /\ LiveFromStart
  BY <1>0, <1>c DEF workloads, objects, pass
<1>d. ASSUME UNCHANGED <<workloads, started>>, step[Manager] # "wait"
      PROVE  LifeInv' /\ LiveFromStart
  BY <1>0, <1>d DEF workloads, objects, pass
<1>1. CASE BeginPass
  <2>1. started' = started /\ pc = "wait"
    BY <1>1 DEF BeginPass, A!Fetch, A!world
  <2>2. CASE seen.state = "active"
    BY <1>0, <1>1, <2>1, <2>2 DEF BeginPass, StartPass, objects, TypeOK
  <2>3. CASE seen.state # "active"
    BY <1>0, <1>1, <2>1, <2>3 DEF BeginPass, workloads, objects, pass
  <2> QED
    BY <2>2, <2>3
<1>2. CASE WriteReport
  BY <1>0, <1>d, <1>2, StepGoes DEF WriteReport, A!CreateReport, A!FillReport
<1>3. CASE EndBeforeAccounting
  <2>1. started' = started /\ step'[Manager] = "wait" /\ pc = "wait" /\ stage = "none"
    BY <1>0, <1>3, StepGoes DEF EndBeforeAccounting, world, TypeOK
  <2>2. CASE StartCleanup
    BY <1>0, <2>1, <2>2 DEF StartCleanup, objects
  <2>3. CASE RegisterFinalizer
    BY <1>0, <1>01, <2>1, <2>3 DEF RegisterFinalizer, pass, BudgetStates
  <2>4. CASE UNCHANGED workloads
    BY <1>0, <2>1, <2>4 DEF workloads, objects, pass
  <2> QED
    BY <1>3, <2>2, <2>3, <2>4 DEF EndBeforeAccounting
<1>4. ASSUME NEW rate \in A!Samples, Account(rate) PROVE LifeInv' /\ LiveFromStart
  BY <1>b, <1>4 DEF Account, A!Account, A!world, Assess, objects
<1>5. ASSUME NEW found \in SUBSET Names, DetectAndPersist(found)
      PROVE  LifeInv' /\ LiveFromStart
  BY <1>0, <1>5 DEF DetectAndPersist, DetectIdle, objects
<1>6. CASE ActOnWorkloads
  <2>1. CASE SuspendAll
    BY <1>0, <1>6, <2>1 DEF ActOnWorkloads, SuspendAll, objects, ledger, world
  <2>2. CASE Annotate \/ ZeroReplicas \/ \E d \in Names : ScaleDownSkips(d) \/ ScaleDownStarts(d)
    BY <1>b, <1>6, <2>2
       DEF ActOnWorkloads, Annotate, ZeroReplicas, ScaleDownSkips, ScaleDownStarts,
           CallReturns, objects, ledger, world
  <2> QED
    BY <1>6, <2>1, <2>2 DEF ActOnWorkloads
<1>7. CASE PassStoredUnheard
  <2>1. /\ pc = "detect" /\ step'[Manager] = "wait" /\ ReturnToQueue /\ budget' = budget
    BY <1>0, <1>7, StepGoes DEF PassStoredUnheard, PassFails, objects, GovernorInv, JointInv,
                                ControlInv
  <2> QED
    BY <1>0, <2>1 DEF ReturnToQueue
<1>9. CASE FinishPass
  BY <1>0, <1>a, <1>9, StepGoes DEF FinishPass, PassEnds, A!Finish, objects
<1>10. CASE CleanUp
  <2>1. UNCHANGED <<started, step>> /\ step[Manager] = "wait"
    BY <1>10 DEF CleanUp, ledger, world
  <2>2. ASSUME NEW d \in Names, RestoreSkips(d) \/ RestoreStarts(d)
        PROVE  LifeInv' /\ LiveFromStart
    BY <1>b, <2>1, <2>2 DEF RestoreSkips, RestoreStarts, objects
  <2>3. CASE RestoreReplicas \/ RemoveAnnotations
    BY <1>b, <2>1, <2>3 DEF RestoreReplicas, RemoveAnnotations, CallReturns, objects
  <2>4. CASE FinalizerUpdateFails \/ \E d \in Names : RestoreFails(d)
    BY <1>a, <2>1, <2>4 DEF FinalizerUpdateFails, RestoreFails, objects
  <2>5. CASE RemoveFinalizer
    <3>1. budget'.state = "absent"
      BY <1>0, <1>01, <2>5 DEF RemoveFinalizer, BudgetStates
    <3> QED
      BY <2>1, <2>5, <3>1 DEF RemoveFinalizer, ReturnToQueue
  <2> QED
    BY <1>10, <2>2, <2>3, <2>4, <2>5 DEF CleanUp
<1>11. CASE PatchMisses \/ PatchFails
  <2>1. /\ pc \in Patching /\ UNCHANGED <<budget, started, step>>
        /\ IF stage = "cleanup" THEN ReturnToQueue ELSE CallReturns
    BY <1>11 DEF PatchMisses, PatchFails, PatchNotFound, PatchRejected, PatchAnswerLost,
                 CallFails, objects, ledger, world
  <2>2. stage = "cleanup" => step[Manager] = "wait"
    BY <1>0, <2>1 DEF GovernorInv, JointInv, ControlInv, Patching, TypeOK
  <2> QED
    BY <1>a, <1>b, <2>1, <2>2 DEF CallReturns, Patching
<1>12. CASE ReportFails
  BY <1>0, <1>d, <1>12, StepGoes 
     DEF ReportFails, A!CreateFails, A!FillFails, A!CreateAnswerLost, A!FillAnswerLost, A!world
<1>13. CASE PassGivesUp
  BY <1>0, <1>a, <1>13, StepGoes
     DEF PassGivesUp, PassFails, A!QueryFails, A!PersistFails, A!world, objects
<1>14. CASE ProcessDies
  <2>1. step'[Manager] = "wait" /\ started' = started
    BY <1>0, <1>14, StepGoes DEF ProcessDies, ledger, world, A!Crash, A!world
  <2>2. CASE pc = "wait"
    BY <1>0, <1>14, <2>1, <2>2 DEF ProcessDies, workloads, objects, pass
  <2>3. CASE pc # "wait"
    BY <1>0, <1>a, <1>14, <2>1, <2>3 DEF ProcessDies, Crash
  <2> QED
    BY <2>2, <2>3
<1>15. CASE UserActs
  <2>1. UNCHANGED <<pc, stage, step, started>>
    BY <1>15 DEF UserActs, BudgetDelete, BudgetCreate, UserDeletes, UserScale, control, pass,
                 ledger, world
  <2>2. CASE BudgetDelete
    BY <1>0, <1>01, <2>1, <2>2 DEF BudgetDelete, BudgetStates
  <2>3. ASSUME NEW exclusions \in ExclusionSpecs, BudgetCreate(exclusions), started = Never
        PROVE  LifeInv' /\ LiveFromStart
    BY <1>0, <1>01, <2>1, <2>3 DEF BudgetCreate
  <2>4. CASE UNCHANGED budget
    BY <2>1, <2>4
  <2> QED
    BY <1>15, <2>2, <2>3, <2>4 DEF UserActs, UserDeletes, UserScale, objects
<1>16. CASE Midnight
  BY <1>c, <1>16 DEF Midnight, A!Tick
<1>17. CASE UNCHANGED all
  BY <1>c, <1>17 DEF all, ledger, world
<1> QED
  BY <1>1, <1>2, <1>3, <1>4, <1>5, <1>6, <1>7, <1>9, <1>10, <1>11, <1>12, <1>13,
     <1>14, <1>15, <1>16, <1>17
     DEF GovernorNext, ManagerStep

-----------------------------------------------------------------------------
(***************************************************************************)
(* What a step may do to the ledger.                                       *)
(***************************************************************************)
Mine == copy[Manager]    \* the status in the memory of the pass
Begun == began[Manager]  \* the day it began

\* A pass reads the status: the first one, one within the month, one with a report
\* to write, and one that finds the report written.
Reads ==
    /\ pc = "wait" /\ pc' \in {"wait", "assess"}
    /\ step[Manager] = "wait" /\ Begun' = now /\ Mine'.last = status.last
    /\ UNCHANGED <<now, status, reports, started, torn>>
    /\ \/ /\ status.since = Never /\ step'[Manager] = "query"
          /\ Mine'.since = now /\ Mine'.acc = status.acc
       \/ /\ status.since # Never /\ step'[Manager] = "query"
          /\ Mine'.since = status.since /\ Mine'.acc = status.acc
       \/ /\ status.since # Never /\ step'[Manager] = "create"
          /\ B!Month(status.since) # B!Month(now)
          /\ Mine'.since = status.since /\ Mine'.acc = status.acc
       \/ /\ status.since # Never /\ step'[Manager] = "query"
          /\ B!Month(status.since) # B!Month(now)
          /\ reports[B!Month(now) - 1].state # "none"
          /\ Mine'.since = now /\ Mine'.acc = B!Zero

Creates ==
    /\ step[Manager] = "create" /\ step'[Manager] = "fill"
    /\ reports' = [reports EXCEPT ![B!Month(Begun) - 1].state = "empty"]
    /\ reports[B!Month(Begun) - 1].state = "none"
    /\ UNCHANGED <<pc, now, status, started, copy, began, torn>>

Fills ==
    /\ step[Manager] = "fill" /\ step'[Manager] = "query"
    /\ reports' = [reports EXCEPT ![B!Month(Begun) - 1] = [state |-> "full", total |-> Mine.acc]]
    /\ Mine'.acc = B!Zero /\ Mine'.since = Begun /\ Mine'.last = Mine.last
    /\ UNCHANGED <<pc, now, status, started, began, torn>>

GoesOn ==
    /\ step[Manager] \in {"create", "fill"} /\ step'[Manager] = "query"
    /\ torn' = (torn \/ BoundaryInFlight)
    /\ UNCHANGED <<pc, now, status, started, reports, copy, began>>

\* A report was created or filled and Reconcile did not learn of it.
GoesOnUnheard ==
    /\ step[Manager] \in {"create", "fill"} /\ step'[Manager] = "query"
    /\ \/ /\ reports[B!Month(Begun) - 1].state = "none"
          /\ reports' = [reports EXCEPT ![B!Month(Begun) - 1].state = "empty"]
       \/ reports' = [reports EXCEPT ![B!Month(Begun) - 1] =
                        [state |-> "full", total |-> Mine.acc]]
    /\ torn => torn'
    /\ B!Month(Begun) - 1 \in B!Months => torn'
    /\ UNCHANGED <<pc, now, status, started, copy, began>>

Accounts(rate) ==
    /\ pc = "assess" /\ pc' = "detect"
    /\ step[Manager] = "query" /\ step'[Manager] = "persist"
    /\ Mine'.since = Mine.since /\ Mine'.last = now
    /\ \A d \in B!Dims : Mine'.acc[d] = Mine.acc[d]
                           + rate[d] * (IF Mine.last = Never THEN 0 ELSE now - Mine.last)
    /\ UNCHANGED <<now, status, started, reports, began, torn>>

\* The status is stored, and the pass acts on it or does not learn of it.
Stores ==
    /\ pc = "detect" /\ pc' \in {"next", "wait"}
    /\ step[Manager] = "persist"
    /\ \/ step'[Manager] = "act" /\ UNCHANGED <<copy, began>>
       \/ step'[Manager] = "wait"
    /\ status' = Mine
    /\ started' = IF started = Never \/ Mine.last < started THEN Mine.last ELSE started
    /\ UNCHANGED <<now, reports, torn>>

\* The pass returns; a boundary in flight is lost, or nobody will account again.
Returns ==
    /\ step[Manager] # "wait" /\ step'[Manager] = "wait" /\ pc' \notin {"assess", "detect"}
    /\ torn => torn'
    /\ torn' \/ ~BoundaryInFlight \/ ~Live' \/ started = Never
    /\ UNCHANGED <<now, status, started, reports>>

Rests ==
    /\ pc' \in {"assess", "detect"} => pc' = pc
    /\ torn => torn'
    /\ UNCHANGED <<now, status, started, reports, step, copy, began>>

Ticks ==
    /\ now' = now + 1
    /\ UNCHANGED <<pc, status, started, reports, step, copy, began, torn>>

\* What Reconcile reads at its start, field by field.
LEMMA FetchEffect ==
    ASSUME GovernorInv, BeginPass
    PROVE  Reads
<1>0. /\ status \in B!Status /\ shown[Manager] = status /\ now \in B!Time
      /\ copy \in [{Manager} -> B!Status] /\ began \in [{Manager} -> B!Time]
      /\ step \in [{Manager} -> {"wait", "create", "fill", "query", "persist", "act"}]
  BY DEF GovernorInv, B!TypeInv, B!TypeOK, B!SoloInv
<1>1. B!Fetch(Manager, TRUE)
  BY SameFetch DEF BeginPass
<1>2. /\ pc = "wait" /\ pc' \in {"wait", "assess"}
      /\ step[Manager] = "wait" /\ Begun' = now
      /\ UNCHANGED <<now, status, reports, started, torn>>
  BY <1>0, <1>1 DEF BeginPass, StartPass, workloads, pass, B!Fetch, B!world, Begun
<1> DEFINE read == IF status.since = Never THEN [status EXCEPT !.since = now] ELSE status
           due == B!RolloverDue(read, now)
           reported == due /\ reports[B!Month(now) - 1].state # "none"
<1>3. /\ step'[Manager] = IF due /\ ~reported THEN "create" ELSE "query"
      /\ Mine' = IF reported THEN B!StartPeriod(read, now) ELSE read
  BY <1>0, <1>1 DEF B!Fetch, B!Goto, Mine
<1>4. /\ read \in B!Status /\ read.last = status.last /\ read.acc = status.acc
      /\ read.since = IF status.since = Never THEN now ELSE status.since
  BY <1>0 DEF B!Status
<1>5. due => B!Month(read.since) # B!Month(now)
  BY DEF B!RolloverDue
<1> HIDE DEF read, due
<1>6. LET s == B!StartPeriod(read, now)
      IN  s.last = read.last /\ s.acc = B!Zero /\ s.since = now
  BY <1>4 DEF B!StartPeriod, B!Status
<1>7. due => status.since # Never /\ B!Month(status.since) # B!Month(now)
  BY <1>4, <1>5
<1>8. CASE reported
  BY <1>2, <1>3, <1>4, <1>6, <1>7, <1>8 DEF Reads
<1>9. CASE ~reported
  BY <1>2, <1>3, <1>4, <1>7, <1>9 DEF Reads
<1> QED
  BY <1>8, <1>9

\* What steps 4 to 6 make of it.
LEMMA AccountEffect ==
    ASSUME GovernorInv, NEW rate \in B!Samples, Account(rate)
    PROVE  Accounts(rate)
<1> DEFINE after == B!Accumulate(Mine, rate, now)
           set == [after EXCEPT !.phase = B!determinePhase(after.acc)]
           new == B!WithConditions(set, now)
<1>0. /\ Mine \in B!Status /\ now \in B!Time /\ B!Past(Mine)
      /\ copy \in [{Manager} -> B!Status]
      /\ step \in [{Manager} -> {"wait", "create", "fill", "query", "persist", "act"}]
  BY DEF GovernorInv, B!TypeInv, B!TypeOK, B!NoFuture, Mine
<1>1. B!Account(Manager, rate)
  BY SameAccount DEF Account
<1>2. after \in B!Status /\ after.last = now
  BY <1>0, B!AccumulateType, AccountingAssumed DEF B!Past, B!Samples
<1>3. /\ after.since = Mine.since
      /\ \A d \in B!Dims : after.acc[d] = Mine.acc[d]
                             + rate[d] * (IF Mine.last = Never THEN 0 ELSE now - Mine.last)
  BY <1>0 DEF B!Accumulate, B!Status
<1>4. /\ copy' = [copy EXCEPT ![Manager] = new]
      /\ step[Manager] = "query" /\ step'[Manager] = "persist"
      /\ pc = "assess" /\ pc' = "detect"
      /\ UNCHANGED <<now, status, started, reports, began, torn>>
  BY <1>0, <1>1 DEF B!Account, B!Goto, B!world, Mine, Account, Assess
<1>5. Mine' = new
  BY <1>0, <1>4 DEF Mine
<1> HIDE DEF after
<1>6. set \in B!Status /\ set.since = after.since /\ set.last = after.last /\ set.acc = after.acc
  BY <1>2, B!PhaseType, AccountingAssumed DEF B!Status
<1> HIDE DEF set
<1>7. new.since = set.since /\ new.acc = set.acc /\ new.last = set.last
  BY <1>0, <1>6, B!ConditionsHonest, B!WithConditionsType, AccountingAssumed
<1> HIDE DEF new
<1> QED
  BY <1>2, <1>3, <1>4, <1>5, <1>6, <1>7 DEF Accounts

\* Every step is one of these.
LEMMA LedgerCases ==
    ASSUME GovernorInv, InSync, LifeInv, [GovernorNext]_all
    PROVE  \/ Reads \/ Creates \/ Fills \/ GoesOn \/ GoesOnUnheard
           \/ \E rate \in B!Samples : Accounts(rate)
           \/ Stores \/ Returns \/ Rests \/ Ticks
<1>0. /\ step \in [{Manager} -> {"wait", "create", "fill", "query", "persist", "act"}]
      /\ copy \in [{Manager} -> B!Status]
      /\ TypeOK /\ B!TypeInv
      /\ seen = budget /\ budget.state \in {"absent", "new", "active", "deleting"}
      /\ budget \in [state : BudgetStates, exclusions : ExclusionSpecs]
  BY NoLagAssumption DEF GovernorInv, B!TypeInv, B!TypeOK, InSync, TypeOK, BudgetStates
<1>a. ASSUME UNCHANGED <<ledger, torn>>, pc' \in {"assess", "detect"} => pc' = pc PROVE Rests
  BY <1>a DEF Rests, ledger, world
<1>1. CASE BeginPass
  BY <1>1, FetchEffect
<1>2. CASE WriteReport
  <2>1. CASE A!CreateReport(Manager)
    <3>1. B!CreateReport(Manager)
      BY <2>1, SameReport
    <3> QED
      BY <1>0, <1>2, <3>1
         DEF WriteReport, B!CreateReport, B!Goto, B!local, workloads, pass, Creates, Begun
  <2>2. CASE A!FillReport(Manager)
    <3>1. B!FillReport(Manager)
      BY <2>2, SameReport
    <3>2. Mine \in B!Status /\ Mine' = B!StartPeriod(Mine, Begun)
      BY <1>0, <3>1 DEF B!FillReport, Mine, Begun
    <3>3. Mine'.acc = B!Zero /\ Mine'.since = Begun /\ Mine'.last = Mine.last
      BY <3>2 DEF B!StartPeriod, B!Status
    <3> QED
      BY <1>0, <1>2, <3>1, <3>3
         DEF WriteReport, B!FillReport, B!Goto, workloads, pass, Fills, Begun, Mine
  <2> QED
    BY <1>2, <2>1, <2>2 DEF WriteReport
<1>3. CASE EndBeforeAccounting
  <2>1. /\ step[Manager] = "query" /\ step'[Manager] = "wait" /\ pc = "wait"
        /\ UNCHANGED <<now, status, started, reports, torn>> /\ stage = "none"
    BY <1>0, <1>3, StepGoes DEF EndBeforeAccounting, world, At, TypeOK
  <2>2. CASE StartCleanup
    BY <1>0, <2>1, <2>2 DEF StartCleanup, Returns, Live, objects
  <2>3. CASE RegisterFinalizer
    BY <1>0, <2>1, <2>3 DEF RegisterFinalizer, pass, Returns, LifeInv
  <2>4. CASE budget.state = "absent" /\ UNCHANGED workloads
    BY <1>0, <2>1, <2>4 DEF workloads, objects, pass, Returns, Live
  <2> QED
    BY <1>3, <2>2, <2>3, <2>4 DEF EndBeforeAccounting
<1>4. ASSUME NEW rate \in A!Samples, Account(rate) PROVE \E q \in B!Samples : Accounts(q)
  BY <1>4, AccountEffect, SameValues
<1>5. ASSUME NEW found \in SUBSET Names, DetectAndPersist(found) PROVE Stores
  <2>1. B!Persist(Manager)
    BY <1>5, SameEnd DEF DetectAndPersist
  <2> QED
    BY <1>0, <1>5, <2>1
       DEF DetectAndPersist, DetectIdle, B!Persist, B!Earliest, B!Goto, B!local, Stores, Mine
<1>6. CASE ActOnWorkloads
  BY <1>a, <1>6
     DEF ActOnWorkloads, ScaleDownSkips, ScaleDownStarts, Annotate, ZeroReplicas, CallReturns,
         SuspendAll
<1>7. CASE PassStoredUnheard
  <2>1. B!PersistAnswerLost(Manager)
    BY <1>7, SameEnd DEF PassStoredUnheard
  <2>2. /\ pc = "detect" /\ pc' = "wait" /\ step[Manager] = "persist"
        /\ step'[Manager] = "wait" /\ torn' = torn
    BY <1>0, <1>7, StepGoes
       DEF PassStoredUnheard, PassFails, ReturnToQueue, GovernorInv, JointInv, ControlInv, At
  <2> QED
    BY <2>1, <2>2 DEF B!PersistAnswerLost, B!Earliest, Stores, Mine
<1>8. CASE FinishPass
  <2>1. status = Mine /\ step[Manager] = "act"
    BY <1>0, <1>8, StepGoes DEF FinishPass, GovernorInv, B!SoloInv, Mine
  <2>2. ~BoundaryInFlight
    BY <2>1 DEF BoundaryInFlight, At, Mine
  <2> QED
    BY <1>0, <1>8, <2>1, <2>2, StepGoes
       DEF FinishPass, PassEnds, ReturnToQueue, A!Finish, Returns
<1>9. CASE CleanUp
  BY <1>a, <1>9
     DEF CleanUp, RestoreSkips, RestoreFails, RestoreStarts, RestoreReplicas, ReturnToQueue,
         RemoveAnnotations, CallReturns, RemoveFinalizer, FinalizerUpdateFails
<1>10. CASE PatchMisses \/ PatchFails
  BY <1>a, <1>10
     DEF PatchMisses, PatchFails, PatchNotFound, PatchRejected, PatchAnswerLost, CallFails,
         CallReturns, ReturnToQueue
<1>11. CASE ReportFails
  <2>1. CASE A!CreateFails(Manager) \/ A!FillFails(Manager)
    BY <1>0, <1>11, <2>1, StepGoes
       DEF ReportFails, GoesOn, A!CreateFails, A!FillFails, A!world, A!local, workloads, pass
  <2>2. CASE A!CreateAnswerLost(Manager)
    <3>1. B!CreateAnswerLost(Manager)
      BY <2>2, SameReport
    <3>2. /\ step[Manager] = "create" /\ step'[Manager] = "query"
          /\ reports[B!Month(Begun) - 1].state = "none"
          /\ reports' = [reports EXCEPT ![B!Month(Begun) - 1].state = "empty"]
          /\ UNCHANGED <<pc, now, status, started, copy, began>>
          /\ torn' = (torn \/ BoundaryInFlight \/ reports' # reports)
      BY <1>0, <1>11, <2>2, <3>1, StepGoes
         DEF ReportFails, B!CreateAnswerLost, B!local, workloads, pass, Begun
    <3>3. B!Month(Begun) - 1 \in B!Months => reports' # reports
      BY <3>2 DEF GovernorInv, B!TypeInv, B!TypeOK, B!Report
    <3> QED
      BY <3>2, <3>3 DEF GoesOnUnheard
  <2>3. CASE A!FillAnswerLost(Manager)
    <3>1. B!FillAnswerLost(Manager)
      BY <2>3, SameReport
    <3>2. /\ step[Manager] = "fill" /\ step'[Manager] = "query"
          /\ reports' = [reports EXCEPT ![B!Month(Begun) - 1] =
                           [state |-> "full", total |-> Mine.acc]]
          /\ UNCHANGED <<pc, now, status, started, copy, began>>
          /\ torn' = (torn \/ BoundaryInFlight \/ reports' # reports)
      BY <1>0, <1>11, <2>3, <3>1, StepGoes
         DEF ReportFails, B!FillAnswerLost, B!local, workloads, pass, Begun, Mine
    <3>3. BoundaryInFlight
      BY <3>2 DEF BoundaryInFlight, At
    <3> QED
      BY <3>2, <3>3 DEF GoesOnUnheard
  <2> QED
    BY <1>11, <2>1, <2>2, <2>3 DEF ReportFails
<1>12. CASE PassGivesUp
  BY <1>0, <1>12, StepGoes
     DEF PassGivesUp, PassFails, ReturnToQueue, Tear, Returns, A!QueryFails, A!PersistFails,
         A!world
<1>13. CASE ProcessDies
  <2>1. pc' = "wait" /\ torn' = (torn \/ BoundaryInFlight)
    BY <1>13 DEF ProcessDies, Crash, ReturnToQueue, workloads, pass, Tear
  <2>2. CASE At({"wait"})
    BY <1>13, <2>1, <2>2 DEF ProcessDies, ledger, world, Rests
  <2>3. CASE ~At({"wait"})
    BY <1>0, <1>13, <2>1, <2>3, StepGoes DEF ProcessDies, A!Crash, A!world, Returns, At
  <2> QED
    BY <2>2, <2>3
<1>14. CASE UserActs
  BY <1>a, <1>14
     DEF UserActs, BudgetDelete, BudgetCreate, UserDeletes, UserScale, control, pass
<1>15. CASE Midnight
  BY <1>15 DEF Midnight, A!Tick, A!local, workloads, pass, Ticks
<1>16. CASE UNCHANGED all
  BY <1>a, <1>16 DEF all, workloads, pass
<1> QED
  BY <1>1, <1>2, <1>3, <1>4, <1>5, <1>6, <1>7, <1>8, <1>9, <1>10, <1>11, <1>12, <1>13,
     <1>14, <1>15, <1>16
     DEF GovernorNext, ManagerStep

-----------------------------------------------------------------------------
(***************************************************************************)
(* Time stamps: what a pass has in memory belongs to the stored period or  *)
(* to one that it has just begun.                                          *)
(***************************************************************************)
StampInv ==
    /\ status.since = Never <=> started = Never
    /\ status.last = Never <=> started = Never
    /\ started = Never => /\ status.acc = B!Zero
                          /\ \A m \in B!Months : reports[m].state = "none"
    /\ status.since # Never => status.since <= now
    /\ ~At({"wait"}) => /\ Begun <= now /\ Mine.since # Never /\ Mine.since <= now
                        /\ status.since # Never => status.since <= Begun
    /\ At({"create", "fill"}) => /\ status.since # Never /\ Mine.since = status.since
                                 /\ B!Month(status.since) < B!Month(Begun)
                                 /\ Mine.acc = status.acc
    /\ At({"create", "fill", "query"}) => Mine.last = status.last
    /\ At({"query"}) => \/ Mine.since = status.since /\ Mine.acc = status.acc
                        \/ Mine.since = Begun /\ Mine.acc = B!Zero
    /\ At({"persist"}) => Mine.last # Never /\ Mine.since \in {status.since, Begun}

\* Well-typed parts.
LEMMA LedgerTypes ==
    ASSUME B!TypeInv
    PROVE  /\ now \in B!Time /\ status \in B!Status /\ Mine \in B!Status /\ Begun \in B!Time
           /\ reports \in [B!Months -> B!Report] /\ started \in B!Time \cup {Never}
           /\ Mine.since \in B!Time \cup {Never} /\ status.since \in B!Time \cup {Never}
           /\ Mine.last \in B!Time \cup {Never} /\ status.last \in B!Time \cup {Never}
           /\ step[Manager] \in {"wait", "create", "fill", "query", "persist", "act"}
           /\ Never \notin Int /\ \A t \in B!Time : t \in Nat
BY AccountingAssumed DEF B!TypeInv, B!TypeOK, B!Status, B!Time, Mine, Begun

\* StampInv is inductive.
LEMMA StampStep ==
    ASSUME GovernorInv, InSync, LifeInv, StampInv, [GovernorNext]_all
    PROVE  StampInv'
<1> USE DEF StampInv, At
<1>0. B!TypeInv
  BY DEF GovernorInv
<1>t. /\ now \in B!Time /\ Begun \in B!Time /\ started \in B!Time \cup {Never}
      /\ Mine.since \in B!Time \cup {Never} /\ status.since \in B!Time \cup {Never}
      /\ step[Manager] \in {"wait", "create", "fill", "query", "persist", "act"}
      /\ Never \notin Int /\ \A t \in B!Time : t \in Nat
  BY <1>0, LedgerTypes
<1>m. /\ \A t \in B!Time : B!Month(t) \in Nat
      /\ \A s, t \in B!Time : s <= t => B!Month(s) <= B!Month(t)
  BY B!MonthMonotone, AccountingAssumed
<1>1. CASE Reads
  BY <1>1, <1>t, <1>m DEF Reads
<1>2. CASE Creates
  <2>1. B!Months \subseteq Nat /\ status.since # Never /\ started # Never
    BY <1>2, MonthsFinite DEF Creates
  <2> QED
    BY <1>2, <2>1 DEF Creates, Mine, Begun
<1>3. CASE Fills
  BY <1>3, <1>t DEF Fills, Begun
<1>4. CASE GoesOn
  BY <1>4 DEF GoesOn, Mine, Begun
<1>u. CASE GoesOnUnheard
  <2>1. started # Never
    BY <1>u DEF GoesOnUnheard
  <2> QED
    BY <1>u, <2>1 DEF GoesOnUnheard, Mine, Begun
<1>5. ASSUME NEW rate \in B!Samples, Accounts(rate) PROVE StampInv'
  BY <1>5, <1>t DEF Accounts, Begun
<1>6. CASE Stores
  BY <1>6, <1>t DEF Stores, Mine, Begun
<1>7. CASE Returns
  BY <1>7 DEF Returns
<1>8. CASE Rests
  BY <1>8 DEF Rests, Mine, Begun
<1>9. CASE Ticks
  BY <1>9, <1>t DEF Ticks, Mine, Begun
<1> QED
  BY <1>1, <1>2, <1>3, <1>4, <1>u, <1>5, <1>6, <1>7, <1>8, <1>9, LedgerCases

-----------------------------------------------------------------------------
(***************************************************************************)
(* Reports: as long as no boundary was torn, the months with a report are  *)
(* those before the stored period, and the one the pass in hand is closing.*)
(***************************************************************************)

\* The pass in hand has begun a period that is not stored yet.
NewPeriod ==
    At({"query", "persist"}) /\ status.since # Never /\ Mine.since # status.since

\* The month it is closing.
InFlight(m) == m = B!Month(Begun) - 1 /\ (At({"fill"}) \/ NewPeriod)

Full(m) == m \in B!Months /\ reports[m].state = "full"

Orderly ==
    /\ \A m \in B!Months : reports[m].state # "none"
          => m \in Before(status.since) \/ InFlight(m)
    /\ \A m \in Before(status.since) : Full(m) => Full(B!Month(status.since) - 1)
    /\ NewPeriod => Full(B!Month(Begun) - 1)

OpenInv ==
    /\ \A m \in B!Months : reports[m].state # "full" => reports[m].total = B!Zero
    /\ torn \/ ~Live \/ Orderly

\* The month that a pass with a report to write is closing.
LEMMA ClosingMonth ==
    ASSUME GovernorInv, StampInv, At({"create", "fill"})
    PROVE  /\ B!Month(Begun) - 1 \in B!Months
           /\ B!Month(Begun) - 1 \notin Before(status.since)
           /\ B!Month(status.since) - 1 # B!Month(Begun) - 1
           /\ B!Month(status.since) < B!Month(Begun)
           /\ B!Month(status.since) \in Nat /\ B!Month(Begun) \in Nat
<1>1. /\ status.since \in B!Time /\ Begun \in B!Time /\ status.since <= Begun
      /\ B!Month(status.since) < B!Month(Begun)
  BY LedgerTypes DEF GovernorInv, StampInv, At
<1>2. B!Month(status.since) \in Nat /\ B!Month(Begun) \in Nat
  BY <1>1, B!MonthMonotone, AccountingAssumed
<1>3. B!Month(Begun) - 1 \in B!Months
  BY <1>1, <1>2, B!MonthBefore, AccountingAssumed
<1> QED
  BY <1>1, <1>2, <1>3, MonthsFinite DEF Before

\* As long as that is so, a pass does not find the report of a month that it would
\* have to close.
LEMMA NoReportAhead ==
    ASSUME GovernorInv, StampInv, Orderly, Reads
    PROVE  ~NewPeriod'
<1> SUFFICES ASSUME NewPeriod' PROVE FALSE
  OBVIOUS
<1>0. /\ now \in B!Time /\ status.since \in B!Time \cup {Never}
      /\ Never \notin Int /\ \A t \in B!Time : t \in Nat
  BY LedgerTypes DEF GovernorInv
<1>1. /\ status.since # Never /\ B!Month(status.since) # B!Month(now)
      /\ reports[B!Month(now) - 1].state # "none"
      /\ step[Manager] = "wait"
  BY DEF Reads, NewPeriod, At
<1>2. status.since \in B!Time /\ status.since <= now
  BY <1>0, <1>1 DEF StampInv
<1>3. B!Month(now) - 1 \in B!Months
  BY <1>0, <1>1, <1>2, B!MonthBefore, AccountingAssumed
<1>4. B!Month(now) - 1 < B!Month(status.since)
  BY <1>1, <1>3 DEF Orderly, Before, InFlight, NewPeriod, At
<1>5. /\ B!Month(status.since) \in Nat /\ B!Month(now) \in Nat
      /\ B!Month(status.since) <= B!Month(now)
  BY <1>0, <1>2, B!MonthMonotone, AccountingAssumed
<1> QED
  BY <1>1, <1>4, <1>5

\* OpenInv is inductive.
LEMMA OpenStep ==
    ASSUME GovernorInv, InSync, LifeInv, StampInv, OpenInv, [GovernorNext]_all
    PROVE  OpenInv'
<1> USE DEF At
<1>0. /\ B!TypeInv /\ reports \in [B!Months -> B!Report]
      /\ now \in B!Time /\ Begun \in B!Time
      /\ Mine.since \in B!Time \cup {Never} /\ status.since \in B!Time \cup {Never}
      /\ step[Manager] \in {"wait", "create", "fill", "query", "persist", "act"}
      /\ Never \notin Int /\ \A t \in B!Time : t \in Nat
  BY LedgerTypes DEF GovernorInv
<1>m. /\ \A t \in B!Time : B!Month(t) \in Nat
      /\ \A s, t \in B!Time : s <= t => B!Month(s) <= B!Month(t)
      /\ B!Months \subseteq Nat
  BY B!MonthMonotone, AccountingAssumed, MonthsFinite
<1>l. Live' => Live \/ started = Never
  BY LifeStep DEF LiveFromStart
\* A budget without a past has no reports.
<1>n. ASSUME started = Never, UNCHANGED <<status, reports>> PROVE OpenInv'
  <2>1. status.since = Never /\ \A m \in B!Months : reports[m].state = "none"
    BY <1>n DEF StampInv
  <2> QED
    BY <1>n, <2>1 DEF OpenInv, Orderly, Before, NewPeriod, InFlight, Full
\* From here on what OpenInv says of a live budget may be used.
<1>o. ASSUME ~torn, Live'
      PROVE  /\ started # Never => Live
             /\ started # Never
                  => /\ \A m \in B!Months : reports[m].state # "none"
                           => m \in Before(status.since) \/ InFlight(m)
                     /\ \A m \in Before(status.since) :
                           Full(m) => Full(B!Month(status.since) - 1)
                     /\ NewPeriod => Full(B!Month(Begun) - 1)
  <2>1. started # Never => Live
    BY <1>l, <1>o
  <2>2. Live => Orderly
    BY <1>o DEF OpenInv
  <2> QED
    BY <2>1, <2>2 DEF Orderly
<1>z. \A m \in B!Months : reports[m].state # "full" => reports[m].total = B!Zero
  BY DEF OpenInv
<1>1. CASE Reads
  <2>1. UNCHANGED <<status, reports, torn, now>> /\ step[Manager] = "wait"
    BY <1>1 DEF Reads
  <2>2. CASE started = Never
    BY <1>n, <2>1, <2>2
  <2>3. SUFFICES ASSUME ~torn, Live', started # Never
        PROVE  /\ \A m \in B!Months : reports[m].state # "none" => m \in Before(status.since)
               /\ \A m \in Before(status.since) : Full(m) => Full(B!Month(status.since) - 1)
               /\ ~NewPeriod'
    BY <1>z, <2>1, <2>2 DEF OpenInv, Orderly, Before, Full
  <2>4. /\ \A m \in B!Months : reports[m].state # "none" => m \in Before(status.since)
        /\ \A m \in Before(status.since) : Full(m) => Full(B!Month(status.since) - 1)
    BY <1>o, <2>1, <2>3 DEF InFlight, NewPeriod
  <2>5. Live => Orderly
    BY <2>3 DEF OpenInv
  <2>6. ~NewPeriod'
    BY <1>1, <1>o, <2>3, <2>5, NoReportAhead
  <2> QED
    BY <2>4, <2>6
<1>2. CASE Creates
  <2>1. /\ UNCHANGED <<status, torn, began>> /\ step[Manager] = "create"
        /\ step'[Manager] = "fill" /\ Begun' = Begun
        /\ reports' = [reports EXCEPT ![B!Month(Begun) - 1].state = "empty"]
        /\ reports[B!Month(Begun) - 1].state = "none"
    BY <1>2 DEF Creates, Begun
  <2>2. /\ B!Month(Begun) - 1 \in B!Months
        /\ B!Month(Begun) - 1 \notin Before(status.since)
        /\ B!Month(status.since) - 1 # B!Month(Begun) - 1
    BY <2>1, ClosingMonth
  <2>3. /\ reports'[B!Month(Begun) - 1].state = "empty"
        /\ reports'[B!Month(Begun) - 1].total = reports[B!Month(Begun) - 1].total
        /\ \A m \in B!Months \ {B!Month(Begun) - 1} : reports'[m] = reports[m]
    BY <1>0, <2>1, <2>2 DEF B!Report
  <2>4. \A m \in B!Months : reports'[m].state # "full" => reports'[m].total = B!Zero
    BY <1>z, <2>1, <2>3
  <2>5. started # Never
    BY <2>1 DEF StampInv
  <2>6. SUFFICES ASSUME ~torn, Live'
        PROVE  /\ \A m \in B!Months : reports'[m].state # "none"
                     => m \in Before(status.since) \/ m = B!Month(Begun) - 1
               /\ \A m \in Before(status.since) : Full(m)' => Full(B!Month(status.since) - 1)'
    BY <2>1, <2>4 DEF OpenInv, Orderly, Before, InFlight, NewPeriod, Full
  <2>7. \A m \in B!Months : reports[m].state # "none" => m \in Before(status.since)
    BY <1>o, <2>1, <2>5, <2>6 DEF InFlight, NewPeriod
  <2>8. \A m \in Before(status.since) : Full(m)' => Full(B!Month(status.since) - 1)'
    <3>1. \A m \in Before(status.since) : Full(m)' => Full(m)
      BY <2>2, <2>3 DEF Full, Before
    <3>2. Full(B!Month(status.since) - 1) => Full(B!Month(status.since) - 1)'
      BY <2>1, <2>2, <2>3 DEF Full
    <3> QED
      BY <1>o, <2>5, <2>6, <3>1, <3>2
  <2> QED
    BY <2>3, <2>7, <2>8
<1>3. CASE Fills
  <2>1. /\ UNCHANGED <<status, torn, began>> /\ step[Manager] = "fill"
        /\ step'[Manager] = "query" /\ Begun' = Begun
        /\ reports' = [reports EXCEPT ![B!Month(Begun) - 1] =
                         [state |-> "full", total |-> Mine.acc]]
        /\ Mine'.since = Begun
    BY <1>3 DEF Fills, Begun
  <2>2. /\ B!Month(Begun) - 1 \in B!Months
        /\ B!Month(Begun) - 1 \notin Before(status.since)
        /\ B!Month(status.since) - 1 # B!Month(Begun) - 1
        /\ B!Month(status.since) < B!Month(Begun)
        /\ B!Month(status.since) \in Nat /\ B!Month(Begun) \in Nat
    BY <2>1, ClosingMonth
  <2>3. /\ reports'[B!Month(Begun) - 1].state = "full"
        /\ \A m \in B!Months \ {B!Month(Begun) - 1} : reports'[m] = reports[m]
    BY <1>0, <2>1, <2>2
  <2>4. \A m \in B!Months : reports'[m].state # "full" => reports'[m].total = B!Zero
    BY <1>z, <2>1, <2>3
  <2>5. started # Never /\ status.since # Never /\ NewPeriod'
    BY <2>1, <2>2 DEF StampInv, NewPeriod
  <2>6. SUFFICES ASSUME ~torn, Live'
        PROVE  /\ \A m \in B!Months : reports'[m].state # "none"
                     => m \in Before(status.since) \/ m = B!Month(Begun) - 1
               /\ \A m \in Before(status.since) : Full(m)' => Full(B!Month(status.since) - 1)'
               /\ Full(B!Month(Begun) - 1)'
    BY <2>1, <2>4, <2>5 DEF OpenInv, Orderly, Before, InFlight, Full
  <2>7. \A m \in B!Months : reports[m].state # "none"
              => m \in Before(status.since) \/ m = B!Month(Begun) - 1
    BY <1>o, <2>1, <2>5, <2>6 DEF InFlight
  <2>8. \A m \in Before(status.since) : Full(m)' => Full(B!Month(status.since) - 1)'
    <3>1. \A m \in Before(status.since) : Full(m)' => Full(m)
      BY <2>2, <2>3 DEF Full, Before
    <3>2. Full(B!Month(status.since) - 1) => Full(B!Month(status.since) - 1)'
      BY <2>1, <2>2, <2>3 DEF Full
    <3> QED
      BY <1>o, <2>5, <2>6, <3>1, <3>2
  <2>9. Full(B!Month(Begun) - 1)'
    BY <2>1, <2>2, <2>3 DEF Full
  <2> QED
    BY <2>3, <2>7, <2>8, <2>9
<1>4. CASE GoesOn
  <2>1. /\ UNCHANGED <<status, reports, copy, began>> /\ Mine' = Mine /\ Begun' = Begun
        /\ step[Manager] \in {"create", "fill"} /\ step'[Manager] = "query"
        /\ torn' = (torn \/ BoundaryInFlight)
    BY <1>4 DEF GoesOn, Mine, Begun
  <2>2. Mine.since = status.since /\ started # Never /\ ~NewPeriod'
    BY <2>1 DEF StampInv, NewPeriod
  <2>3. step[Manager] = "fill" => torn'
    BY <2>1 DEF BoundaryInFlight
  <2>4. SUFFICES ASSUME ~torn, Live', step[Manager] = "create"
        PROVE  /\ \A m \in B!Months : reports[m].state # "none" => m \in Before(status.since)
               /\ \A m \in Before(status.since) : Full(m) => Full(B!Month(status.since) - 1)
    BY <1>z, <2>1, <2>2, <2>3 DEF OpenInv, Orderly, Before, Full
  <2> QED
    BY <1>o, <2>2, <2>4 DEF InFlight, NewPeriod
<1>u. CASE GoesOnUnheard
  <2>1. torn' /\ B!Month(Begun) - 1 \in B!Months
    BY <1>u, ClosingMonth DEF GoesOnUnheard
  <2>2. \A m \in B!Months \ {B!Month(Begun) - 1} : reports'[m] = reports[m]
    BY <1>0, <1>u DEF GoesOnUnheard
  <2>3. \/ reports'[B!Month(Begun) - 1].state = "full"
        \/ /\ reports[B!Month(Begun) - 1].state = "none"
           /\ reports'[B!Month(Begun) - 1].total = reports[B!Month(Begun) - 1].total
    BY <1>0, <1>u, <2>1 DEF GoesOnUnheard, B!Report
  <2>4. \A m \in B!Months : reports'[m].state # "full" => reports'[m].total = B!Zero
    BY <1>z, <2>1, <2>2, <2>3
  <2> QED
    BY <2>1, <2>4 DEF OpenInv
<1>5. ASSUME NEW rate \in B!Samples, Accounts(rate) PROVE OpenInv'
  <2>1. /\ UNCHANGED <<status, reports, torn>> /\ Begun' = Begun /\ Mine'.since = Mine.since
        /\ step[Manager] = "query" /\ step'[Manager] = "persist"
    BY <1>5 DEF Accounts, Begun
  <2>2. CASE started = Never
    BY <1>n, <2>1, <2>2
  <2>3. SUFFICES ASSUME ~torn, Live', started # Never
        PROVE  /\ \A m \in B!Months : reports[m].state # "none"
                     => m \in Before(status.since) \/ InFlight(m)'
               /\ \A m \in Before(status.since) : Full(m) => Full(B!Month(status.since) - 1)
               /\ NewPeriod' => Full(B!Month(Begun) - 1)
    BY <1>z, <2>1, <2>2 DEF OpenInv, Orderly, Before, Full
  <2>4. (NewPeriod <=> NewPeriod') /\ \A m : InFlight(m) <=> InFlight(m)'
    BY <2>1 DEF InFlight, NewPeriod
  <2> QED
    BY <1>o, <2>3, <2>4
<1>6. CASE Stores
  <2>1. /\ UNCHANGED <<reports, torn>> /\ status' = Mine
        /\ step[Manager] = "persist" /\ step'[Manager] \in {"act", "wait"}
        /\ Mine.since # Never /\ Mine.since \in {status.since, Begun}
        /\ pc = "detect"
    BY <1>6 DEF Stores, StampInv
  <2>2. SUFFICES ASSUME ~torn, Live'
        PROVE  /\ \A m \in B!Months : reports[m].state # "none" => m \in Before(Mine.since)
               /\ \A m \in Before(Mine.since) : Full(m) => Full(B!Month(Mine.since) - 1)
    BY <1>z, <2>1 DEF OpenInv, Orderly, Before, InFlight, NewPeriod, Full
  <2>3. CASE started = Never
    BY <2>3 DEF StampInv, Full
  <2>4. CASE started # Never /\ Mine.since = status.since
    BY <1>o, <2>1, <2>2, <2>4 DEF InFlight, NewPeriod
  <2>5. CASE started # Never /\ Mine.since # status.since
    <3>1. /\ NewPeriod /\ Mine.since = Begun /\ status.since \in B!Time
          /\ status.since <= Begun
      BY <1>0, <2>1, <2>5 DEF StampInv, NewPeriod
    <3>2. Full(B!Month(Begun) - 1)
      BY <1>o, <2>2, <2>5, <3>1
    <3>3. /\ B!Month(status.since) \in Nat /\ B!Month(Begun) \in Nat
          /\ B!Month(status.since) <= B!Month(Begun)
      BY <1>0, <1>m, <3>1
    <3>4. \A m \in B!Months : reports[m].state # "none" => m < B!Month(Begun)
      BY <1>m, <1>o, <2>2, <2>5, <3>3 DEF Before, InFlight
    <3> QED
      BY <2>1, <3>1, <3>2, <3>4 DEF Before
  <2> QED
    BY <2>3, <2>4, <2>5
<1>7. CASE Returns
  <2>1. /\ UNCHANGED <<status, reports>> /\ step[Manager] # "wait" /\ step'[Manager] = "wait"
        /\ torn => torn'
        /\ torn' \/ ~BoundaryInFlight \/ ~Live' \/ started = Never
    BY <1>7 DEF Returns
  <2>2. CASE started = Never
    BY <1>n, <2>1, <2>2
  <2>3. SUFFICES ASSUME ~torn, Live', started # Never, ~BoundaryInFlight
        PROVE  /\ \A m \in B!Months : reports[m].state # "none" => m \in Before(status.since)
               /\ \A m \in Before(status.since) : Full(m) => Full(B!Month(status.since) - 1)
    BY <1>z, <2>1, <2>2 DEF OpenInv, Orderly, Before, Full, NewPeriod
  <2>4. \A m : ~InFlight(m)
    BY <2>3 DEF InFlight, NewPeriod, BoundaryInFlight, Mine
  <2> QED
    BY <1>o, <2>3, <2>4
<1>8. CASE Rests \/ Ticks
  <2>1. /\ UNCHANGED <<status, reports, step, copy, began>> /\ Mine' = Mine /\ Begun' = Begun
        /\ torn => torn'
    BY <1>8 DEF Rests, Ticks, Mine, Begun
  <2>2. CASE started = Never
    BY <1>n, <2>1, <2>2
  <2>3. SUFFICES ASSUME ~torn, Live', started # Never
        PROVE  /\ \A m \in B!Months : reports[m].state # "none"
                     => m \in Before(status.since) \/ InFlight(m)
               /\ \A m \in Before(status.since) : Full(m) => Full(B!Month(status.since) - 1)
               /\ NewPeriod => Full(B!Month(Begun) - 1)
    BY <1>z, <2>1, <2>2 DEF OpenInv, Orderly, Before, Full, NewPeriod, InFlight
  <2> QED
    BY <1>o, <2>3
<1> QED
  BY <1>1, <1>2, <1>3, <1>4, <1>u, <1>5, <1>6, <1>7, <1>8, LedgerCases

-----------------------------------------------------------------------------
(***************************************************************************)
(* The ledger adds up: at one unit a day, every day since the first pass   *)
(* is in the running total or in the report of a month before its period.  *)
(* It does so for the stored status and, from the start of a pass on, for  *)
(* the status that the pass is going to store.                             *)
(***************************************************************************)

\* The first day, if s is stored.
First(s) == IF started = Never THEN s.last ELSE started

Adds(s) ==
    s.last # Never => \A d \in B!Dims :
        s.acc[d] + Billed(reports, d, Before(s.since)) = s.last - First(s)

SumInv == torn \/ (Adds(status) /\ (pc \in {"assess", "detect"} => Adds(Mine)))

\* A status with the same figures adds up, too.
LEMMA AddsAgain ==
    ASSUME NEW s, NEW t, Adds(s), UNCHANGED started,
           t.last = s.last, t.acc = s.acc, t.since = s.since,
           \A d \in B!Dims :
              Billed(reports', d, Before(s.since)) = Billed(reports, d, Before(s.since))
    PROVE  Adds(t)'
BY DEF Adds, First, Before

\* A unit of every dimension is used on every day.
LEMMA OneADay ==
    ASSUME Rates \subseteq {1}, NEW rate \in B!Samples
    PROVE  \A d \in B!Dims : rate[d] = 1
BY DEF B!Samples

\* SumInv is inductive.
LEMMA SumStep ==
    ASSUME Rates \subseteq {1}, GovernorInv, InSync, LifeInv, StampInv, OpenInv, SumInv,
           [GovernorNext]_all
    PROVE  SumInv'
<1>0. /\ B!TypeInv /\ reports \in [B!Months -> B!Report]
      /\ now \in B!Time /\ Begun \in B!Time /\ status \in B!Status /\ Mine \in B!Status
      /\ started \in B!Time \cup {Never}
      /\ Mine.since \in B!Time \cup {Never} /\ status.since \in B!Time \cup {Never}
      /\ Mine.last \in B!Time \cup {Never} /\ status.last \in B!Time \cup {Never}
      /\ Never \notin Int /\ \A t \in B!Time : t \in Nat
  BY LedgerTypes DEF GovernorInv
<1>d. /\ \A t : Before(t) \in SUBSET B!Months
      /\ \A d \in B!Dims : B!Zero[d] = 0
      /\ \A d \in B!Dims : Mine.acc[d] \in Nat /\ status.acc[d] \in Nat
      /\ \A t : \A d \in B!Dims : Billed(reports, d, Before(t)) \in Nat
  <2>1. \A t : Before(t) \in SUBSET B!Months
    BY DEF Before
  <2>2. \A t : \A d \in B!Dims : Billed(reports, d, Before(t)) \in Nat
    BY <1>0, <2>1, BilledFacts
  <2> QED
    BY <1>0, <2>1, <2>2 DEF B!Status, B!Usage, B!Zero
<1>s. ASSUME ~torn PROVE Adds(status) /\ (pc \in {"assess", "detect"} => Adds(Mine))
  BY <1>s DEF SumInv
\* Neither the status nor a report changes.
<1>a. ASSUME ~torn, UNCHANGED <<status, reports, started>> PROVE Adds(status)'
  BY <1>a, <1>s, AddsAgain
<1>1. CASE Reads
  <2>1. SUFFICES ASSUME ~torn, pc' = "assess" PROVE Adds(Mine)'
    BY <1>1, <1>a DEF Reads, SumInv
  <2>2. CASE status.since = Never
    BY <1>1, <2>2 DEF Reads, StampInv, Adds
  <2>3. CASE status.since # Never
    <3>1. Live
      BY <2>1, <2>3, LifeStep DEF LiveFromStart, Live, StampInv
    <3>2. ~NewPeriod'
      BY <1>1, <2>1, <3>1, NoReportAhead DEF OpenInv
    <3>3. UNCHANGED <<reports, started, status>> /\ Mine'.last = status.last
      BY <1>1 DEF Reads
    <3>4. Mine'.since = status.since /\ Mine'.acc = status.acc
      BY <1>1, <2>3, <3>2, <3>3 DEF Reads, NewPeriod, At
    <3> QED
      BY <1>s, <2>1, <3>3, <3>4, AddsAgain
  <2> QED
    BY <2>2, <2>3
<1>2. CASE Creates
  <2>1. /\ UNCHANGED <<status, started, torn, pc>> /\ Mine' = Mine
        /\ reports' = [reports EXCEPT ![B!Month(Begun) - 1].state = "empty"]
    BY <1>2 DEF Creates, Mine
  <2>2. \A m \in B!Months : reports'[m].total = reports[m].total
    BY <1>0, <2>1 DEF B!Report
  <2>3. \A t : \A d \in B!Dims :
           Billed(reports', d, Before(t)) = Billed(reports, d, Before(t))
    BY <1>0, <1>d, <2>2, BilledFacts
  <2> QED
    BY <1>s, <2>1, <2>3, AddsAgain DEF SumInv
<1>3. CASE Fills
  <2> DEFINE closing == B!Month(Begun) - 1
  <2>1. /\ UNCHANGED <<status, started, torn, pc>> /\ step[Manager] = "fill"
        /\ reports' = [reports EXCEPT ![closing] = [state |-> "full", total |-> Mine.acc]]
        /\ Mine'.acc = B!Zero /\ Mine'.since = Begun /\ Mine'.last = Mine.last
    BY <1>3 DEF Fills, Begun
  <2>2. /\ closing \in B!Months /\ closing \notin Before(status.since)
        /\ B!Month(status.since) < B!Month(Begun)
        /\ B!Month(status.since) \in Nat /\ B!Month(Begun) \in Nat
    BY <2>1, ClosingMonth DEF At
  <2>3. /\ reports'[closing].total = Mine.acc
        /\ \A m \in B!Months \ {closing} : reports'[m] = reports[m]
    BY <1>0, <2>1, <2>2
  <2>4. /\ status.since # Never /\ started # Never /\ Mine.last = status.last
        /\ Mine.acc = status.acc /\ status.last # Never
    BY <2>1 DEF StampInv, At
  <2>5. closing < B!Month(Begun) /\ B!Months \subseteq Nat /\ Begun # Never
    BY <1>0, <2>2, MonthsFinite
  <2>6. reports' \in [B!Months -> B!Report]
    BY HalvesStep, LedgerTypes DEF GovernorInv, B!TypeInv, B!TypeOK
  <2> HIDE DEF closing
  <2>7. \A d \in B!Dims : Billed(reports', d, Before(status.since))
                            = Billed(reports, d, Before(status.since))
    BY <1>0, <1>d, <2>2, <2>3, BilledFacts
  <2>8. ASSUME ~torn PROVE Adds(status)'
    BY <1>s, <2>1, <2>7, <2>8, AddsAgain
  <2>9. ASSUME ~torn, pc \in {"assess", "detect"} PROVE Adds(Mine)'
    <3>1. Orderly
      BY <2>9 DEF OpenInv, Live
    <3>2. /\ closing \in Before(Begun)
          /\ Before(status.since) \subseteq Before(Begun) \ {closing}
      <4>1. closing \in Before(Begun)
        BY <2>2, <2>5 DEF Before
      <4>2. ASSUME NEW m \in Before(status.since) PROVE m \in Before(Begun) /\ m # closing
        BY <2>2, <2>5, <4>2 DEF Before
      <4> QED
        BY <4>1, <4>2
    <3>3. \A m \in (Before(Begun) \ {closing}) \ Before(status.since) :
             m \in B!Months /\ reports[m].state = "none"
      BY <3>1 DEF Orderly, InFlight, Before, closing
    <3>4. \A m \in (Before(Begun) \ {closing}) \ Before(status.since) :
             reports'[m].total = B!Zero
      BY <2>3, <3>3 DEF OpenInv
    <3>5. ASSUME NEW d \in B!Dims
          PROVE  Billed(reports', d, Before(Begun))
                   = status.acc[d] + Billed(reports, d, Before(status.since))
      <4>1. Billed(reports', d, Before(Begun))
              = reports'[closing].total[d] + Billed(reports', d, Before(Begun) \ {closing})
        <5>1. Before(Begun) \in SUBSET B!Months /\ closing \in Before(Begun)
          BY <1>d, <3>2
        <5>2. PICK q, T, n : q = reports' /\ T = Before(Begun) /\ n = closing
          OBVIOUS
        <5>3. q \in [B!Months -> B!Report] /\ T \in SUBSET B!Months /\ n \in T
          BY <2>6, <5>1, <5>2
        <5>4. Billed(q, d, T) = q[n].total[d] + Billed(q, d, T \ {n})
          BY <5>3, BilledTakes
        <5> QED
          BY <5>2, <5>4
      <4>2. Before(Begun) \ {closing} \in SUBSET B!Months
        BY <1>d
      <4>3. Billed(reports', d, Before(Begun) \ {closing})
              = Billed(reports', d, Before(status.since))
        BY <1>d, <2>6, <3>2, <3>4, <4>2, BilledFacts
      <4> QED
        BY <2>3, <2>4, <2>7, <4>1, <4>3
    <3>6. \A d \in B!Dims : status.acc[d] + Billed(reports, d, Before(status.since))
                              = status.last - started
      BY <1>s, <2>4, <2>9 DEF Adds, First
    <3>7. ASSUME NEW d \in B!Dims
          PROVE  Mine'.acc[d] + Billed(reports', d, Before(Begun)) = status.last - started
      <4>1. status.last - started \in Int
        BY <1>0, <2>4
      <4>2. Billed(reports', d, Before(Begun)) = status.last - started
        BY <3>5, <3>6
      <4>3. Mine'.acc[d] = 0
        BY <1>d, <2>1
      <4> QED
        BY <4>1, <4>2, <4>3
    <3> QED
      BY <2>1, <2>4, <3>7 DEF Adds, First, Before
  <2> QED
    BY <2>1, <2>8, <2>9 DEF SumInv
<1>4. CASE GoesOn
  BY <1>4, <1>s, AddsAgain DEF GoesOn, SumInv, Mine
<1>u. CASE GoesOnUnheard
  BY <1>u, ClosingMonth DEF GoesOnUnheard, SumInv, At
<1>5. ASSUME NEW rate \in B!Samples, Accounts(rate) PROVE SumInv'
  <2>1. /\ UNCHANGED <<status, reports, started, torn>> /\ pc = "assess"
        /\ step[Manager] = "query"
        /\ Mine'.since = Mine.since /\ Mine'.last = now
        /\ Mine.last = status.last
    BY <1>5 DEF Accounts, StampInv, At
  <2>2. SUFFICES ASSUME ~torn PROVE Adds(Mine)'
    BY <1>a, <2>1 DEF SumInv
  <2>3. SUFFICES ASSUME NEW d \in B!Dims
        PROVE  Mine'.acc[d] + Billed(reports, d, Before(Mine.since))
                 = now - (IF started = Never THEN now ELSE started)
    BY <2>1 DEF Adds, First, Before
  <2>4. Mine'.acc[d] = Mine.acc[d] + (IF Mine.last = Never THEN 0 ELSE now - Mine.last)
    <3>1. rate[d] = 1
      BY OneADay
    <3>2. Mine'.acc[d] = Mine.acc[d]
                           + rate[d] * (IF Mine.last = Never THEN 0 ELSE now - Mine.last)
      BY <1>5 DEF Accounts
    <3>3. (IF Mine.last = Never THEN 0 ELSE now - Mine.last) \in Int
      BY <1>0
    <3> QED
      BY <3>1, <3>2, <3>3
  <2>5. CASE started = Never
    <3>1. Mine.last = Never /\ Mine.acc = B!Zero /\ status.since = Never
      BY <2>1, <2>5 DEF StampInv, At
    <3>2. \A m \in Before(Mine.since) : reports[m].total[d] = 0
      BY <1>d, <2>5 DEF StampInv, OpenInv
    <3>3. Billed(reports, d, Before(Mine.since)) = Billed(reports, d, {})
      BY <1>0, <1>d, <3>2, BilledFacts
    <3>4. Billed(reports, d, {}) = 0
      BY BilledNothing
    <3> QED
      BY <1>0, <1>d, <2>4, <2>5, <3>1, <3>3, <3>4
  <2>6. CASE started # Never
    <3>1. Mine.last # Never
      BY <2>1, <2>6 DEF StampInv
    <3>2. Mine.acc[d] + Billed(reports, d, Before(Mine.since)) = Mine.last - started
      BY <1>s, <2>1, <2>2, <2>6, <3>1 DEF Adds, First
    <3> QED
      BY <1>0, <1>d, <2>4, <2>6, <3>1, <3>2
  <2> QED
    BY <2>5, <2>6
<1>6. CASE Stores
  <2>1. /\ UNCHANGED <<reports, torn>> /\ status' = Mine /\ pc = "detect" /\ pc' \in {"next", "wait"}
        /\ started' = IF started = Never \/ Mine.last < started THEN Mine.last ELSE started
        /\ Mine.last # Never
    BY <1>6 DEF Stores, StampInv, At
  <2>2. SUFFICES ASSUME ~torn PROVE Adds(status)'
    BY <2>1 DEF SumInv
  <2>3. \A d \in B!Dims : Mine.acc[d] + Billed(reports, d, Before(Mine.since))
                            = Mine.last - First(Mine)
    BY <1>s, <2>1, <2>2 DEF Adds
  <2>4. started # Never => started <= Mine.last
    <3>1. "cpu" \in B!Dims
      BY DEF B!Dims
    <3> QED
      BY <1>0, <1>d, <2>1, <2>3, <3>1 DEF First
  <2>5. started' = First(Mine) /\ started' # Never
    BY <1>0, <2>1, <2>4 DEF First
  <2> QED
    BY <2>1, <2>3, <2>5 DEF Adds, First, Before
<1>7. CASE Returns
  BY <1>7, <1>a DEF Returns, SumInv
<1>8. CASE Rests \/ Ticks
  BY <1>8, <1>s, AddsAgain DEF Rests, Ticks, SumInv, Mine
<1> QED
  BY <1>1, <1>2, <1>3, <1>4, <1>u, <1>5, <1>6, <1>7, <1>8, LedgerCases

-----------------------------------------------------------------------------
(***************************************************************************)
(* Theorems about the ledger.                                              *)
(***************************************************************************)

\* All that they rest on, but for the sums.
LedgerInv == InSync /\ LifeInv /\ StampInv /\ OpenInv

\* At the start there is no budget, no report and nothing to account for.
LEMMA LedgerInitially == GovernorInit => LedgerInv /\ SumInv
<1> SUFFICES ASSUME GovernorInit PROVE LedgerInv /\ SumInv
  OBVIOUS
<1>1. Init /\ B!Init
  BY SameStates DEF GovernorInit
<1>2. /\ pc = "wait" /\ stage = "none" /\ budget.state = "absent" /\ InSync
  BY <1>1 DEF Init, InSync
<1>3. /\ started = Never /\ step[Manager] = "wait"
      /\ status.since = Never /\ status.last = Never /\ status.acc = B!Zero
      /\ \A m \in B!Months : reports[m].state = "none" /\ reports[m].total = B!Zero
  BY <1>1 DEF B!Init, B!BlankStatus
<1> QED
  BY <1>2, <1>3 DEF LedgerInv, LifeInv, StampInv, OpenInv, Live, SumInv, Adds, At

\* LedgerInv holds in every reachable state.
LEMMA LedgerInvariant == GovernorSpec => []LedgerInv
<1>1. GovernorInv /\ LedgerInv /\ [GovernorNext]_all => LedgerInv'
  <2> SUFFICES ASSUME GovernorInv, LedgerInv, [GovernorNext]_all PROVE LedgerInv'
    OBVIOUS
  <2>1. InSync'
    <3>1. CASE [Next]_vars
      BY <3>1, SyncStep DEF GovernorInv, LedgerInv
    <3>2. CASE WorkloadsRest
      BY <3>2 DEF WorkloadsRest, workloads, server, objects, InSync, LedgerInv
    <3> QED
      BY <3>1, <3>2, EnforcementHalf DEF GovernorInv
  <2> QED
    BY <2>1, LifeStep, StampStep, OpenStep DEF LedgerInv
<1> QED
  BY <1>1, LedgerInitially, GovernorInvariant, PTL DEF GovernorSpec

\* At one unit a day every day is accounted exactly once, in the running total or in
\* the report of a closed month, for any length of the months and any number of
\* failed requests and crashes, unless a pass ended between the report of a month
\* and the status of the next (step 5, the month boundary, Generate, updateStatus).
THEOREM LedgerIsKept ==
    ASSUME Rates \subseteq {1}
    PROVE  GovernorSpec => []LedgerKept
<1>1. GovernorInv /\ LedgerInv /\ SumInv /\ [GovernorNext]_all => SumInv'
  BY SumStep DEF LedgerInv
<1>2. LedgerInv /\ SumInv => LedgerKept
  <2> SUFFICES ASSUME LedgerInv, SumInv, ~torn PROVE A!Conserved
    BY DEF LedgerKept
  <2>1. Adds(status) /\ (status.last # Never => started # Never)
    BY DEF SumInv, LedgerInv, StampInv
  <2> QED
    BY <2>1, ConservedBilled DEF Adds, First
<1> QED
  BY <1>1, <1>2, LedgerInitially, LedgerInvariant, GovernorInvariant, PTL DEF GovernorSpec

\* The printed period is the largest of the full reports, if there is one.
LEMMA PrintedIsLargest ==
    ASSUME NEW m, Full(m), \A n \in B!Months : Full(n) => n <= m
    PROVE  A!PrintedPeriod = m
<1> DEFINE periods == {A!NoPeriod} \cup {A!Period(n) : n \in A!Months}
<1>1. m \in B!Months /\ A!Months = B!Months /\ B!Months \subseteq Nat
  BY SameValues, MonthsFinite DEF Full
<1>2. m \in periods
  BY <1>1 DEF A!Period, Full
<1>3. \A p \in periods : p \in Int /\ m >= p
  BY <1>1 DEF A!Period, A!NoPeriod, Full
<1> HIDE DEF periods
<1>4. A!Max(periods) = m
  <2>1. A!Max(periods) \in periods /\ \A p \in periods : A!Max(periods) >= p
    BY <1>2, <1>3 DEF A!Max
  <2>2. A!Max(periods) \in Int /\ A!Max(periods) >= m /\ m >= A!Max(periods) /\ m \in Int
    BY <1>2, <1>3, <2>1
  <2> QED
    BY <2>2
<1> QED
  BY <1>4 DEF A!PrintedPeriod, periods

\* `kubectl budget report` prints the report of the month before the stored period,
\* or the one that the pass in hand is closing, and between passes the former, for
\* any length of the months and whatever fails, with the same exception (reportCmd,
\* Generate, the month boundary).
THEOREM PrintedReportKeepsUp == GovernorSpec => []PrintedReportIsCurrent
<1>1. GovernorInv /\ LedgerInv => PrintedReportIsCurrent
  <2> SUFFICES ASSUME GovernorInv, LedgerInv, ~torn, budget.state = "active",
                      NEW f \in A!Months, reports[f].state = "full"
               PROVE  /\ A!PrintedPeriod >= A!Month(status.since) - 1
                      /\ At({"wait"}) => A!PrintedPeriod = A!Month(status.since) - 1
    BY DEF PrintedReportIsCurrent
  <2>0. /\ status.since \in B!Time \cup {Never} /\ Begun \in B!Time
        /\ Never \notin Int /\ \A t \in B!Time : t \in Nat
    BY LedgerTypes DEF GovernorInv
  <2>1. Full(f) /\ Orderly /\ StampInv
    BY SameValues DEF Full, LedgerInv, OpenInv, Live
  <2>2. started # Never /\ status.since # Never /\ status.since \in B!Time
    BY <2>0, <2>1 DEF StampInv, Full
  <2>3. /\ B!Month(status.since) \in Nat /\ B!Month(Begun) \in Nat
        /\ status.since <= Begun => B!Month(status.since) <= B!Month(Begun)
        /\ A!Month(status.since) = B!Month(status.since) /\ B!Months \subseteq Nat
    BY <2>0, <2>2, B!MonthMonotone, AccountingAssumed, SameValues, MonthsFinite
  <2>4. \A n \in B!Months : Full(n) => n < B!Month(status.since) \/ InFlight(n)
    BY <2>1 DEF Orderly, Full, Before
  <2>5. CASE \E n \in B!Months : Full(n) /\ InFlight(n)
    <3>1. PICK n \in B!Months : Full(n) /\ InFlight(n)
      BY <2>5
    <3>2. ~At({"wait"}) /\ n = B!Month(Begun) - 1 /\ status.since <= Begun
      BY <2>1, <2>2, <3>1 DEF InFlight, NewPeriod, At, StampInv
    <3>3. \A l \in B!Months : Full(l) => l <= n
      BY <2>3, <2>4, <3>2 DEF InFlight
    <3>4. A!PrintedPeriod = n
      BY <3>1, <3>3, PrintedIsLargest
    <3> QED
      BY <2>3, <3>2, <3>4
  <2>6. CASE ~\E n \in B!Months : Full(n) /\ InFlight(n)
    <3>1. f \in B!Months /\ f < B!Month(status.since)
      BY <2>1, <2>4, <2>6 DEF Full
    <3>2. Full(B!Month(status.since) - 1)
      BY <2>1, <2>2, <3>1 DEF Orderly, Before
    <3>3. \A l \in B!Months : Full(l) => l <= B!Month(status.since) - 1
      BY <2>3, <2>4, <2>6
    <3>4. A!PrintedPeriod = B!Month(status.since) - 1
      BY <3>2, <3>3, PrintedIsLargest
    <3> QED
      BY <2>3, <3>4
  <2> QED
    BY <2>5, <2>6
<1> QED
  BY <1>1, LedgerInvariant, GovernorInvariant, PTL
=============================================================================
