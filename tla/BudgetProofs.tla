---------------------------- MODULE BudgetProofs ----------------------------
(***************************************************************************)
(* What holds of BudgetReconcile for every number of processes, every      *)
(* length of month, every budget and every fault: its type invariant, that *)
(* a CostReport with its contents is final, and that no day is charged     *)
(* twice.                                                                  *)
(***************************************************************************)
EXTENDS BudgetReconcile, TLAPS

-----------------------------------------------------------------------------
(***************************************************************************)
(* Type correctness.                                                       *)
(***************************************************************************)

\* No pass that left a trace lies in the future: the elapsed time of step 5 is
\* never negative.
Past(s) == s.last = Never \/ s.last <= now

\* The same of all three places a status is kept in.
NoFuture ==
    /\ Past(status)
    /\ \A p \in Procs : Past(shown[p]) /\ Past(copy[p])

TypeInv == TypeOK /\ NoFuture

\* A product of usage and time is a usage (step 5).
LEMMA ProductType == \A a, b \in Nat : a * b \in Nat
  OBVIOUS

\* A status stays well-formed through step 5.
LEMMA AccumulateType ==
  ASSUME NEW s \in Status, NEW rate \in [Dims -> Rates], NEW t \in Time,
         s.last = Never \/ s.last <= t
  PROVE  /\ Accumulate(s, rate, t) \in Status
         /\ Accumulate(s, rate, t).last = t
  <1> DEFINE elapsed == IF s.last = Never THEN 0 ELSE t - s.last
             total == [d \in Dims |-> s.acc[d] + rate[d] * elapsed]
  <1>1. elapsed \in Nat
    BY NeverAssumption, TimeAssumption DEF Status, Time
  <1>2. \A d \in Dims : rate[d] * elapsed \in Nat
    BY <1>1, ProductType, RatesAssumption
  <1>4. Accumulate(s, rate, t) = [s EXCEPT !.acc = total, !.last = t]
    BY DEF Accumulate, Status
  <1> HIDE DEF elapsed
  <1>3. total \in Usage
    BY <1>2 DEF Status, Usage
  <1> HIDE DEF total
  <1> QED
    BY <1>3, <1>4 DEF Status

\* A condition update keeps a status well-formed and its last pass (setCondition).
LEMMA ConditionType ==
  ASSUME NEW s \in Status, NEW c \in Conditions, NEW on \in BOOLEAN, NEW t \in Time
  PROVE  /\ setCondition(s, c, on, t) \in Status
         /\ setCondition(s, c, on, t).last = s.last
  BY DEF setCondition, Status

\* The same for what updateStatus sets.
LEMMA WithConditionsType ==
  ASSUME NEW s \in Status, NEW t \in Time
  PROVE  WithConditions(s, t) \in Status /\ WithConditions(s, t).last = s.last
  <1> DEFINE warned == setCondition(s, "UsageWarning", AtLeast(s.acc, 80), t)
  <1>1. warned \in Status /\ warned.last = s.last
    BY ConditionType DEF Conditions, AtLeast
  <1>2. WithConditions(s, t)
          = setCondition(warned, "BudgetExceeded", AtLeast(s.acc, 100), t)
    BY DEF WithConditions
  <1> HIDE DEF warned
  <1>3. AtLeast(s.acc, 100) \in BOOLEAN /\ "BudgetExceeded" \in Conditions
    BY DEF Conditions, AtLeast
  <1>4. /\ setCondition(warned, "BudgetExceeded", AtLeast(s.acc, 100), t) \in Status
        /\ setCondition(warned, "BudgetExceeded", AtLeast(s.acc, 100), t).last = warned.last
    BY <1>1, <1>3, ConditionType
  <1> QED
    BY <1>1, <1>2, <1>4

\* Blank and restarted statuses are well-formed.
LEMMA PeriodType ==
  /\ BlankStatus \in Status /\ BlankStatus.last = Never
  /\ \A s \in Status, t \in Time :
        /\ StartPeriod(s, t) \in Status /\ StartPeriod(s, t).last = s.last
        /\ [s EXCEPT !.since = t] \in Status /\ [s EXCEPT !.since = t].last = s.last
  <1>1. Zero \in Usage
    BY DEF Zero, Usage
  <1> QED
    BY <1>1 DEF BlankStatus, StartPeriod, Status, PhaseNames

\* determinePhase answers with a phase.
LEMMA PhaseType == \A acc : determinePhase(acc) \in PhaseNames
  BY DEF determinePhase, PhaseNames

\* A pass that returns leaves a well-typed state (every early return).
LEMMA ReturnType ==
  ASSUME TypeInv, NEW p \in Procs, Return(p),
         UNCHANGED <<now, status, reports, sent, started>>,
         shown' = shown \/ shown' = [shown EXCEPT ![p] = status], faults' \in 0..MaxFaults
  PROVE  TypeInv'
  BY PeriodType, TimeAssumption
     DEF TypeInv, TypeOK, NoFuture, Past, Return, Goto, Time, PhaseNames

\* TypeInv is inductive: one step for each action.
LEMMA BudgetTypeStep == TypeInv /\ [Next]_vars => TypeInv'
  <1> SUFFICES ASSUME TypeInv, [Next]_vars PROVE TypeInv'
    OBVIOUS
  <1> USE DEF TypeInv
  <1>0. ASSUME faults < MaxFaults, faults' = faults + 1
        PROVE  faults' \in 0..MaxFaults
    BY <1>0, FaultsAssumption DEF TypeOK
  <1>1. ASSUME NEW p \in Procs, NEW notice \in BOOLEAN, Fetch(p, notice) PROVE TypeInv'
    <2> DEFINE read == IF shown[p].since = Never THEN [shown[p] EXCEPT !.since = now]
                                                 ELSE shown[p]
    <2>1. read \in Status /\ read.last = shown[p].last
      BY PeriodType DEF TypeOK
    <2> HIDE DEF read
    <2>2. PICK new \in {read, StartPeriod(read, now)} :
             copy' = [copy EXCEPT ![p] = new]
      BY <1>1 DEF Fetch, read
    <2>a. StartPeriod(read, now) \in Status /\ StartPeriod(read, now).last = read.last
      BY <2>1, PeriodType DEF TypeOK
    <2>3. new \in Status /\ new.last = shown[p].last
      BY <2>1, <2>2, <2>a
    <2>4. pc' \in [Procs -> {"wait", "create", "fill", "query", "persist", "act"}]
      BY <1>1 DEF Fetch, Goto, TypeOK
    <2>5. before' \in [Procs -> PhaseNames]
      BY <1>1 DEF Fetch, TypeOK, Status
    <2>6. began' \in [Procs -> Time]
      BY <1>1 DEF Fetch, TypeOK
    <2> QED
      BY <1>1, <2>2, <2>3, <2>4, <2>5, <2>6 DEF Fetch, TypeOK, NoFuture, Past, world
  <1>2. ASSUME NEW p \in Procs, CreateReport(p) PROVE TypeInv'
    BY <1>2 DEF CreateReport, Goto, TypeOK, NoFuture, Past, Report, local
  <1>3. ASSUME NEW p \in Procs, CreateFails(p) PROVE TypeInv'
    <2>1. faults' \in 0..MaxFaults
      BY <1>0, <1>3 DEF CreateFails, TypeOK
    <2> QED
      BY <1>3, <2>1 DEF CreateFails, Goto, TypeOK, NoFuture, Past, local, world
  <1>4. ASSUME NEW p \in Procs, FillReport(p) PROVE TypeInv'
    <2>1. StartPeriod(copy[p], began[p]) \in Status
            /\ StartPeriod(copy[p], began[p]).last = copy[p].last
      BY PeriodType DEF TypeOK
    <2>2. copy' = [copy EXCEPT ![p] = StartPeriod(copy[p], began[p])]
      BY <1>4 DEF FillReport, TypeOK
    <2>3. [state |-> "full", total |-> copy[p].acc] \in Report
      BY DEF TypeOK, Report, Status
    <2>4. reports' \in [Months -> Report]
      BY <1>4, <2>3 DEF FillReport, TypeOK
    <2> QED
      BY <1>4, <2>1, <2>2, <2>4 DEF FillReport, Goto, TypeOK, NoFuture, Past
  <1>5. ASSUME NEW p \in Procs, FillFails(p) PROVE TypeInv'
    BY <1>0, <1>5 DEF FillFails, Goto, TypeOK, NoFuture, Past, local, world
  <1>6. ASSUME NEW p \in Procs, QueryFails(p) PROVE TypeInv'
    BY <1>0, <1>6, ReturnType DEF QueryFails, world
  <1>7. ASSUME NEW p \in Procs, NEW rate \in [Dims -> Rates], Account(p, rate)
        PROVE  TypeInv'
    <2> DEFINE after == Accumulate(copy[p], rate, now)
               set == [after EXCEPT !.phase = determinePhase(after.acc)]
               new == WithConditions(set, now)
    <2>1. after \in Status /\ after.last = now
      BY AccumulateType DEF TypeOK, NoFuture, Past
    <2>2. \/ Return(p)
          \/ /\ Goto(p, "persist") /\ copy' = [copy EXCEPT ![p] = new]
             /\ UNCHANGED <<began, before>>
      BY <1>7 DEF Account
    <2> HIDE DEF after
    <2>3. set \in Status /\ set.last = now
      BY <2>1, PhaseType DEF Status
    <2> HIDE DEF set
    <2>4. new \in Status /\ new.last = now
      BY <2>3, WithConditionsType DEF TypeOK
    <2> HIDE DEF new
    <2>5. CASE Return(p)
      BY <1>7, <2>5, ReturnType DEF Account, world, TypeOK
    <2>6. CASE /\ Goto(p, "persist") /\ copy' = [copy EXCEPT ![p] = new]
               /\ UNCHANGED <<began, before>>
      BY <1>7, <2>4, <2>6 DEF Account, Goto, TypeOK, NoFuture, Past, world, Time
    <2> QED
      BY <2>2, <2>5, <2>6
  <1>8. ASSUME NEW p \in Procs, Persist(p) PROVE TypeInv'
    <2>1. Earliest(copy[p].last) \in Time \cup {Never}
      BY DEF Earliest, TypeOK, Status
    <2> QED
      BY <1>8, <2>1 DEF Persist, Goto, TypeOK, NoFuture, Past, local
  <1>9. ASSUME NEW p \in Procs, PersistFails(p) PROVE TypeInv'
    <2>1. faults' \in 0..MaxFaults
      BY <1>0, <1>9 DEF PersistFails, TypeOK
    <2> QED
      BY <1>9, <2>1, ReturnType DEF PersistFails, world
  <1>10. ASSUME NEW p \in Procs, Finish(p) PROVE TypeInv'
    <2>1. sent' \in [phase : PhaseNames, repeat : BOOLEAN]
      BY <1>10 DEF Finish, Notice, TypeOK, Status
    <2> QED
      BY <1>10, <2>1, PeriodType, TimeAssumption
         DEF Finish, Return, Goto, TypeOK, NoFuture, Past, Time, PhaseNames
  <1>11. ASSUME NEW p \in Procs, Crash(p) PROVE TypeInv'
    BY <1>0, <1>11, ReturnType DEF Crash, world
  <1>12. ASSUME NEW p \in Procs, CacheSync(p) PROVE TypeInv'
    BY <1>12 DEF CacheSync, TypeOK, NoFuture, Past, local, world
  <1>13. ASSUME Tick PROVE TypeInv'
    <2>1. now \in Int /\ now' = now + 1 /\ now' \in Time
      BY <1>13, TimeAssumption DEF Tick, TypeOK, Time
    <2>2. \A s \in Status : Past(s) => s.last = Never \/ s.last <= now'
      BY <2>1, NeverAssumption DEF Past, Status, Time
    <2> QED
      BY <1>13, <2>1, <2>2 DEF Tick, TypeOK, NoFuture, Past, local
  <1>14. ASSUME NEW p \in Procs, CreateAnswerLost(p) PROVE TypeInv'
    BY <1>0, <1>14 DEF CreateAnswerLost, Goto, TypeOK, NoFuture, Past, Report, local
  <1>15. ASSUME NEW p \in Procs, FillAnswerLost(p) PROVE TypeInv'
    <2>1. [state |-> "full", total |-> copy[p].acc] \in Report
      BY DEF TypeOK, Report, Status
    <2>2. reports' \in [Months -> Report]
      BY <1>15, <2>1 DEF FillAnswerLost, TypeOK
    <2> QED
      BY <1>0, <1>15, <2>2 DEF FillAnswerLost, Goto, TypeOK, NoFuture, Past, local
  <1>16. ASSUME NEW p \in Procs, PersistAnswerLost(p) PROVE TypeInv'
    <2>1. Earliest(copy[p].last) \in Time \cup {Never}
      BY DEF Earliest, TypeOK, Status
    <2>2. status' \in Status /\ Past(status)' /\ started' \in Time \cup {Never}
      BY <1>16, <2>1 DEF PersistAnswerLost, TypeOK, NoFuture, Past
    <2>3. shown' \in [Procs -> Status] /\ \A q \in Procs : Past(shown'[q])
      BY <1>16 DEF PersistAnswerLost, TypeOK, NoFuture, Past
    <2>4. faults' \in 0..MaxFaults
      BY <1>0, <1>16 DEF PersistAnswerLost
    <2> QED
      BY <1>16, <2>2, <2>3, <2>4, PeriodType, TimeAssumption
         DEF PersistAnswerLost, Return, Goto, TypeOK, NoFuture, Past, Time, PhaseNames
  <1>17. ASSUME NEW p \in Procs, FinishUntold(p) PROVE TypeInv'
    BY <1>0, <1>17, ReturnType DEF FinishUntold, world
  <1>18. CASE UNCHANGED vars
    BY <1>18 DEF vars, TypeOK, NoFuture, Past
  <1> QED
    BY <1>1, <1>2, <1>3, <1>4, <1>5, <1>6, <1>7, <1>8, <1>9, <1>10, <1>11, <1>12,
       <1>13, <1>14, <1>15, <1>16, <1>17, <1>18
       DEF Next, ProcStep, Samples, FaultStep, AnswerLost

\* A budget starts well typed.
LEMMA BudgetTypeInitially == Init => TypeInv
  BY PeriodType, TimeAssumption, FaultsAssumption
     DEF Init, TypeInv, TypeOK, NoFuture, Past, Report, Time, PhaseNames, Zero, Usage

\* Every reachable state is well typed, and no pass is charged a negative time
\* (Reconcile, step 5), whatever processes, faults and lagging caches there are.
THEOREM BudgetTypeCorrect == Spec => []TypeOK
  BY BudgetTypeInitially, BudgetTypeStep, PTL DEF Spec, TypeInv

-----------------------------------------------------------------------------
(***************************************************************************)
(* Reports.  Only the process whose Create went through goes on to fill a  *)
(* report, so one process at most is about to fill it, and what it fills   *)
(* is empty.                                                               *)
(***************************************************************************)

\* The month a process reports.
Target(p) == Month(began[p]) - 1

\* A process is about to fill in the contents of an existing report.
Filling(p) == pc[p] = "fill" /\ Target(p) \in Months

FillInv ==
    /\ \A p \in Procs : Filling(p) => reports[Target(p)].state = "empty"
    /\ \A p, q \in Procs : Filling(p) /\ Filling(q) /\ Target(p) = Target(q) => p = q

\* One action never reopens a finished report.
Final == \A m \in Months : reports[m].state = "full" => reports'[m] = reports[m]

\* FillInv is inductive, and each step that starts in it leaves finished reports
\* alone.
LEMMA FillStep == TypeOK /\ FillInv /\ [Next]_vars => FillInv' /\ Final
  <1> SUFFICES ASSUME TypeOK, FillInv, [Next]_vars PROVE FillInv' /\ Final
    OBVIOUS
  <1>1. ASSUME NEW p \in Procs, reports' = reports,
               pc' = [pc EXCEPT ![p] = pc'[p]], pc'[p] # "fill",
               began' = [began EXCEPT ![p] = began'[p]]
        PROVE  FillInv' /\ Final
    BY <1>1 DEF FillInv, Filling, Target, Final, TypeOK
  <1>2. ASSUME NEW p \in Procs, CreateReport(p) PROVE FillInv' /\ Final
    <2> DEFINE m == Target(p)
    <2>1. /\ reports[m].state = "none" /\ reports' = [reports EXCEPT ![m].state = "empty"]
          /\ pc' = [pc EXCEPT ![p] = "fill"] /\ began' = began
      BY <1>2 DEF CreateReport, Goto, local, Target
    <2>2. \A q \in Procs : Filling(q) => Target(q) # m
      BY <2>1 DEF FillInv
    <2>3. \A q \in Procs : Target(q)' = Target(q)
      BY <2>1 DEF Target
    <2>4. \A q \in Procs : Filling(q)' => q = p \/ Filling(q)
      BY <2>1, <2>3 DEF Filling, TypeOK
    <2>5. \A k \in Months : reports'[k] = IF k = m THEN [reports[m] EXCEPT !.state = "empty"]
                                                  ELSE reports[k]
      BY <2>1 DEF TypeOK
    <2>6. \A k \in Months : k = m => reports'[k].state = "empty"
      BY <2>5 DEF TypeOK, Report
    <2>7. FillInv'
      <3>1. ASSUME NEW q \in Procs, Filling(q)' PROVE reports'[Target(q)'].state = "empty"
        BY <2>2, <2>3, <2>4, <2>5, <2>6, <3>1 DEF FillInv, Filling
      <3>2. ASSUME NEW q \in Procs, NEW r \in Procs, Filling(q)', Filling(r)',
                   Target(q)' = Target(r)'
            PROVE  q = r
        BY <2>2, <2>3, <2>4, <3>2 DEF FillInv
      <3> QED
        BY <3>1, <3>2 DEF FillInv
    <2> QED
      BY <2>1, <2>5, <2>7 DEF Final
  <1>3. ASSUME NEW p \in Procs, FillReport(p) \/ FillAnswerLost(p) PROVE FillInv' /\ Final
    <2> DEFINE m == Target(p)
    <2>1. /\ pc[p] = "fill" /\ pc' = [pc EXCEPT ![p] = "query"] /\ began' = began
          /\ reports' = [reports EXCEPT ![m] = [state |-> "full", total |-> copy[p].acc]]
      BY <1>3 DEF FillReport, FillAnswerLost, Goto, Target, local
    <2>2. m \in Months => reports[m].state = "empty"
      BY <2>1 DEF FillInv, Filling
    <2>3. \A q \in Procs : Target(q)' = Target(q)
      BY <2>1 DEF Target
    <2>4. \A q \in Procs : Filling(q)' => Filling(q) /\ q # p
      BY <2>1, <2>3 DEF Filling, TypeOK
    <2>5. \A q \in Procs : Filling(q)' => Target(q) # m
      BY <2>1, <2>4 DEF FillInv, Filling
    <2>6. \A k \in Months : k # m => reports'[k] = reports[k]
      BY <2>1 DEF TypeOK
    <2>7. FillInv'
      BY <2>3, <2>4, <2>5, <2>6 DEF FillInv, Filling
    <2> QED
      BY <2>2, <2>6, <2>7 DEF Final
  <1>4. ASSUME NEW p \in Procs, ProcStep(p) \/ FaultStep(p) PROVE FillInv' /\ Final
    <2>1. ASSUME Return(p), reports' = reports PROVE FillInv' /\ Final
      BY <1>1, <2>1 DEF Return, Goto, TypeOK
    <2>2. ASSUME NEW notice \in BOOLEAN, Fetch(p, notice) PROVE FillInv' /\ Final
      <3>1. pc' = [pc EXCEPT ![p] = "create"] \/ pc' = [pc EXCEPT ![p] = "query"]
        BY <2>2 DEF Fetch, Goto
      <3> QED
        BY <1>1, <2>2, <3>1 DEF Fetch, TypeOK, world
    <2>3. CASE CreateFails(p) \/ FillFails(p)
      BY <1>1, <2>3 DEF CreateFails, FillFails, Goto, TypeOK, local, world
    <2>4. ASSUME NEW rate \in [Dims -> Rates], Account(p, rate) PROVE FillInv' /\ Final
      <3>1. reports' = reports
        BY <2>4 DEF Account, world
      <3>2. Return(p) \/ (Goto(p, "persist") /\ began' = began)
        BY <2>4 DEF Account
      <3>3. CASE Goto(p, "persist") /\ began' = began
        BY <1>1, <3>1, <3>3 DEF Goto, TypeOK
      <3> QED
        BY <2>1, <3>1, <3>2, <3>3
    <2>5. CASE Persist(p)
      BY <1>1, <2>5 DEF Persist, Goto, TypeOK, local
    <2>6. CASE Finish(p) \/ QueryFails(p) \/ PersistFails(p) \/ Crash(p)
                 \/ PersistAnswerLost(p) \/ FinishUntold(p)
      BY <2>1, <2>6
         DEF Finish, QueryFails, PersistFails, Crash, PersistAnswerLost, FinishUntold, world
    <2>7. CASE CreateAnswerLost(p)
      <3> DEFINE m == Target(p)
      <3>1. /\ reports[m].state = "none" /\ reports' = [reports EXCEPT ![m].state = "empty"]
            /\ pc' = [pc EXCEPT ![p] = "query"] /\ began' = began
        BY <2>7 DEF CreateAnswerLost, Goto, local, Target
      <3>2. \A q \in Procs : Target(q)' = Target(q)
        BY <3>1 DEF Target
      <3>3. \A q \in Procs : Filling(q)' => Filling(q) /\ Target(q) # m
        BY <3>1, <3>2 DEF FillInv, Filling, TypeOK
      <3>4. \A k \in Months : k # m => reports'[k] = reports[k]
        BY <3>1 DEF TypeOK
      <3>5. FillInv'
        BY <3>2, <3>3, <3>4 DEF FillInv, Filling
      <3> QED
        BY <3>1, <3>4, <3>5 DEF Final
    <2> QED
      BY <1>2, <1>3, <1>4, <2>2, <2>3, <2>4, <2>5, <2>6, <2>7
         DEF ProcStep, Samples, FaultStep, AnswerLost
  <1>5. ASSUME UNCHANGED <<reports, pc, began>> PROVE FillInv' /\ Final
    BY <1>5 DEF FillInv, Filling, Target, Final
  <1>6. CASE Tick \/ UNCHANGED vars \/ \E p \in Procs : CacheSync(p)
    BY <1>5, <1>6 DEF Tick, CacheSync, vars, local, world
  <1> QED
    BY <1>4, <1>6 DEF Next

\* However many processes race to report a month, and wherever they fail or crash,
\* a CostReport that has its contents never changes again (Generate's existence
\* check, Create and status update).
THEOREM ReportsAreFinal == Spec => ReportFinal
  <1>1. Init => FillInv
    BY DEF Init, FillInv, Filling
  <1>2. TypeOK /\ FillInv /\ [Next]_vars => [Final]_vars
    BY FillStep
  <1> QED
    BY <1>1, <1>2, FillStep, BudgetTypeCorrect, PTL DEF Spec, ReportFinal, Final

-----------------------------------------------------------------------------
(***************************************************************************)
(* No day is charged twice.  ChargedOnce speaks of the stored status.  It  *)
(* is inductive only together with the same of every stale copy in a cache *)
(* and of every status a process is about to store, which may be older     *)
(* than what it overwrites: first is the day of the earliest stored pass.  *)
(***************************************************************************)

\* A status as it is stored: charged at most from first to its last pass.
StoredFrom(s, first) ==
    IF s.last = Never
    THEN \A d \in Dims : s.acc[d] = 0
    ELSE /\ first # Never /\ first <= s.last
         /\ \A d \in Dims : s.acc[d] <= s.last - first

\* A status that a pass has computed and not stored: nothing is charged if it would
\* be the first to be stored.
DraftedFrom(s, first) ==
    /\ s.last # Never
    /\ \A d \in Dims : s.acc[d] = 0 \/ (first # Never /\ s.acc[d] <= s.last - first)

ChargeInv ==
    /\ StoredFrom(status, started)
    /\ \A p \in Procs : StoredFrom(shown[p], started)
    /\ \A p \in Procs : IF pc[p] \in {"persist", "act"} THEN DraftedFrom(copy[p], started)
                                                        ELSE StoredFrom(copy[p], started)

\* An earlier first pass takes nothing back.
LEMMA FromEarlier ==
  ASSUME NEW s \in Status, NEW f \in Time \cup {Never}, NEW g \in Time, f = Never \/ g <= f
  PROVE  /\ StoredFrom(s, f) => StoredFrom(s, g)
         /\ DraftedFrom(s, f) => DraftedFrom(s, g)
         /\ DraftedFrom(s, f) /\ g <= s.last => StoredFrom(s, g)
  <1>1. \A d \in Dims : s.acc[d] \in Nat
    BY DEF Status, Usage
  <1>2. s.last = Never \/ s.last \in Int
    BY DEF Status, Time
  <1>3. g \in Int /\ g # Never /\ (f = Never \/ f \in Int)
    BY NeverAssumption DEF Time
  <1> QED
    BY <1>1, <1>2, <1>3 DEF StoredFrom, DraftedFrom

\* Step 5 charges the days since the last stored pass, and no others.
LEMMA AccumulateOnce ==
  ASSUME Rates \subseteq {0, 1},
         NEW s \in Status, NEW rate \in [Dims -> Rates], NEW t \in Time,
         NEW f \in Time \cup {Never}, s.last = Never \/ s.last <= t, StoredFrom(s, f)
  PROVE  DraftedFrom(Accumulate(s, rate, t), f)
  <1> DEFINE elapsed == IF s.last = Never THEN 0 ELSE t - s.last
             total == [d \in Dims |-> s.acc[d] + rate[d] * elapsed]
  <1>1. Accumulate(s, rate, t) = [s EXCEPT !.acc = total, !.last = t]
    BY DEF Accumulate, Status
  <1>2. t \in Int /\ t # Never /\ (f = Never \/ f \in Int) /\ (s.last = Never \/ s.last \in Int)
    BY NeverAssumption DEF Time, Status
  <1>3. \A d \in Dims : s.acc[d] \in Nat /\ rate[d] \in {0, 1}
    BY DEF Status, Usage
  <1>4. elapsed \in Nat
    BY <1>2
  <1>5. \A d \in Dims : rate[d] * elapsed \in {0, elapsed}
    BY <1>3, <1>4
  <1>6. ASSUME NEW d \in Dims PROVE total[d] = 0 \/ (f # Never /\ total[d] <= t - f)
    <2>1. total[d] = s.acc[d] \/ total[d] = s.acc[d] + elapsed
      BY <1>3, <1>4, <1>5
    <2> HIDE DEF total
    <2>2. CASE s.last = Never
      BY <1>3, <2>1, <2>2 DEF StoredFrom
    <2>3. CASE s.last # Never
      BY <1>2, <1>3, <2>1, <2>3 DEF StoredFrom
    <2> QED
      BY <2>2, <2>3
  <1> HIDE DEF total, elapsed
  <1>7. [s EXCEPT !.acc = total, !.last = t].acc = total
          /\ [s EXCEPT !.acc = total, !.last = t].last = t
    BY DEF Status
  <1> QED
    BY <1>1, <1>2, <1>6, <1>7 DEF DraftedFrom

\* Phase and conditions are no charge (steps 6 and 8).
LEMMA ConditionsChargeNothing ==
  ASSUME NEW s \in Status, NEW t
  PROVE  WithConditions(s, t).acc = s.acc /\ WithConditions(s, t).last = s.last
  BY DEF WithConditions, setCondition, Status

\* A new period is charged nothing yet (the month boundary).
LEMMA PeriodStartsAtZero ==
  ASSUME NEW s \in Status, NEW t, NEW f \in Time \cup {Never}, StoredFrom(s, f)
  PROVE  /\ StoredFrom(StartPeriod(s, t), f)
         /\ StoredFrom([s EXCEPT !.since = t], f)
  <1>1. /\ StartPeriod(s, t).last = s.last /\ StartPeriod(s, t).acc = Zero
        /\ [s EXCEPT !.since = t].last = s.last /\ [s EXCEPT !.since = t].acc = s.acc
    BY DEF StartPeriod, Status
  <1>2. f = Never \/ f \in Int
    BY DEF Time
  <1>3. s.last = Never \/ s.last \in Int
    BY DEF Status, Time
  <1> QED
    BY <1>1, <1>2, <1>3 DEF StoredFrom, Zero

\* ChargeInv is inductive at a usage of at most one unit a day.
LEMMA ChargeStep ==
  ASSUME Rates \subseteq {0, 1}, TypeInv, ChargeInv, [Next]_vars
  PROVE  ChargeInv'
  <1> USE DEF TypeInv
  <1>0. started \in Time \cup {Never} /\ StoredFrom(BlankStatus, started)
    BY DEF TypeOK, StoredFrom, BlankStatus, Zero
  \* A pass returns.
  <1>1. ASSUME NEW p \in Procs, Return(p), UNCHANGED <<status, started>>,
               shown' = shown \/ shown' = [shown EXCEPT ![p] = status]
        PROVE  ChargeInv'
    BY <1>0, <1>1 DEF ChargeInv, Return, Goto, TypeOK
  \* A pass goes on to another request.
  <1>2. ASSUME NEW p \in Procs, NEW new, StoredFrom(new, started),
               copy' = [copy EXCEPT ![p] = new], UNCHANGED <<status, shown, started>>,
               NEW point \in {"create", "fill", "query"}, pc' = [pc EXCEPT ![p] = point]
        PROVE  ChargeInv'
    BY <1>2 DEF ChargeInv, TypeOK
  <1>3. ASSUME NEW p \in Procs, NEW notice \in BOOLEAN, Fetch(p, notice) PROVE ChargeInv'
    <2> DEFINE read == IF shown[p].since = Never THEN [shown[p] EXCEPT !.since = now]
                                                 ELSE shown[p]
    <2>1. shown[p] \in Status /\ StoredFrom(shown[p], started)
      BY DEF TypeOK, ChargeInv
    <2>2. read \in Status /\ StoredFrom(read, started)
      BY <1>0, <2>1, PeriodType, PeriodStartsAtZero DEF TypeOK
    <2> HIDE DEF read
    <2>3. PICK new \in {read, StartPeriod(read, now)} : copy' = [copy EXCEPT ![p] = new]
      BY <1>3 DEF Fetch, read
    <2>4. StoredFrom(new, started)
      BY <1>0, <2>2, <2>3, PeriodStartsAtZero
    <2>5. PICK point \in {"create", "query"} : pc' = [pc EXCEPT ![p] = point]
      BY <1>3 DEF Fetch, Goto
    <2> QED
      BY <1>2, <1>3, <2>3, <2>4, <2>5 DEF Fetch, world
  <1>4. ASSUME NEW p \in Procs,
               \/ CreateReport(p) \/ CreateFails(p) \/ CreateAnswerLost(p)
               \/ FillReport(p) \/ FillFails(p) \/ FillAnswerLost(p)
        PROVE  ChargeInv'
    <2> USE DEF CreateAnswerLost, FillAnswerLost
    <2>1. copy[p] \in Status /\ StoredFrom(copy[p], started)
      BY <1>4 DEF TypeOK, ChargeInv, CreateReport, CreateFails, FillReport, FillFails
    <2>2. StoredFrom(StartPeriod(copy[p], began[p]), started)
      BY <1>0, <2>1, PeriodStartsAtZero
    <2>3. PICK new \in {copy[p], StartPeriod(copy[p], began[p])} :
             copy' = [copy EXCEPT ![p] = new]
      BY <1>4 DEF TypeOK, CreateReport, CreateFails, FillReport, FillFails, local
    <2>4. PICK point \in {"fill", "query"} : pc' = [pc EXCEPT ![p] = point]
      BY <1>4 DEF CreateReport, CreateFails, FillReport, FillFails, Goto
    <2>5. UNCHANGED <<status, shown, started>>
      BY <1>4 DEF CreateReport, CreateFails, FillReport, FillFails, world
    <2> HIDE DEF CreateAnswerLost, FillAnswerLost
    <2> QED
      BY <1>2, <2>1, <2>2, <2>3, <2>4, <2>5
  <1>5. ASSUME NEW p \in Procs, NEW rate \in [Dims -> Rates], Account(p, rate)
        PROVE  ChargeInv'
    <2> DEFINE after == Accumulate(copy[p], rate, now)
               set == [after EXCEPT !.phase = determinePhase(after.acc)]
               new == WithConditions(set, now)
    <2>1. UNCHANGED <<status, shown, started>>
      BY <1>5 DEF Account, world
    <2>2. \/ Return(p)
          \/ Goto(p, "persist") /\ copy' = [copy EXCEPT ![p] = new]
      BY <1>5 DEF Account
    <2>3. copy[p] \in Status /\ StoredFrom(copy[p], started) /\ Past(copy[p])
      BY <1>5 DEF TypeOK, ChargeInv, Account, NoFuture
    <2>4. after \in Status
      BY <2>3, AccumulateType DEF TypeOK, Past
    <2>5. DraftedFrom(after, started)
      BY <1>0, <2>3, AccumulateOnce DEF TypeOK, Past
    <2> HIDE DEF after
    <2>6. set \in Status /\ set.acc = after.acc /\ set.last = after.last
      BY <2>4, PhaseType DEF Status
    <2> HIDE DEF set
    <2>7. new.acc = after.acc /\ new.last = after.last
      BY <2>6, ConditionsChargeNothing
    <2> HIDE DEF new
    <2>8. DraftedFrom(new, started)
      BY <2>5, <2>7 DEF DraftedFrom
    <2>9. CASE Return(p)
      BY <1>1, <2>1, <2>9
    <2>10. CASE Goto(p, "persist") /\ copy' = [copy EXCEPT ![p] = new]
      BY <2>1, <2>8, <2>10 DEF ChargeInv, TypeOK, Goto
    <2> QED
      BY <2>2, <2>9, <2>10
  <1>6. ASSUME NEW p \in Procs, Persist(p) \/ PersistAnswerLost(p) PROVE ChargeInv'
    <2>1. /\ pc[p] = "persist" /\ started' = Earliest(copy[p].last)
          /\ status' = copy[p]
          /\ \A q \in Procs : shown'[q] \in {shown[q], copy[p]}
      BY <1>6 DEF Persist, PersistAnswerLost, TypeOK
    <2>a. \/ pc' = [pc EXCEPT ![p] = "act"] /\ UNCHANGED copy
          \/ pc' = [pc EXCEPT ![p] = "wait"] /\ copy' = [copy EXCEPT ![p] = BlankStatus]
      BY <1>6 DEF Persist, PersistAnswerLost, Return, Goto, local
    <2>2. DraftedFrom(copy[p], started) /\ copy[p] \in Status
      BY <2>1 DEF ChargeInv, TypeOK
    <2>3. copy[p].last \in Time
      BY <2>2 DEF DraftedFrom, Status
    <2>4. started' \in Time /\ (started = Never \/ started' <= started)
            /\ started' <= copy[p].last
      BY <1>0, <2>1, <2>3 DEF Earliest, Time
    <2>5. \A s \in Status : /\ StoredFrom(s, started) => StoredFrom(s, started')
                            /\ DraftedFrom(s, started) => DraftedFrom(s, started')
      BY <1>0, <2>4, FromEarlier
    <2>6. StoredFrom(copy[p], started')
      BY <1>0, <2>2, <2>4, FromEarlier
    <2>7. \A q \in Procs : StoredFrom(shown[q], started') /\ shown[q] \in Status
      BY <2>5 DEF ChargeInv, TypeOK
    <2>b. StoredFrom(BlankStatus, started')
      BY DEF StoredFrom, BlankStatus, Zero
    <2>8. \A q \in Procs : IF pc'[q] \in {"persist", "act"}
                           THEN DraftedFrom(copy'[q], started')
                           ELSE StoredFrom(copy'[q], started')
      BY <2>1, <2>5, <2>a, <2>b DEF ChargeInv, TypeOK
    <2> QED
      BY <2>1, <2>6, <2>7, <2>8 DEF ChargeInv
  <1>7. ASSUME NEW p \in Procs,
               \/ Finish(p) \/ FinishUntold(p) \/ QueryFails(p) \/ PersistFails(p)
               \/ Crash(p)
        PROVE  ChargeInv'
    BY <1>1, <1>7 DEF Finish, FinishUntold, QueryFails, PersistFails, Crash, world
  <1>8. ASSUME NEW p \in Procs, CacheSync(p) PROVE ChargeInv'
    BY <1>8 DEF CacheSync, ChargeInv, TypeOK, world, local
  <1>9. CASE Tick \/ UNCHANGED vars
    BY <1>9 DEF Tick, vars, ChargeInv, local
  <1> QED
    BY <1>3, <1>4, <1>5, <1>6, <1>7, <1>8, <1>9
       DEF Next, ProcStep, Samples, FaultStep, AnswerLost

\* At a usage of at most one unit a day, for every number of processes, of stale
\* caches and of crashes, the running total never exceeds the days between the
\* first stored pass and the last: the whole status that updateStatus writes over
\* what others stored in between may lose days, and never charges one twice.
THEOREM NoDayChargedTwice ==
  ASSUME Rates \subseteq {0, 1}
  PROVE  Spec => []ChargedOnce
  <1>1. Init => ChargeInv
    BY DEF Init, ChargeInv, StoredFrom, BlankStatus, Zero
  <1>2. TypeInv /\ ChargeInv /\ [Next]_vars => TypeInv' /\ ChargeInv'
    BY BudgetTypeStep, ChargeStep
  <1>3. ChargeInv => ChargedOnce
    BY DEF ChargeInv, StoredFrom, ChargedOnce
  <1> QED
    BY <1>1, <1>2, <1>3, BudgetTypeInitially, PTL DEF Spec
=============================================================================
