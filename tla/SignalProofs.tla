----------------------------- MODULE SignalProofs -----------------------------
(***************************************************************************)
(* What a single operator process with a cache that does not lag signals:  *)
(* the phase, the conditions, the notices to Slack and the reset of the    *)
(* running total, for every length of month, every budget, every usage and *)
(* every choice of failing requests.                                       *)
(***************************************************************************)
EXTENDS BudgetProofs

\* The operator as it is meant to run: one process at a time, reading what it wrote.
Alone == ~CacheLag /\ \A p, q \in Procs : p = q

-----------------------------------------------------------------------------
(***************************************************************************)
(* Pure parts.                                                             *)
(***************************************************************************)

\* More usage reaches every threshold that less usage reaches (step 6).
LEMMA AtLeastMonotone ==
  ASSUME NEW a \in Usage, NEW b \in Usage, \A d \in Dims : a[d] <= b[d], NEW k \in Nat
  PROVE  AtLeast(a, k) => AtLeast(b, k)
  <1> SUFFICES ASSUME NEW d \in Dims, Monthly[d] > 0, a[d] * 100 >= k * Monthly[d]
               PROVE  b[d] * 100 >= k * Monthly[d]
    BY DEF AtLeast
  <1>1. a[d] \in Nat /\ b[d] \in Nat /\ Monthly[d] \in Nat /\ a[d] <= b[d]
    BY MonthlyAssumption DEF Usage
  <1>2. k * Monthly[d] \in Int
    BY <1>1
  <1> HIDE DEF Usage
  <1> QED
    BY <1>1, <1>2

\* A higher threshold implies the lower ones (step 6).
LEMMA ThresholdsNested ==
  ASSUME NEW a \in Usage
  PROVE  /\ AtLeast(a, 120) => AtLeast(a, 100)
         /\ AtLeast(a, 100) => AtLeast(a, 80)
  <1>1. \A d \in Dims : a[d] \in Nat /\ Monthly[d] \in Nat
    BY MonthlyAssumption DEF Usage
  <1> QED
    BY <1>1 DEF AtLeast

\* determinePhase never answers a greater usage with a milder phase.
LEMMA PhaseMonotone ==
  ASSUME NEW a \in Usage, NEW b \in Usage, \A d \in Dims : a[d] <= b[d]
  PROVE  Rank[determinePhase(a)] <= Rank[determinePhase(b)]
  <1>1. \A k \in {80, 100, 120} : AtLeast(a, k) => AtLeast(b, k)
    BY AtLeastMonotone
  <1>2. /\ AtLeast(a, 120) => AtLeast(a, 100)
        /\ AtLeast(a, 100) => AtLeast(a, 80)
        /\ AtLeast(b, 120) => AtLeast(b, 100)
        /\ AtLeast(b, 100) => AtLeast(b, 80)
    BY ThresholdsNested
  <1> QED
    BY <1>1, <1>2 DEF determinePhase, Rank

\* Step 5 takes no usage back, and touches neither the period nor the conditions.
LEMMA AccumulateGrows ==
  ASSUME NEW s \in Status, NEW rate \in [Dims -> Rates], NEW t \in Time,
         s.last = Never \/ s.last <= t
  PROVE  LET after == Accumulate(s, rate, t)
         IN  /\ \A d \in Dims : s.acc[d] <= after.acc[d]
             /\ after.since = s.since /\ after.on = s.on /\ after.at = s.at
  <1> DEFINE elapsed == IF s.last = Never THEN 0 ELSE t - s.last
             total == [d \in Dims |-> s.acc[d] + rate[d] * elapsed]
  <1>1. elapsed \in Nat
    BY NeverAssumption, TimeAssumption DEF Status, Time
  <1>2. \A d \in Dims : s.acc[d] \in Nat /\ rate[d] * elapsed \in Nat
    BY <1>1, ProductType, RatesAssumption DEF Status, Usage
  <1>3. Accumulate(s, rate, t) = [s EXCEPT !.acc = total, !.last = t]
    BY DEF Accumulate, Status
  <1> HIDE DEF elapsed
  <1>4. \A d \in Dims : s.acc[d] <= total[d]
    BY <1>2
  <1> HIDE DEF total
  <1>5. LET u == [s EXCEPT !.acc = total, !.last = t]
        IN  u.acc = total /\ u.since = s.since /\ u.on = s.on /\ u.at = s.at
    BY DEF Status
  <1> QED
    BY <1>3, <1>4, <1>5

\* A condition whose transition time moves has changed (setCondition).
HonestChange(old, new) ==
    \A c \in Conditions : old.at[c] # Never /\ new.at[c] # old.at[c] => new.on[c] # old.on[c]

\* What setCondition sets, and that it sets nothing else.
LEMMA ConditionFields ==
  ASSUME NEW u \in Status, NEW c \in Conditions, NEW on \in BOOLEAN, NEW t \in Time
  PROVE  LET v == setCondition(u, c, on, t)
         IN  /\ v.phase = u.phase /\ v.acc = u.acc /\ v.since = u.since
             /\ \A e \in Conditions : v.on[e] = IF e = c THEN on ELSE u.on[e]
             /\ \A e \in Conditions :
                   v.at[e] = IF e = c /\ (u.at[c] = Never \/ u.on[c] # on) THEN t ELSE u.at[e]
  BY DEF setCondition, Status

\* updateStatus sets the two conditions honestly and nothing else.
LEMMA ConditionsHonest ==
  ASSUME NEW s \in Status, NEW t \in Time
  PROVE  LET w == WithConditions(s, t)
         IN  /\ w.phase = s.phase /\ w.acc = s.acc /\ w.since = s.since
             /\ HonestChange(s, w)
  <1> DEFINE warned == setCondition(s, "UsageWarning", AtLeast(s.acc, 80), t)
             w == WithConditions(s, t)
  <1>1. /\ AtLeast(s.acc, 80) \in BOOLEAN /\ AtLeast(s.acc, 100) \in BOOLEAN
        /\ Conditions = {"UsageWarning", "BudgetExceeded"}
    BY DEF AtLeast, Conditions
  <1>2. warned \in Status
    BY <1>1, ConditionType
  <1>3. /\ warned.phase = s.phase /\ warned.acc = s.acc /\ warned.since = s.since
        /\ \A e \in Conditions : e # "UsageWarning" =>
              warned.on[e] = s.on[e] /\ warned.at[e] = s.at[e]
        /\ HonestChange(s, warned)
    BY <1>1, ConditionFields DEF HonestChange
  <1>4. w = setCondition(warned, "BudgetExceeded", AtLeast(s.acc, 100), t)
    BY DEF WithConditions
  <1> HIDE DEF warned, w
  <1>5. /\ w.phase = s.phase /\ w.acc = s.acc /\ w.since = s.since
        /\ \A e \in Conditions : e # "BudgetExceeded" =>
              w.on[e] = warned.on[e] /\ w.at[e] = warned.at[e]
        /\ HonestChange(warned, w)
    BY <1>1, <1>2, <1>3, <1>4, ConditionFields DEF HonestChange
  <1>6. HonestChange(s, w)
    BY <1>1, <1>3, <1>5 DEF HonestChange
  <1> QED
    BY <1>5, <1>6 DEF w

-----------------------------------------------------------------------------
(***************************************************************************)
(* One pass of a process that is alone.  Between its read and its update   *)
(* nobody else stores a status, so what it holds in memory is the stored   *)
(* status, apart from the start of a period, up to the accounting; and     *)
(* what it then computed from it, up to the update.                        *)
(***************************************************************************)

\* The status in memory before the accounting.
Read(p) ==
    /\ copy[p].on = status.on /\ copy[p].at = status.at
    /\ copy[p].since = status.since => copy[p].acc = status.acc
    /\ before[p] = status.phase

\* It is about to be reported: no new period has begun.
Rolling(p) ==
    /\ copy[p].since = status.since
    /\ Month(status.since) # Month(began[p])

\* The status in memory after the accounting.
Computed(p) ==
    /\ copy[p].phase = determinePhase(copy[p].acc)
    /\ copy[p].since = status.since => \A d \in Dims : status.acc[d] <= copy[p].acc[d]
    /\ HonestChange(status, copy[p])
    /\ before[p] = status.phase

SoloInv ==
    /\ status.phase \in {"none", determinePhase(status.acc)}
    /\ \A p \in Procs :
          /\ shown[p] = status
          /\ pc[p] \in {"create", "fill", "query"} => Read(p)
          /\ pc[p] \in {"create", "fill"} => Rolling(p)
          /\ pc[p] = "persist" => Computed(p)
          /\ pc[p] = "act" => copy[p] = status

\* What one step may do to the phase and the conditions that are stored.
SignalStep ==
    /\ status'.since = status.since => Rank[status'.phase] >= Rank[status.phase]
    /\ HonestChange(status, status')

\* A step that stores nothing signals nothing.
LEMMA NoSignal == ASSUME TypeOK, status' = status PROVE SignalStep
  <1>1. Rank[status.phase] \in Int
    BY DEF TypeOK, Status, PhaseNames, Rank
  <1> QED
    BY <1>1 DEF SignalStep, HonestChange

\* The status read at the start of a pass, and what a month boundary makes of it.
LEMMA FetchReads ==
  ASSUME Alone, TypeOK, SoloInv, NEW p \in Procs, NEW notice \in BOOLEAN, Fetch(p, notice)
  PROVE  /\ Read(p)' /\ (pc'[p] = "create" => Rolling(p)')
         /\ pc'[p] \in {"create", "query"}
  <1> DEFINE read == IF status.since = Never THEN [status EXCEPT !.since = now] ELSE status
             due == RolloverDue(read, now)
  <1>1. shown[p] = status /\ status \in Status
    BY DEF SoloInv, TypeOK
  <1>2. /\ read.on = status.on /\ read.at = status.at /\ read.acc = status.acc
        /\ read.since = IF status.since = Never THEN now ELSE status.since
    BY <1>1 DEF Status
  <1>3. due => read.since = status.since /\ status.since # now
                 /\ Month(status.since) # Month(now)
    BY <1>2 DEF RolloverDue
  <1>4. /\ began'[p] = now /\ before'[p] = status.phase /\ status' = status
        /\ pc'[p] \in {"create", "query"} /\ (pc'[p] = "create" => due)
        /\ copy'[p] = read \/ (due /\ copy'[p] = StartPeriod(read, now))
        /\ pc'[p] = "create" => copy'[p] = read
    BY <1>1 DEF Fetch, Goto, TypeOK
  <1> HIDE DEF read, due
  <1>5. StartPeriod(read, now).since = now /\ StartPeriod(read, now).on = read.on
          /\ StartPeriod(read, now).at = read.at
    BY <1>1 DEF StartPeriod, read, Status
  <1>6. Read(p)'
    BY <1>2, <1>3, <1>4, <1>5 DEF Read
  <1>7. pc'[p] = "create" => Rolling(p)'
    BY <1>3, <1>4 DEF Rolling
  <1> QED
    BY <1>4, <1>6, <1>7

\* SoloInv is inductive, and a step that starts in it signals honestly.
LEMMA SoloStep ==
  ASSUME Alone, TypeInv, SoloInv, [Next]_vars
  PROVE  SoloInv' /\ SignalStep
  <1> USE DEF TypeInv
  <1>0. \A p, q \in Procs : p = q
    BY DEF Alone
  \* A pass returns.
  <1>1. ASSUME NEW p \in Procs, Return(p), UNCHANGED status,
               shown' = shown \/ shown' = [shown EXCEPT ![p] = status]
        PROVE  SoloInv' /\ SignalStep
    <2>1. pc'[p] = "wait" /\ shown'[p] = status
      BY <1>1 DEF Return, Goto, TypeOK, SoloInv
    <2> QED
      BY <1>0, <1>1, <2>1, NoSignal DEF SoloInv
  <1>2. ASSUME NEW p \in Procs, NEW notice \in BOOLEAN, Fetch(p, notice)
        PROVE  SoloInv' /\ SignalStep
    <2>1. status' = status /\ shown' = shown
      BY <1>2 DEF Fetch
    <2>2. Read(p)' /\ (pc'[p] = "create" => Rolling(p)') /\ pc'[p] \in {"create", "query"}
      BY <1>2, FetchReads
    <2> QED
      BY <1>0, <2>1, <2>2, NoSignal DEF SoloInv
  <1>3. ASSUME NEW p \in Procs,
               \/ CreateReport(p) \/ CreateFails(p) \/ FillFails(p)
               \/ CreateAnswerLost(p) \/ FillAnswerLost(p)
        PROVE  SoloInv' /\ SignalStep
    <2>1. /\ UNCHANGED <<status, shown, copy, began, before>>
          /\ pc[p] \in {"create", "fill"} /\ pc'[p] \in {"fill", "query"}
      BY <1>3 DEF CreateReport, CreateFails, FillFails, CreateAnswerLost, FillAnswerLost,
                  Goto, TypeOK, local, world
    <2>2. Read(p)' /\ Rolling(p)'
      BY <2>1 DEF SoloInv, Read, Rolling
    <2> QED
      BY <1>0, <2>1, <2>2, NoSignal DEF SoloInv
  <1>4. ASSUME NEW p \in Procs, FillReport(p) PROVE SoloInv' /\ SignalStep
    <2>1. /\ UNCHANGED <<status, shown, began, before>>
          /\ pc[p] = "fill" /\ pc'[p] = "query"
          /\ copy'[p] = StartPeriod(copy[p], began[p])
      BY <1>4 DEF FillReport, Goto, TypeOK
    <2>2. /\ copy'[p].since = began[p] /\ copy'[p].on = copy[p].on
          /\ copy'[p].at = copy[p].at
      BY <2>1 DEF StartPeriod, TypeOK, Status
    <2>3. Read(p) /\ Rolling(p)
      BY <2>1 DEF SoloInv
    <2>4. Read(p)'
      BY <2>1, <2>2, <2>3 DEF Read, Rolling
    <2> QED
      BY <1>0, <2>1, <2>4, NoSignal DEF SoloInv
  <1>5. ASSUME NEW p \in Procs, NEW rate \in [Dims -> Rates], Account(p, rate)
        PROVE  SoloInv' /\ SignalStep
    <2> DEFINE after == Accumulate(copy[p], rate, now)
               set == [after EXCEPT !.phase = determinePhase(after.acc)]
               new == WithConditions(set, now)
    <2>1. UNCHANGED <<status, shown>> /\ pc[p] = "query"
      BY <1>5 DEF Account, world
    <2>2. \/ Return(p)
          \/ /\ Goto(p, "persist") /\ copy' = [copy EXCEPT ![p] = new]
             /\ UNCHANGED before
      BY <1>5 DEF Account
    <2>3. copy[p] \in Status /\ Past(copy[p]) /\ Read(p)
      BY <2>1 DEF TypeOK, NoFuture, SoloInv
    <2>4. /\ after \in Status
          /\ \A d \in Dims : copy[p].acc[d] <= after.acc[d]
          /\ after.since = copy[p].since /\ after.on = copy[p].on /\ after.at = copy[p].at
      BY <2>3, AccumulateType, AccumulateGrows DEF TypeOK, Past
    <2> HIDE DEF after
    <2>5. /\ set \in Status /\ set.phase = determinePhase(set.acc)
          /\ set.acc = after.acc /\ set.since = after.since /\ set.on = after.on
          /\ set.at = after.at
      BY <2>4, PhaseType DEF Status
    <2> HIDE DEF set
    <2>6. /\ new.phase = set.phase /\ new.acc = set.acc /\ new.since = set.since
          /\ HonestChange(set, new)
      BY <2>5, ConditionsHonest DEF TypeOK
    <2> HIDE DEF new
    <2>7. CASE Return(p)
      BY <1>1, <2>1, <2>7
    <2>8. CASE /\ Goto(p, "persist") /\ copy' = [copy EXCEPT ![p] = new]
               /\ UNCHANGED before
      <3>1. pc'[p] = "persist" /\ copy'[p] = new /\ before' = before
        BY <2>8 DEF Goto, TypeOK
      <3>2. HonestChange(status, new)
        BY <2>3, <2>4, <2>5, <2>6 DEF Read, HonestChange
      <3>3. new.since = status.since => \A d \in Dims : status.acc[d] <= new.acc[d]
        BY <2>3, <2>4, <2>5, <2>6 DEF Read
      <3>4. Computed(p)'
        BY <2>1, <2>3, <2>5, <2>6, <3>1, <3>2, <3>3 DEF Computed, Read
      <3> QED
        BY <1>0, <2>1, <3>1, <3>4, NoSignal DEF SoloInv
    <2> QED
      BY <2>2, <2>7, <2>8
  <1>6. ASSUME NEW p \in Procs, Persist(p) \/ PersistAnswerLost(p)
        PROVE  SoloInv' /\ SignalStep
    <2>1. /\ pc[p] = "persist" /\ status' = copy[p] /\ shown'[p] = copy[p]
          /\ \/ pc'[p] = "act" /\ copy' = copy
             \/ pc'[p] = "wait"
      BY <1>6 DEF Persist, PersistAnswerLost, Return, Goto, local, TypeOK, Alone
    <2>2. Computed(p) /\ copy[p] \in Status /\ status \in Status
      BY <2>1 DEF SoloInv, TypeOK
    <2>3. SoloInv'
      BY <1>0, <2>1, <2>2 DEF SoloInv, Computed
    <2>4. ASSUME copy[p].since = status.since
          PROVE  Rank[copy[p].phase] >= Rank[status.phase]
      <3>1. copy[p].acc \in Usage /\ status.acc \in Usage
        BY <2>2 DEF Status
      <3>2. Rank[determinePhase(status.acc)] <= Rank[copy[p].phase]
        BY <2>2, <2>4, <3>1, PhaseMonotone DEF Computed
      <3>3. \A f \in PhaseNames : Rank[f] \in Nat /\ Rank["none"] = 0
        BY DEF PhaseNames, Rank
      <3>4. status.phase \in {"none", determinePhase(status.acc)}
        BY DEF SoloInv
      <3>5. copy[p].phase \in PhaseNames /\ determinePhase(status.acc) \in PhaseNames
        BY <2>2, PhaseType DEF Status
      <3> QED
        BY <3>2, <3>3, <3>4, <3>5
    <2> QED
      BY <2>1, <2>2, <2>3, <2>4 DEF SignalStep, Computed
  <1>7. ASSUME NEW p \in Procs,
               Finish(p) \/ FinishUntold(p) \/ QueryFails(p) \/ PersistFails(p) \/ Crash(p)
        PROVE  SoloInv' /\ SignalStep
    BY <1>1, <1>7 DEF Finish, FinishUntold, QueryFails, PersistFails, Crash, world
  <1>8. ASSUME NEW p \in Procs, CacheSync(p) PROVE SoloInv' /\ SignalStep
    BY <1>8 DEF CacheSync, Alone
  <1>9. CASE Tick \/ UNCHANGED vars
    <2>1. UNCHANGED <<status, shown, pc, copy, began, before>>
      BY <1>9 DEF Tick, vars, local
    <2>2. SoloInv'
      BY <2>1 DEF SoloInv, Read, Rolling, Computed
    <2> QED
      BY <2>1, <2>2, NoSignal
  <1> QED
    BY <1>2, <1>3, <1>4, <1>5, <1>6, <1>7, <1>8, <1>9
       DEF Next, ProcStep, Samples, FaultStep, AnswerLost

\* A process starts with what it has stored: nothing.
LEMMA SoloInitially == Init => SoloInv
  BY DEF Init, SoloInv, BlankStatus

\* With one process at a time, within a period the stored phase only climbs,
\* whatever the samples, the budgets, the length of the month and the failures:
\* enforcement is not withdrawn by a later sample (steps 5, 6 and 8).
THEOREM PhaseClimbs ==
  ASSUME Alone
  PROVE  Spec => PhaseOnlyClimbs
  <1>1. TypeInv /\ SoloInv /\ [Next]_vars => TypeInv' /\ SoloInv'
    BY BudgetTypeStep, SoloStep
  <1>2. TypeInv /\ SoloInv /\ [Next]_vars
          => [status'.since = status.since => Rank[status'.phase] >= Rank[status.phase]]_vars
    BY SoloStep DEF SignalStep
  <1> QED
    BY <1>1, <1>2, BudgetTypeInitially, SoloInitially, PTL DEF Spec, PhaseOnlyClimbs

\* With one process at a time, the transition time of a condition moves only when
\* the condition changes, also over crashes and failed updates (setCondition and
\* updateStatus).
THEOREM TransitionTimesMove ==
  ASSUME Alone
  PROVE  Spec => TransitionTimesHonest
  <1>1. TypeInv /\ SoloInv /\ [Next]_vars => TypeInv' /\ SoloInv'
    BY BudgetTypeStep, SoloStep
  <1>2. TypeInv /\ SoloInv /\ [Next]_vars
          => [\A c \in Conditions : status.at[c] # Never /\ status'.at[c] # status.at[c]
                => status'.on[c] # status.on[c]]_vars
    BY SoloStep DEF SignalStep, HonestChange
  <1> QED
    BY <1>1, <1>2, BudgetTypeInitially, SoloInitially, PTL DEF Spec, TransitionTimesHonest

-----------------------------------------------------------------------------
(***************************************************************************)
(* Slack.  A notice follows the update it is about with nothing stored in  *)
(* between, so the last notice is the phase that the update replaced, and  *)
(* otherwise the phase that is stored.  What separates the two breaks the  *)
(* argument, and the change of phase is then never told: a crash, a failed *)
(* message, or the lost answer to an update that the server applied.       *)
(***************************************************************************)
NoticeInv ==
    /\ sent.repeat = FALSE
    /\ Webhook => \A p \in Procs : pc[p] = "act" => sent.phase = before[p]
    /\ Webhook /\ (\A p \in Procs : pc[p] # "act") => sent.phase = status.phase

\* What fails is a request that the server did not apply: no process, message or
\* answer is lost.
Acknowledged == FaultKinds \cap {"answer", "slack", "crash"} = {}

\* NoticeInv is inductive while every stored status is followed by its notice.
LEMMA NoticeStep ==
  ASSUME Alone, Acknowledged, TypeInv, SoloInv, NoticeInv, [Next]_vars
  PROVE  NoticeInv'
  <1> USE DEF TypeInv
  <1>0. \A p, q \in Procs : p = q
    BY DEF Alone
  \* Nothing is stored or told.
  <1>1. ASSUME NEW p \in Procs, pc[p] # "act", pc'[p] # "act", UNCHANGED <<status, sent>>
        PROVE  NoticeInv'
    BY <1>0, <1>1 DEF NoticeInv
  <1>2. ASSUME NEW p \in Procs, NEW notice \in BOOLEAN, Fetch(p, notice) PROVE NoticeInv'
    <2>1. pc[p] = "wait" /\ UNCHANGED <<status, sent>> /\ pc'[p] \in {"create", "query"}
      BY <1>2 DEF Fetch, Goto, TypeOK, world
    <2> QED
      BY <1>1, <2>1
  <1>3. ASSUME NEW p \in Procs,
               CreateReport(p) \/ CreateFails(p) \/ FillReport(p) \/ FillFails(p)
        PROVE  NoticeInv'
    <2>1. /\ pc[p] \in {"create", "fill"} /\ pc'[p] \in {"fill", "query"}
          /\ UNCHANGED <<status, sent>>
      BY <1>3 DEF CreateReport, CreateFails, FillReport, FillFails, Goto, TypeOK, world
    <2> QED
      BY <1>1, <2>1
  <1>4. ASSUME NEW p \in Procs, NEW rate \in [Dims -> Rates], Account(p, rate)
        PROVE  NoticeInv'
    <2>1. /\ pc[p] = "query" /\ UNCHANGED <<status, sent>>
          /\ Return(p) \/ Goto(p, "persist")
      BY <1>4 DEF Account, world
    <2>2. pc'[p] \in {"wait", "persist"}
      BY <2>1 DEF Return, Goto, TypeOK
    <2> QED
      BY <1>1, <2>1, <2>2
  <1>5. ASSUME NEW p \in Procs, QueryFails(p) \/ PersistFails(p) PROVE NoticeInv'
    <2>1. /\ pc[p] \in {"query", "persist"} /\ UNCHANGED <<status, sent>>
          /\ pc'[p] = "wait"
      BY <1>5 DEF QueryFails, PersistFails, Return, Goto, TypeOK, world
    <2> QED
      BY <1>1, <2>1
  <1>6. ASSUME NEW p \in Procs, Persist(p) PROVE NoticeInv'
    <2>1. /\ pc[p] = "persist" /\ pc'[p] = "act" /\ UNCHANGED <<sent, before>>
      BY <1>6 DEF Persist, Goto, TypeOK, local
    <2>2. before[p] = status.phase
      BY <2>1 DEF SoloInv, Computed
    <2>3. Webhook => sent.phase = status.phase
      BY <1>0, <2>1 DEF NoticeInv
    <2> QED
      BY <1>0, <2>1, <2>2, <2>3 DEF NoticeInv
  <1>7. ASSUME NEW p \in Procs, Finish(p) PROVE NoticeInv'
    <2>1. /\ pc[p] = "act" /\ pc'[p] = "wait" /\ status' = status
          /\ sent' = IF Webhook /\ before[p] # copy[p].phase THEN Notice(copy[p].phase)
                                                             ELSE sent
      BY <1>7 DEF Finish, Return, Goto, TypeOK
    <2>2. copy[p].phase = status.phase
      BY <2>1 DEF SoloInv
    <2>3. Webhook => sent.phase = before[p]
      BY <2>1 DEF NoticeInv
    <2>4. Webhook => sent'.phase = status.phase
      BY <2>1, <2>2, <2>3 DEF Notice
    <2>5. sent'.repeat = FALSE
      BY <2>1, <2>3 DEF Notice, NoticeInv
    <2> QED
      BY <1>0, <2>1, <2>4, <2>5 DEF NoticeInv
  <1>8. ASSUME NEW p \in Procs, AnswerLost(p) \/ FinishUntold(p) \/ Crash(p) \/ CacheSync(p)
        PROVE  NoticeInv'
    BY <1>8 DEF AnswerLost, CreateAnswerLost, FillAnswerLost, PersistAnswerLost,
                FinishUntold, Crash, CacheSync, Alone, Acknowledged
  <1>9. CASE Tick \/ UNCHANGED vars
    BY <1>9 DEF Tick, vars, local, NoticeInv
  <1> QED
    BY <1>2, <1>3, <1>4, <1>5, <1>6, <1>7, <1>8, <1>9 DEF Next, ProcStep, Samples, FaultStep

\* NoticeInv and what it rests on hold in every reachable state.
LEMMA NoticeAlways ==
  ASSUME Alone, Acknowledged
  PROVE  Spec => []NoticeInv
  <1>1. Init => NoticeInv
    BY DEF Init, NoticeInv, BlankStatus
  <1>2. TypeInv /\ SoloInv /\ NoticeInv /\ [Next]_vars => TypeInv' /\ SoloInv' /\ NoticeInv'
    BY BudgetTypeStep, SoloStep, NoticeStep
  <1> QED
    BY <1>1, <1>2, BudgetTypeInitially, SoloInitially, PTL DEF Spec

\* A single process never tells Slack the same phase twice in a row, whatever queries,
\* creations and updates the server does not carry out (step 11).  Without the
\* assumption it fails: a status that is stored and not told, because the update's
\* answer, the message or the process is lost, lets a later pass go back to the
\* phase told before.
THEOREM NoticesDiffer ==
  ASSUME Alone, Acknowledged
  PROVE  Spec => []NoRepeatedNotice
  <1>1. NoticeInv => NoRepeatedNotice
    BY DEF NoticeInv, NoRepeatedNotice
  <1> QED
    BY <1>1, NoticeAlways, PTL

\* Nor does it, under the same assumption, swallow a change of phase: between passes
\* Slack has been told the phase that is stored (steps 8 and 11).
THEOREM NoticesKeepUp ==
  ASSUME Alone, Acknowledged
  PROVE  Spec => []NoticeInStep
  <1>1. NoticeInv => NoticeInStep
    BY DEF NoticeInv, NoticeInStep
  <1> QED
    BY <1>1, NoticeAlways, PTL

-----------------------------------------------------------------------------
(***************************************************************************)
(* The month boundary.  The existence of a report counts as its success,   *)
(* so the argument is that outside the one call that fills it no report is *)
(* empty, and that the month before the present one has a report at all    *)
(* when a period is found to be from another month.                        *)
(***************************************************************************)

\* Months pass with the days.
LEMMA MonthMonotone ==
  /\ \A t \in Time : Month(t) \in Nat
  /\ \A s, t \in Time : s <= t => Month(s) <= Month(t)
  BY TimeAssumption DEF Month, Time

\* The month before the one of day t is one that may have a report, unless it is the
\* first; so it is if an earlier day is of another month.
LEMMA MonthBefore ==
  ASSUME NEW s \in Time, NEW t \in Time, s <= t, Month(s) # Month(t)
  PROVE  Month(t) - 1 \in Months
  <1>1. Month(s) \in Nat /\ Month(t) \in Nat /\ Month(s) <= Month(t)
    BY MonthMonotone
  <1>2. MaxTime \in Time /\ t <= MaxTime
    BY TimeAssumption DEF Time
  <1>3. Month(MaxTime) \in Nat /\ Month(t) <= Month(MaxTime)
    BY <1>2, MonthMonotone
  <1> QED
    BY <1>1, <1>3 DEF Months

\* The report of the month before day t has its contents.
ReportedBefore(t) == Month(t) - 1 \in Months /\ reports[Month(t) - 1].state = "full"

ResetInv ==
    /\ status.since = Never \/ status.since <= now
    /\ \A p \in Procs :
          /\ began[p] <= now
          /\ copy[p].since = Never \/ copy[p].since <= now
          /\ pc[p] \in {"create", "fill"} => /\ status.since # Never
                                             /\ status.since <= began[p]
          /\ /\ pc[p] \in {"query", "persist"}
             /\ status.since # Never /\ copy[p].since # status.since
             => ReportedBefore(copy[p].since)
    /\ \A m \in Months : reports[m].state = "empty" =>
          \E p \in Procs : pc[p] = "fill" /\ Target(p) = m

\* No report stays empty: contents once begun are written, by a process that does not
\* crash and learns that its Create was applied.
Filled == FaultKinds \cap {"fill", "answer", "crash"} = {}

\* ResetInv is inductive while no report stays empty.
LEMMA ResetStep ==
  ASSUME Alone, Filled, TypeInv, SoloInv, ResetInv, [Next]_vars
  PROVE  ResetInv'
  <1> USE DEF TypeInv
  <1>0. \A p, q \in Procs : p = q
    BY DEF Alone
  <1>1. now \in Int /\ \A p \in Procs : began[p] \in Time /\ began[p] \in Int
    BY DEF TypeOK, Time
  \* A pass returns.
  <1>2. ASSUME NEW p \in Procs, Return(p), UNCHANGED <<now, status, reports>>, pc[p] # "fill"
        PROVE  ResetInv'
    <2>1. pc'[p] = "wait" /\ began'[p] = 0 /\ copy'[p] = BlankStatus
      BY <1>2 DEF Return, Goto, TypeOK
    <2>2. copy'[p].since = Never
      BY <2>1 DEF BlankStatus
    <2>3. 0 <= now
      BY DEF TypeOK, Time
    <2> QED
      BY <1>0, <1>2, <2>1, <2>2, <2>3 DEF ResetInv
  <1>3. ASSUME NEW p \in Procs, NEW notice \in BOOLEAN, Fetch(p, notice) PROVE ResetInv'
    <2> DEFINE read == IF status.since = Never THEN [status EXCEPT !.since = now] ELSE status
               due == RolloverDue(read, now)
    <2>1. shown[p] = status /\ status \in Status /\ now \in Time
      BY DEF SoloInv, TypeOK
    <2>2. read.since = IF status.since = Never THEN now ELSE status.since
      BY <2>1 DEF Status
    <2>3. /\ pc[p] = "wait" /\ began'[p] = now /\ UNCHANGED <<now, status, reports>>
          /\ pc'[p] \in {"create", "query"} /\ (pc'[p] = "create" => due)
          /\ \/ copy'[p] = read
             \/ /\ due /\ copy'[p] = StartPeriod(read, now)
                /\ reports[Month(now) - 1].state # "none"
      BY <1>3, <2>1 DEF Fetch, Goto, TypeOK, world
    <2>4. due => status.since # Never /\ Month(status.since) # Month(now)
      BY <2>2 DEF RolloverDue
    <2> HIDE DEF read, due
    <2>5. StartPeriod(read, now).since = now
      BY <2>1 DEF StartPeriod, read, Status
    <2>6. status.since = Never \/ (status.since \in Time /\ status.since <= now)
      BY <2>1 DEF Status, ResetInv
    <2>7. due => Month(now) - 1 \in Months
      BY <2>1, <2>4, <2>6, MonthBefore
    <2>8. \A m \in Months : reports[m].state # "empty"
      BY <1>0, <2>3 DEF ResetInv
    <2>9. due /\ reports[Month(now) - 1].state # "none" => ReportedBefore(now)
      BY <2>7, <2>8 DEF ReportedBefore, TypeOK, Report
    <2>10. copy'[p].since <= now /\ (copy'[p].since # read.since => ReportedBefore(now)
                                        /\ copy'[p].since = now)
      BY <1>1, <2>2, <2>3, <2>5, <2>6, <2>9
    <2>11. copy'[p].since # status.since /\ status.since # Never
             => ReportedBefore(copy'[p].since)
      BY <2>2, <2>10
    <2>12. ReportedBefore(copy'[p].since) => ReportedBefore(copy[p].since)'
      BY <2>3 DEF ReportedBefore
    <2> QED
      BY <1>0, <1>1, <2>3, <2>4, <2>6, <2>8, <2>10, <2>11, <2>12 DEF ResetInv
  <1>4. ASSUME NEW p \in Procs, CreateReport(p) PROVE ResetInv'
    <2>1. /\ pc[p] = "create" /\ pc'[p] = "fill"
          /\ UNCHANGED <<now, status, copy, began>>
          /\ reports' = [reports EXCEPT ![Target(p)].state = "empty"]
      BY <1>4 DEF CreateReport, Goto, TypeOK, local, Target
    <2>2. \A m \in Months : m # Target(p) => reports'[m] = reports[m]
      BY <2>1 DEF TypeOK
    <2>3. \A m \in Months : reports[m].state # "empty"
      BY <1>0, <2>1 DEF ResetInv
    <2>4. Target(p)' = Target(p)
      BY <2>1 DEF Target
    <2> QED
      BY <1>0, <2>1, <2>2, <2>3, <2>4 DEF ResetInv
  <1>5. ASSUME NEW p \in Procs, CreateFails(p) PROVE ResetInv'
    <2>1. /\ pc[p] = "create" /\ pc'[p] = "query"
          /\ UNCHANGED <<now, status, copy, began, reports>>
      BY <1>5 DEF CreateFails, Goto, TypeOK, local, world
    <2>2. copy[p].since = status.since
      BY <2>1 DEF SoloInv, Rolling
    <2> QED
      BY <1>0, <2>1, <2>2 DEF ResetInv
  <1>6. ASSUME NEW p \in Procs, FillReport(p) PROVE ResetInv'
    <2>1. /\ pc[p] = "fill" /\ pc'[p] = "query" /\ UNCHANGED <<now, status, began>>
          /\ copy'[p] = StartPeriod(copy[p], began[p])
          /\ reports' = [reports EXCEPT ![Target(p)] =
                           [state |-> "full", total |-> copy[p].acc]]
      BY <1>6 DEF FillReport, Goto, TypeOK, Target
    <2>2. copy'[p].since = began[p]
      BY <2>1 DEF StartPeriod, TypeOK, Status
    <2>3. /\ status.since # Never /\ status.since <= began[p]
          /\ Month(status.since) # Month(began[p])
      BY <2>1 DEF ResetInv, SoloInv, Rolling
    <2>4. status.since \in Time
      BY <2>3 DEF TypeOK, Status
    <2>5. Target(p) \in Months
      BY <1>1, <2>3, <2>4, MonthBefore DEF Target
    <2>6. /\ reports'[Target(p)].state = "full"
          /\ \A m \in Months : m # Target(p) => reports'[m] = reports[m]
      BY <2>1, <2>5 DEF TypeOK
    <2>7. ReportedBefore(copy[p].since)'
      BY <2>2, <2>5, <2>6 DEF ReportedBefore, Target
    <2>8. \A m \in Months : reports'[m].state # "empty"
      BY <1>0, <2>1, <2>6 DEF ResetInv
    <2> QED
      BY <1>0, <2>1, <2>2, <2>3, <2>7, <2>8 DEF ResetInv
  <1>7. ASSUME NEW p \in Procs, NEW rate \in [Dims -> Rates], Account(p, rate)
        PROVE  ResetInv'
    <2> DEFINE after == Accumulate(copy[p], rate, now)
               set == [after EXCEPT !.phase = determinePhase(after.acc)]
               new == WithConditions(set, now)
    <2>1. UNCHANGED <<now, status, reports>> /\ pc[p] = "query"
      BY <1>7 DEF Account, world
    <2>2. \/ Return(p)
          \/ /\ Goto(p, "persist") /\ copy' = [copy EXCEPT ![p] = new]
             /\ UNCHANGED began
      BY <1>7 DEF Account
    <2>3. copy[p] \in Status /\ Past(copy[p])
      BY DEF TypeOK, NoFuture
    <2>4. after \in Status /\ after.since = copy[p].since
      BY <2>3, AccumulateType, AccumulateGrows DEF TypeOK, Past
    <2> HIDE DEF after
    <2>5. set \in Status /\ set.since = after.since
      BY <2>4, PhaseType DEF Status
    <2> HIDE DEF set
    <2>6. new.since = copy[p].since
      BY <2>4, <2>5, ConditionsHonest DEF TypeOK
    <2> HIDE DEF new
    <2>7. CASE Return(p)
      BY <1>2, <2>1, <2>7
    <2>8. CASE /\ Goto(p, "persist") /\ copy' = [copy EXCEPT ![p] = new]
               /\ UNCHANGED began
      <3>1. pc'[p] = "persist" /\ copy'[p].since = copy[p].since /\ began' = began
        BY <2>6, <2>8 DEF Goto, TypeOK
      <3>2. ReportedBefore(copy[p].since) => ReportedBefore(copy[p].since)'
        BY <2>1, <3>1 DEF ReportedBefore
      <3> QED
        BY <1>0, <2>1, <3>1, <3>2 DEF ResetInv
    <2> QED
      BY <2>2, <2>7, <2>8
  <1>8. ASSUME NEW p \in Procs, Persist(p) PROVE ResetInv'
    <2>1. /\ pc[p] = "persist" /\ pc'[p] = "act" /\ status' = copy[p]
          /\ UNCHANGED <<now, copy, began, reports>>
      BY <1>8 DEF Persist, Goto, local, TypeOK
    <2> QED
      BY <1>0, <2>1 DEF ResetInv
  <1>9. ASSUME NEW p \in Procs,
               Finish(p) \/ FinishUntold(p) \/ QueryFails(p) \/ PersistFails(p)
        PROVE  ResetInv'
    <2>1. Return(p) /\ UNCHANGED <<now, status, reports>> /\ pc[p] # "fill"
      BY <1>9 DEF Finish, FinishUntold, QueryFails, PersistFails, world
    <2> QED
      BY <1>2, <2>1
  <1>10. ASSUME NEW p \in Procs, Crash(p) \/ FillFails(p) \/ AnswerLost(p) \/ CacheSync(p)
         PROVE  ResetInv'
    BY <1>10 DEF Crash, FillFails, AnswerLost, CreateAnswerLost, FillAnswerLost,
                 PersistAnswerLost, CacheSync, Alone, Filled
  <1>11. CASE Tick
    <2>1. now' = now + 1 /\ UNCHANGED <<status, reports, pc, copy, began>>
      BY <1>11 DEF Tick, local
    <2>2. \A t \in Time \cup {Never} : t = Never \/ t <= now => t = Never \/ t <= now'
      BY <1>1, <2>1 DEF Time
    <2>3. status.since \in Time \cup {Never}
            /\ \A p \in Procs : copy[p].since \in Time \cup {Never}
      BY DEF TypeOK, Status
    <2>4. \A p \in Procs : began[p] <= now'
      BY <1>1, <2>1 DEF ResetInv
    <2>5. \A p \in Procs : (copy[p].since = Never \/ copy[p].since <= now') /\
             (ReportedBefore(copy[p].since) => ReportedBefore(copy[p].since)')
      BY <2>1, <2>2, <2>3 DEF ResetInv, ReportedBefore
    <2>6. status.since = Never \/ status.since <= now'
      BY <2>2, <2>3 DEF ResetInv
    <2> QED
      BY <2>1, <2>4, <2>5, <2>6 DEF ResetInv, Target
  <1>12. CASE UNCHANGED vars
    BY <1>12 DEF vars, ResetInv, ReportedBefore, Target
  <1> QED
    BY <1>3, <1>4, <1>5, <1>6, <1>7, <1>8, <1>9, <1>10, <1>11, <1>12
       DEF Next, ProcStep, Samples, FaultStep

\* A single process that leaves no report empty drops the running total only when the
\* report of the month before has its contents, for every length of month, with passes
\* that last over midnight and with queries, creations, updates and messages failing
\* (the month boundary and Generate).
THEOREM ResetsFollowReports ==
  ASSUME Alone, Filled
  PROVE  Spec => ResetOnlyAfterReport
  <1>1. Init => ResetInv
    BY TimeAssumption DEF Init, ResetInv, BlankStatus, Time
  <1>2. TypeInv /\ SoloInv /\ ResetInv /\ [Next]_vars => TypeInv' /\ SoloInv' /\ ResetInv'
    BY BudgetTypeStep, SoloStep, ResetStep
  <1>3. TypeInv /\ SoloInv /\ ResetInv /\ [Next]_vars
          => [status.since # Never /\ status'.since # status.since
                => reports[Month(status'.since) - 1].state = "full"]_vars
    <2> SUFFICES ASSUME TypeInv, ResetInv, Next, status.since # Never,
                        status'.since # status.since
                 PROVE  reports[Month(status'.since) - 1].state = "full"
      OBVIOUS
    <2>1. PICK p \in Procs : Persist(p)
      BY DEF Next, ProcStep, FaultStep, Fetch, CreateReport, CreateFails, FillReport,
             Account, Finish, FinishUntold, FillFails, QueryFails, PersistFails, AnswerLost,
             CreateAnswerLost, FillAnswerLost, PersistAnswerLost, Crash, CacheSync, Tick,
             Samples, Filled
    <2> QED
      BY <2>1 DEF Persist, ResetInv, ReportedBefore
  <1> QED
    BY <1>1, <1>2, <1>3, BudgetTypeInitially, SoloInitially, PTL
       DEF Spec, ResetOnlyAfterReport
=============================================================================
