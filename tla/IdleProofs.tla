----------------------------- MODULE IdleProofs -----------------------------
(***************************************************************************)
(* The idle list, for any Deployments, pods, samples and thresholds: what  *)
(* it says is true of the pods of the workload itself, if no other kind of *)
(* workload has pods with such names, and of the times since when.  And    *)
(* the shares of a report, for any number of pods and points.              *)
(***************************************************************************)
EXTENDS CostReport, SumProofs

-----------------------------------------------------------------------------
(***************************************************************************)
(* Names.                                                                  *)
(***************************************************************************)

\* A whole sequence is its longest part.
LEMMA WholePart ==
    ASSUME NEW A, NEW s \in Seq(A)
    PROVE  SubSeq(s, 1, Len(s)) = s
OBVIOUS

\* Stripping the two generated parts gives back the Deployment's name.
LEMMA OwnNameRecovered ==
    ASSUME NEW p \in Pods, Owner[p] # Foreign
    PROVE  PodToDeployment(p) = Owner[p]
<1> DEFINE d == Owner[p]
<1>1. d \in Deployments /\ d \in Seq(STRING) /\ d # <<>> /\ p \in Seq(STRING)
  BY NamesAssumption
<1>2. Len(p) = Len(d) + 2 /\ SubSeq(d, 1, Len(d)) = SubSeq(p, 1, Len(d))
  BY GeneratedNamesAssumption DEF NamedAfter, IsPrefix
<1>3. SubSeq(d, 1, Len(d)) = d /\ Len(d) \in Nat /\ Len(d) # 0
  BY <1>1, WholePart
<1>4. ~(Len(p) <= 2) /\ Len(p) - 2 = Len(d)
  BY <1>2, <1>3
<1> QED
  BY <1>2, <1>3, <1>4 DEF PodToDeployment

\* The heuristic does not attribute a pod to a Deployment with a similar name that it
\* does not belong to; nor one of another kind, if its name is none of a Deployment's.
LEMMA Attribution ==
    ASSUME ForeignNamesApart, NEW p \in Pods, NEW d \in Deployments
    PROVE  PodToDeployment(p) = d <=> Owner[p] = d
<1>1. CASE Owner[p] # Foreign
  BY <1>1, OwnNameRecovered
<1>2. CASE Owner[p] = Foreign
  <2>1. SUFFICES ASSUME PodToDeployment(p) = d PROVE FALSE
    BY <1>2, NamesAssumption
  <2>2. p # d /\ ~NamedAfter(p, d)
    BY <1>2 DEF ForeignNamesApart
  <2>3. p \in Seq(STRING) /\ d \in Seq(STRING)
    BY NamesAssumption
  <2>4. ~(Len(p) <= 2) /\ d = SubSeq(p, 1, Len(p) - 2)
    BY <2>1, <2>2 DEF PodToDeployment
  <2>5. Len(p) \in Nat /\ Len(d) = Len(p) - 2
    BY <2>3, <2>4
  <2>6. SubSeq(d, 1, Len(d)) = SubSeq(p, 1, Len(d))
    BY <2>3, <2>4, <2>5, WholePart
  <2> QED
    BY <2>2, <2>5, <2>6 DEF NamedAfter, IsPrefix
<1> QED
  BY <1>1, <1>2

\* So the pods that count towards a Deployment are its own.
LEMMA CountedAreOwn ==
    ASSUME ForeignNamesApart, NEW d \in Deployments
    PROVE  CountedPods(d) = {p \in Answered : Owner[p] = d}
<1>1. Answered \subseteq Pods
  BY DEF Answered
<1> QED
  BY <1>1, Attribution DEF CountedPods

-----------------------------------------------------------------------------
(***************************************************************************)
(* Means.                                                                  *)
(***************************************************************************)

\* SumFunction is the recursive sum of SumProofs.
LEMMA SumFunctionSums ==
    ASSUME NEW f, IsFiniteSet(DOMAIN f)
    PROVE  \E g : Sums(g, f, DOMAIN f) /\ SumFunction(f) = g[DOMAIN f]
<1> DEFINE g == CHOOSE h : Sums(h, f, DOMAIN f)
<1>1. Sums(g, f, DOMAIN f)
  BY SumsExist
<1>2. SumFunction(f) = g[DOMAIN f]
  BY DEF SumFunction, SumFunctionOnSet, FoldFunctionOnSet, MapThenFoldSet, Sums, Picked
<1> HIDE DEF g
<1> QED
  BY <1>1, <1>2

\* Readings can be counted and added up, and there are no more of them than points.
LEMMA ReadingFacts ==
    ASSUME TypeOK, NEW p \in Pods
    PROVE  /\ SumFunction(Readings(p)) \in Nat
           /\ Count(Readings(p)) \in 0..MaxSamples
           /\ p \in Answered => Count(Readings(p)) # 0
<1> DEFINE points == samples[p]
           read == {i \in DOMAIN points : points[i] # Unreadable}
<1>1. points \in Seq(Nat \cup {Unreadable}) /\ Len(points) <= MaxSamples
  BY BoundsAssumption DEF TypeOK
<1>2. Readings(p) = [i \in read |-> points[i]]
  BY DEF Readings, RestrictValues, Restrict
<1>3. /\ DOMAIN points = 1..Len(points) /\ Len(points) \in Nat
      /\ IsFiniteSet(DOMAIN points) /\ Cardinality(DOMAIN points) = Len(points)
  <2>1. DOMAIN points = 1..Len(points) /\ Len(points) \in Nat
    BY <1>1
  <2>2. \A n \in Nat : IsFiniteSet(1..n) /\ Cardinality(1..n) = n
    BY FS_Interval
  <2> QED
    BY <2>1, <2>2
<1>4. read \subseteq DOMAIN points
  OBVIOUS
<1>5. IsFiniteSet(read) /\ Cardinality(read) <= Len(points)
  BY <1>3, <1>4, FS_Subset
<1>6. \A i \in read : Readings(p)[i] \in Nat
  BY <1>1, <1>2
<1>7. DOMAIN Readings(p) = read
  BY <1>2
<1> HIDE DEF read, points
<1>8. SumFunction(Readings(p)) \in Nat
  <2>1. PICK g : Sums(g, Readings(p), read) /\ SumFunction(Readings(p)) = g[read]
    BY <1>5, <1>7, SumFunctionSums
  <2>2. PICK Kind : Kind = Nat
    OBVIOUS
  <2>3. \A T \in SUBSET read : g[T] \in Kind
    BY <1>5, <1>6, <2>1, <2>2, SumType, Zenon
  <2> QED
    BY <2>1, <2>2, <2>3
<1>9. Count(Readings(p)) \in Nat /\ Count(Readings(p)) <= Len(points)
  BY <1>5, <1>7, FS_CardinalityType DEF Count
<1>10. p \in Answered => Count(Readings(p)) # 0
  BY <1>5, <1>7, FS_EmptySet DEF Count, Answered
<1> QED
  BY <1>1, <1>3, <1>8, <1>9, <1>10, UnitAssumption

\* The mean of a pod in the answer is a number.
LEMMA MeanType ==
    ASSUME TypeOK, NEW p \in Answered
    PROVE  averageByPod(p) \in Nat
<1>1. p \in Pods
  BY DEF Answered
<1>2. SumFunction(Readings(p)) \in Nat /\ Count(Readings(p)) \in Nat \ {0}
  BY <1>1, ReadingFacts
<1>3. \A a, b \in Nat, n \in Nat \ {0} : (a * b) \div n \in Nat
  OBVIOUS
<1> QED
  BY <1>2, <1>3, UnitAssumption DEF averageByPod

\* So is the sum over pods that DetectIdle compares with the threshold.
LEMMA MeansSum ==
    ASSUME NEW S, IsFiniteSet(S)
    PROVE  \E g : /\ Sums(g, [p \in S |-> averageByPod(p)], S)
                  /\ MapThenSumSet(LAMBDA pod : averageByPod(pod), S) = g[S]
<1> DEFINE Body(h) == [s \in SUBSET S |-> IF s = {} THEN 0
                                          ELSE averageByPod(Picked(s)) + h[s \ {Picked(s)}]]
           f == [p \in S |-> averageByPod(p)]
           g == CHOOSE h : h = Body(h)
<1>1. ASSUME NEW h PROVE Sums(h, f, S) <=> h = Body(h)
  <2>1. \A s \in SUBSET S : s # {} => Picked(s) \in S
    BY DEF Picked
  <2>2. \A s \in SUBSET S : s # {} => f[Picked(s)] = averageByPod(Picked(s))
    BY <2>1
  <2> HIDE DEF f
  <2>3. [s \in SUBSET S |-> IF s = {} THEN 0 ELSE f[Picked(s)] + h[s \ {Picked(s)}]]
          = Body(h)
    BY <2>2
  <2> QED
    BY <2>3 DEF Sums
<1>2. MapThenSumSet(LAMBDA pod : averageByPod(pod), S) = g[S]
  BY DEF MapThenSumSet, MapThenFoldSet, Picked
<1> HIDE DEF Body, f
<1>3. g = Body(g)
  BY <1>1, SumsExist
<1> HIDE DEF g
<1>4. Sums(g, f, S)
  BY <1>1, <1>3
<1> QED
  BY <1>2, <1>4 DEF f

\* A Deployment below the threshold has a pod below it, and one that is not has a
\* pod that is not, if it has any: the mean of means is between them.
LEMMA MeanOfMeans ==
    ASSUME ForeignNamesApart, TypeOK, NEW d \in Deployments
    PROVE  /\ BelowThreshold(d) => SomePodBelow(d)
           /\ ~BelowThreshold(d) => SomePodNotBelow(d) \/ ~SomePodBelow(d)
<1> DEFINE S == CountedPods(d)
           f == [p \in S |-> averageByPod(p)]
           c == Threshold * Unit
<1>1. S = {p \in Answered : Owner[p] = d}
  BY CountedAreOwn
<1>2. IsFiniteSet(S)
  BY <1>1, FS_Subset, NamesAssumption DEF Answered
<1>3. \A p \in S : f[p] = averageByPod(p) /\ f[p] \in Int
  BY <1>1, MeanType
<1>4. c \in Int
  BY UnitAssumption, BoundsAssumption
<1> HIDE DEF S
<1>5. PICK g : /\ Sums(g, f, S)
               /\ MapThenSumSet(LAMBDA pod : averageByPod(pod), S) = g[S]
  BY <1>2, MeansSum
<1>6. BelowThreshold(d) <=> S # {} /\ g[S] < c * Cardinality(S)
  BY <1>5 DEF BelowThreshold, S
<1>7. g[S] \in Int /\ c * Cardinality(S) \in Int
  <2>1. Cardinality(S) \in Nat
    BY <1>2, FS_CardinalityType
  <2>2. g[S] \in Int
    BY <1>2, <1>3, <1>5, SumType
  <2> QED
    BY <1>4, <2>1, <2>2
<1>8. /\ (\A x \in S : f[x] >= c) => g[S] >= c * Cardinality(S)
      /\ (\A x \in S : f[x] < c) /\ S # {} => g[S] < c * Cardinality(S)
  <2> HIDE DEF f, c
  <2> QED
    BY <1>2, <1>3, <1>4, <1>5, MeanBounds
<1>9. ASSUME BelowThreshold(d) PROVE SomePodBelow(d)
  <2>1. \E p \in S : ~(f[p] >= c)
    BY <1>6, <1>7, <1>8, <1>9
  <2> QED
    BY <1>1, <1>3, <1>4, <2>1 DEF SomePodBelow
<1>10. ASSUME ~BelowThreshold(d), SomePodBelow(d) PROVE SomePodNotBelow(d)
  <2>1. S # {}
    BY <1>1, <1>10 DEF SomePodBelow
  <2>2. \E p \in S : ~(f[p] < c)
    BY <1>6, <1>8, <1>10, <2>1
  <2> QED
    BY <1>1, <1>3, <1>4, <2>2 DEF SomePodNotBelow
<1> QED
  BY <1>9, <1>10

-----------------------------------------------------------------------------
(***************************************************************************)
(* The list.                                                               *)
(***************************************************************************)

\* A detection was at a past pass, and so was the last one that found the workload
\* busy: with this, IdleSinceHonest is inductive.
IdleInv ==
    /\ TypeOK
    /\ IdleSinceHonest
    /\ \A d \in Deployments : busy[d] < now

\* The state before the first pass satisfies it.
LEMMA IdleInitially ==
    ASSUME Init
    PROVE  IdleInv
BY BoundsAssumption DEF Init, IdleInv, TypeOK, IdleSinceHonest, Times

\* A listed workload either kept its time or got the start of the pass's window.
LEMMA ListedTimes ==
    ASSUME NEW found, NEW previous, NEW d \in Deployments
    PROVE  LET list == toIdleWorkloadStatus(found, previous)
           IN  /\ d \notin found => list[d] = NotListed
               /\ d \in found => \/ previous[d] # NotListed /\ list[d] = previous[d]
                                 \/ previous[d] = NotListed /\ list[d] = now - Window
BY DEF toIdleWorkloadStatus

\* Every pass and every change of the namespace preserves it.
LEMMA IdleStep ==
    ASSUME IdleInv, [Next]_vars
    PROVE  IdleInv'
<1>0. TypeOK /\ IdleSinceHonest /\ (\A d \in Deployments : busy[d] < now)
  BY DEF IdleInv
<1>1. CASE PassDetects
  <2> DEFINE found == DetectIdle \ Exempt
  <2>1. /\ now \in 0..MaxPasses /\ now < MaxPasses /\ now' = now + 1
        /\ idle' = toIdleWorkloadStatus(found, idle)
        /\ busy' = [d \in Deployments |-> IF d \in found THEN busy[d] ELSE now]
        /\ exist' = exist /\ samples' = samples
    BY <1>0, <1>1 DEF PassDetects, PassOver, TypeOK
  <2> HIDE DEF found
  <2>2. ASSUME NEW d \in Deployments
        PROVE  /\ idle'[d] \in Times \cup {NotListed} /\ busy'[d] \in Times
               /\ busy'[d] < now'
               /\ idle'[d] # NotListed =>
                    busy'[d] < idle'[d] + Window /\ idle'[d] + Window < now'
    <3>1. idle[d] \in Times \cup {NotListed} /\ busy[d] \in Times /\ busy[d] < now
      BY <1>0 DEF TypeOK
    <3>2. idle[d] # NotListed => busy[d] < idle[d] + Window /\ idle[d] + Window < now
      BY <1>0 DEF IdleSinceHonest
    <3>3. CASE d \in found
      <4>1. busy'[d] = busy[d]
        BY <2>1, <3>3
      <4>2. CASE idle[d] # NotListed
        BY <2>1, <3>1, <3>2, <3>3, <4>1, <4>2, ListedTimes, BoundsAssumption DEF Times
      <4>3. CASE idle[d] = NotListed
        <5>1. idle'[d] = now - Window
          BY <2>1, <3>3, <4>3, ListedTimes
        <5> QED
          BY <2>1, <3>1, <4>1, <5>1, BoundsAssumption DEF Times
      <4> QED
        BY <4>2, <4>3
    <3>4. CASE d \notin found
      <4>1. idle'[d] = NotListed /\ busy'[d] = now
        BY <2>1, <3>4, ListedTimes
      <4> QED
        BY <2>1, <4>1, BoundsAssumption DEF Times
    <3> QED
      BY <3>3, <3>4
  <2>3. idle' \in [Deployments -> Times \cup {NotListed}]
    BY <2>1, <2>2 DEF toIdleWorkloadStatus
  <2>4. busy' \in [Deployments -> Times]
    BY <2>1, <2>2
  <2>5. TypeOK'
    BY <1>0, <2>1, <2>3, <2>4, BoundsAssumption DEF TypeOK
  <2> QED
    BY <2>2, <2>5 DEF IdleInv, IdleSinceHonest
<1>2. CASE PassKeepsList
  BY <1>0, <1>2, BoundsAssumption
     DEF PassKeepsList, PassOver, IdleInv, TypeOK, IdleSinceHonest, Times
<1>3. ASSUME NEW pod \in Pods, NEW observed \in Observable[pod], UsageChanges(pod, observed)
      PROVE  IdleInv'
  BY <1>0, <1>3 DEF UsageChanges, IdleInv, TypeOK, IdleSinceHonest
<1>4. ASSUME NEW d \in Deployments, UserCreates(d) \/ UserDeletes(d)
      PROVE  IdleInv'
  BY <1>0, <1>4 DEF UserCreates, UserDeletes, IdleInv, TypeOK, IdleSinceHonest
<1>5. CASE UNCHANGED vars
  BY <1>0, <1>5 DEF vars, IdleInv, TypeOK, IdleSinceHonest
<1> QED
  BY <1>1, <1>2, <1>3, <1>4, <1>5 DEF Next

-----------------------------------------------------------------------------
(***************************************************************************)
(* Theorems.  The run follows ReportSpec, in which a report may also be    *)
(* generated; that does not touch the list.                                *)
(***************************************************************************)

\* Every behaviour with reports is one of the idle tracking.
LEMMA ReportsDoNotInterfere == ReportSpec => Spec
<1>1. ReportInit => Init
  BY DEF ReportInit
<1>2. [ReportNext]_reportVars => [Next]_vars
  BY DEF ReportNext, Generate, reportVars, vars
<1> QED
  BY <1>1, <1>2, PTL DEF ReportSpec, Spec

\* At every point of every behaviour the list is well typed and honest, and the last
\* detection that found a workload busy is over (Reconcile, step 7).
THEOREM IdleInvariant == ReportSpec => []IdleInv
<1>1. Spec => []IdleInv
  BY IdleInitially, IdleStep, PTL DEF Spec
<1> QED
  BY <1>1, ReportsDoNotInterfere, PTL

\* The status list is well typed: no time of an entry is in the future or before
\* the first window.
THEOREM IdleTypeCorrect == ReportSpec => []TypeOK
<1>1. IdleInv => TypeOK
  BY DEF IdleInv
<1> QED
  BY <1>1, IdleInvariant, PTL

\* idleSince is the start of the window of an earlier detection, and no detection
\* stored since found the workload busy (toIdleWorkloadStatus).
THEOREM IdleSinceIsHonest == ReportSpec => []IdleSinceHonest
<1>1. IdleInv => IdleSinceHonest
  BY DEF IdleInv
<1> QED
  BY <1>1, IdleInvariant, PTL

\* Only PassDetects changes what is listed.
LEMMA OnlyDetectionLists ==
    ASSUME [Next]_vars, idle' # idle \/ busy' # busy
    PROVE  PassDetects
BY DEF Next, PassKeepsList, UsageChanges, UserCreates, UserDeletes, vars

\* However Deployments are named and their pods are loaded, a Deployment gets on the
\* list only if one of its own pods is below the threshold, as long as no other kind of
\* workload has a pod named like one of a Deployment (DetectIdle, PodToDeployment).
THEOREM ListedOnOwnEvidence ==
    ASSUME ForeignNamesApart
    PROVE  ReportSpec => IdleOnOwnEvidence
<1>1. ASSUME IdleInv, [Next]_vars, NEW d \in Deployments,
             idle[d] = NotListed, idle'[d] # NotListed
      PROVE  SomePodBelow(d)
  <2>1. PassDetects
    BY <1>1, OnlyDetectionLists
  <2>2. d \in DetectIdle \ Exempt
    BY <1>1, <2>1, ListedTimes DEF PassDetects
  <2> QED
    BY <1>1, <2>2, MeanOfMeans DEF IdleInv, DetectIdle
<1>2. IdleInv /\ [Next]_vars
        => [\A d \in Deployments :
              idle[d] = NotListed /\ idle'[d] # NotListed => SomePodBelow(d)]_vars
  BY <1>1
<1> QED
  BY <1>2, IdleInvariant, ReportsDoNotInterfere, PTL DEF Spec, IdleOnOwnEvidence

\* A detection passes over an existing Deployment that is not excluded only if one
\* of its own pods is busy or none is known to be idle, under the same condition
\* (DetectIdle, step 7).
THEOREM PassedOverForAReason ==
    ASSUME ForeignNamesApart
    PROVE  ReportSpec => OffListForAReason
<1>1. ASSUME IdleInv, [Next]_vars, NEW d \in exist \ Exempt, busy'[d] # busy[d]
      PROVE  SomePodNotBelow(d) \/ ~SomePodBelow(d)
  <2>1. PassDetects
    BY <1>1, OnlyDetectionLists
  <2>2. d \in Deployments
    BY <1>1 DEF IdleInv, TypeOK
  <2>3. d \notin DetectIdle \ Exempt
    BY <1>1, <2>1, <2>2 DEF PassDetects
  <2> QED
    BY <1>1, <2>2, <2>3, MeanOfMeans DEF IdleInv, DetectIdle
<1>2. IdleInv /\ [Next]_vars
        => [\A d \in exist \ Exempt :
              busy'[d] # busy[d] => SomePodNotBelow(d) \/ ~SomePodBelow(d)]_vars
  BY <1>1
<1> QED
  BY <1>2, IdleInvariant, ReportsDoNotInterfere, PTL DEF Spec, OffListForAReason

-----------------------------------------------------------------------------
(***************************************************************************)
(* The points of a report.                                                 *)
(***************************************************************************)

\* The two sums of PointsOf are recursive sums over the pods.
LEMMA PointSums ==
    ASSUME NEW S, IsFiniteSet(S)
    PROVE  \E g : /\ Sums(g, [p \in S |-> SumFunction(CpuPoints[p])], S)
                  /\ MapThenSumSet(LAMBDA p : SumFunction(CpuPoints[p]), S) = g[S]
<1> DEFINE Body(h) == [s \in SUBSET S |->
                         IF s = {} THEN 0
                         ELSE SumFunction(CpuPoints[Picked(s)]) + h[s \ {Picked(s)}]]
           f == [p \in S |-> SumFunction(CpuPoints[p])]
           g == CHOOSE h : h = Body(h)
<1>1. ASSUME NEW h PROVE Sums(h, f, S) <=> h = Body(h)
  <2>1. \A s \in SUBSET S : s # {} => Picked(s) \in S
    BY DEF Picked
  <2>2. \A s \in SUBSET S : s # {} => f[Picked(s)] = SumFunction(CpuPoints[Picked(s)])
    BY <2>1
  <2> HIDE DEF f
  <2>3. [s \in SUBSET S |-> IF s = {} THEN 0 ELSE f[Picked(s)] + h[s \ {Picked(s)}]]
          = Body(h)
    BY <2>2
  <2> QED
    BY <2>3 DEF Sums
<1>2. MapThenSumSet(LAMBDA p : SumFunction(CpuPoints[p]), S) = g[S]
  BY DEF MapThenSumSet, MapThenFoldSet, Picked
<1> HIDE DEF Body, f
<1>3. g = Body(g)
  BY <1>1, SumsExist
<1> HIDE DEF g
<1>4. Sums(g, f, S)
  BY <1>1, <1>3
<1> QED
  BY <1>2, <1>4 DEF f

\* The same for the number of points.
LEMMA PointCounts ==
    ASSUME NEW S, IsFiniteSet(S)
    PROVE  \E g : /\ Sums(g, [p \in S |-> Count(CpuPoints[p])], S)
                  /\ MapThenSumSet(LAMBDA p : Count(CpuPoints[p]), S) = g[S]
<1> DEFINE Body(h) == [s \in SUBSET S |-> IF s = {} THEN 0
                                          ELSE Count(CpuPoints[Picked(s)]) + h[s \ {Picked(s)}]]
           f == [p \in S |-> Count(CpuPoints[p])]
           g == CHOOSE h : h = Body(h)
<1>1. ASSUME NEW h PROVE Sums(h, f, S) <=> h = Body(h)
  <2>1. \A s \in SUBSET S : s # {} => Picked(s) \in S
    BY DEF Picked
  <2>2. \A s \in SUBSET S : s # {} => f[Picked(s)] = Count(CpuPoints[Picked(s)])
    BY <2>1
  <2> HIDE DEF f
  <2>3. [s \in SUBSET S |-> IF s = {} THEN 0 ELSE f[Picked(s)] + h[s \ {Picked(s)}]]
          = Body(h)
    BY <2>2
  <2> QED
    BY <2>3 DEF Sums
<1>2. MapThenSumSet(LAMBDA p : Count(CpuPoints[p]), S) = g[S]
  BY DEF MapThenSumSet, MapThenFoldSet, Picked
<1> HIDE DEF Body, f
<1>3. g = Body(g)
  BY <1>1, SumsExist
<1> HIDE DEF g
<1>4. Sums(g, f, S)
  BY <1>1, <1>3
<1> QED
  BY <1>2, <1>4 DEF f

\* The points of a workload, taken over all its pods, can be counted and added up.
LEMMA PointFacts ==
    ASSUME TypeOK, NEW w
    PROVE  /\ PointsOf(w, CpuPoints).sum \in Nat
           /\ PointsOf(w, CpuPoints).count \in Nat
<1> DEFINE S == {p \in Pods : PodToDeployment(p) = w}
           counts == [p \in S |-> Count(CpuPoints[p])]
           sums == [p \in S |-> SumFunction(CpuPoints[p])]
<1>1. S \subseteq Pods /\ IsFiniteSet(S)
  BY NamesAssumption, FS_Subset
<1>2. \A p \in S : CpuPoints[p] = Readings(p)
  BY DEF CpuPoints
<1>3. \A p \in S : sums[p] \in Nat /\ counts[p] \in Nat
  BY <1>1, <1>2, ReadingFacts, UnitAssumption
<1>4. /\ PointsOf(w, CpuPoints).count = MapThenSumSet(LAMBDA p : Count(CpuPoints[p]), S)
      /\ PointsOf(w, CpuPoints).sum = MapThenSumSet(LAMBDA p : SumFunction(CpuPoints[p]), S)
  BY DEF PointsOf
<1> HIDE DEF S
<1>5. PICK g : Sums(g, sums, S) /\ PointsOf(w, CpuPoints).sum = g[S]
  BY <1>1, <1>4, PointSums
<1>6. PICK h : Sums(h, counts, S) /\ PointsOf(w, CpuPoints).count = h[S]
  BY <1>1, <1>4, PointCounts
<1> HIDE DEF counts, sums
<1>7. PICK Kind : Kind = Nat
  OBVIOUS
<1>8. (\A T \in SUBSET S : g[T] \in Kind) /\ (\A T \in SUBSET S : h[T] \in Kind)
  BY <1>1, <1>3, <1>5, <1>6, <1>7, SumType, Zenon
<1>9. g[S] \in Nat /\ h[S] \in Nat
  BY <1>7, <1>8
<1> QED
  BY <1>5, <1>6, <1>9

-----------------------------------------------------------------------------
(***************************************************************************)
(* The ranking of a report.                                                *)
(***************************************************************************)

\* The smaller of two numbers.
LEMMA MinOfTwo ==
    ASSUME NEW a \in Int, NEW b \in Int
    PROVE  Min({a, b}) = IF a <= b THEN a ELSE b
BY DEF Min

\* A sorting has every workload at one place.
LEMMA SortingFacts ==
    ASSUME NEW W, IsFiniteSet(W), NEW s \in Sortings(W)
    PROVE  /\ Cardinality(W) \in Nat
           /\ DOMAIN s = 1..Cardinality(W) /\ Len(s) = Cardinality(W)
           /\ \A i \in DOMAIN s : s[i] \in W
           /\ \A i, j \in DOMAIN s : i # j => s[i] # s[j]
           /\ \A i, j \in DOMAIN s : i < j => Cpu(s[i]) >= Cpu(s[j])
<1> DEFINE n == Cardinality(W)
<1>1. n \in Nat
  BY FS_CardinalityType
<1>2. s \in [1..n -> W] /\ \A i, j \in 1..n : i # j => s[i] # s[j]
  BY DEF Sortings, SetToSeqs
<1>3. Len(s) = n /\ DOMAIN s = 1..n
  <2>1. s \in Seq(W)
    BY <1>1, <1>2
  <2> QED
    BY <1>1, <1>2, <2>1
<1>4. \A i, j \in 1..Len(s) : i < j => Cpu(s[i]) >= Cpu(s[j])
  BY DEF Sortings, IsSorted, Cpu
<1> QED
  BY <1>1, <1>2, <1>3, <1>4

\* A ranking is the beginning of a sorting: as many workloads as fit, each once.
LEMMA RankingFacts ==
    ASSUME NEW W, IsFiniteSet(W), NEW r \in Rankings(W)
    PROVE  LET n == Min({Limit, Cardinality(W)})
           IN  /\ n \in Nat
               /\ DOMAIN r = 1..n /\ Len(r) = n
               /\ \A i \in 1..n : r[i] \in W
               /\ \A i, j \in 1..n : i # j => r[i] # r[j]
<1> DEFINE n == Min({Limit, Cardinality(W)})
           m == Cardinality(W)
<1>1. PICK s \in Sortings(W) : r = SubSeq(s, 1, Min({Limit, Len(s)}))
  BY DEF Rankings
<1>2. /\ m \in Nat
      /\ DOMAIN s = 1..m /\ Len(s) = m
      /\ \A i \in 1..m : s[i] \in W
      /\ \A i, j \in 1..m : i # j => s[i] # s[j]
  BY <1>1, SortingFacts
<1>3. Limit \in Nat
  BY ReportAssumption
<1>4. n \in Nat /\ n <= m
  BY <1>2, <1>3, MinOfTwo
<1>5. r = SubSeq(s, 1, n)
  BY <1>1, <1>2
<1> HIDE DEF n, m
<1>6. DOMAIN r = 1..n /\ Len(r) = n /\ \A i \in 1..n : r[i] = s[i]
  BY <1>2, <1>4, <1>5
<1>7. \A i \in 1..n : i \in 1..m
  BY <1>2, <1>4
<1>10. \A i \in 1..n : r[i] \in W
  BY <1>2, <1>6, <1>7
<1>11. \A i, j \in 1..n : i # j => r[i] # r[j]
  BY <1>2, <1>6, <1>7
<1> QED
  BY <1>4, <1>6, <1>10, <1>11 DEF n

\* What a report says of a workload depends on the answers only.
LEMMA UsageStays ==
    ASSUME UNCHANGED samples
    PROVE  Reported' = Reported /\ \A w : queryWorkloadUsage(w)' = queryWorkloadUsage(w)
<1>1. CpuPoints' = CpuPoints
  BY DEF CpuPoints, Readings, RestrictValues, Restrict
<1>2. Reported' = Reported
  <2>1. \A p \in Pods : CpuPoints[p] = Readings(p) /\ CpuPoints'[p] = Readings(p)'
    BY DEF CpuPoints
  <2>2. \A p \in Pods : Readings(p)' = Readings(p)
    BY <1>1, <2>1
  <2>3. Answered' = Answered
    BY <2>2 DEF Answered
  <2> QED
    BY <2>3 DEF Reported
<1>3. ASSUME NEW w PROVE queryWorkloadUsage(w)' = queryWorkloadUsage(w)
  <2>1. /\ aggregateByDeployment(w, CpuPoints)' = aggregateByDeployment(w, CpuPoints')
        /\ aggregateByDeployment(w, Memory)' = aggregateByDeployment(w, Memory)
    OBVIOUS
  <2> QED
    BY <1>1, <2>1 DEF queryWorkloadUsage
<1> QED
  BY <1>2, <1>3

\* So do the rankings and the reports that can be made of them.
LEMMA RankingsStay ==
    ASSUME UNCHANGED samples
    PROVE  /\ Rankings(Reported)' = Rankings(Reported)
           /\ \A r, t : buildTopConsumers(r, t)' = buildTopConsumers(r, t)
<1>1. Reported' = Reported /\ \A w : queryWorkloadUsage(w)' = queryWorkloadUsage(w)
  BY UsageStays
<1>2. Sortings(Reported)' = Sortings(Reported)
  BY <1>1 DEF Sortings, IsSorted
<1>3. Rankings(Reported)' = Rankings(Reported)
  BY <1>2 DEF Rankings
<1>4. ASSUME NEW r, NEW t PROVE buildTopConsumers(r, t)' = buildTopConsumers(r, t)
  BY <1>1 DEF buildTopConsumers, Share
<1> QED
  BY <1>3, <1>4

\* What a workload is charged is a number.
LEMMA CpuType ==
    ASSUME TypeOK, NEW w
    PROVE  Cpu(w) \in Nat
<1>1. PICK n \in Nat, s \in Nat :
          n = PointsOf(w, CpuPoints).count /\ s = PointsOf(w, CpuPoints).sum
  BY PointFacts
<1>2. Cpu(w) = (IF n = 0 THEN 0 ELSE (Unit * s) \div n) * Hours
  BY <1>1 DEF Cpu, queryWorkloadUsage, aggregateByDeployment
<1>3. \A a, b, h \in Nat, k \in Nat \ {0} : ((a * b) \div k) * h \in Nat
  <2>1. \A a, b \in Nat, k \in Nat \ {0} : (a * b) \div k \in Nat
    OBVIOUS
  <2>2. \A a, b \in Nat : a * b \in Nat
    OBVIOUS
  <2> QED
    BY <2>1, <2>2, Zenon
<1>4. Hours \in Nat /\ Unit \in Nat
  BY ReportAssumption, UnitAssumption
<1>5. CASE n = 0
  BY <1>2, <1>4, <1>5
<1>6. CASE n # 0
  <2>1. ((Unit * s) \div n) * Hours \in Nat
    BY <1>3, <1>4, <1>6
  <2> QED
    BY <1>2, <1>6, <2>1
<1> QED
  BY <1>5, <1>6

\* There are finitely many workloads in an answer.
LEMMA ReportedFinite == IsFiniteSet(Reported)
<1>1. IsFiniteSet(Answered)
  BY NamesAssumption, FS_Subset DEF Answered
<1> DEFINE f == [p \in Answered |-> PodToDeployment(p)]
<1>2. f \in Surjection(Answered, Reported)
  BY DEF Reported, Surjection
<1> HIDE DEF f
<1> QED
  BY <1>1, <1>2, FS_Surjection

\* The entries of the report are those of the ranking.
LEMMA EntriesOfRanking ==
    ASSUME NEW ranking, NEW total
    PROVE  /\ DOMAIN buildTopConsumers(ranking, total) = DOMAIN ranking
           /\ \A i \in DOMAIN ranking :
                 /\ buildTopConsumers(ranking, total)[i].workload = ranking[i]
                 /\ buildTopConsumers(ranking, total)[i].cpuPercent
                      = Share(Cpu(ranking[i]), total.cpu)
BY DEF buildTopConsumers, queryWorkloadUsage, Cpu

\* The places of a list are those of its entries.
LEMMA LengthOf ==
    ASSUME NEW f, NEW n \in Nat, DOMAIN f = 1..n
    PROVE  Len(f) = n
OBVIOUS

\* A report that is there was made of the answers as they still are.
ReportInv ==
    \/ report = NoReport
    \/ \E r \in Rankings(Reported), t \in Totals :
          report = [total |-> t, top |-> buildTopConsumers(r, t)]

\* ReportInv is inductive: what changes the answers takes the report away.
LEMMA ReportStep ==
    ASSUME ReportInv, [ReportNext]_reportVars
    PROVE  ReportInv'
<1>1. CASE report' = NoReport
  BY <1>1 DEF ReportInv, NoReport
<1>2. ASSUME NEW ranking \in Rankings(Reported), NEW total \in Totals,
             Generate(ranking, total)
      PROVE  ReportInv'
  <2>1. UNCHANGED samples /\ report' = [total |-> total, top |-> buildTopConsumers(ranking, total)]
    BY <1>2 DEF Generate, vars
  <2> QED
    BY <2>1, RankingsStay DEF ReportInv
<1>3. CASE UNCHANGED reportVars
  <2>1. UNCHANGED <<samples, report>>
    BY <1>3 DEF reportVars
  <2> QED
    BY <2>1, RankingsStay DEF ReportInv, NoReport
<1> QED
  BY <1>1, <1>2, <1>3 DEF ReportNext

\* Hence at every point of every behaviour.
LEMMA ReportAlways == ReportSpec => [](TypeOK /\ ReportInv)
<1>1. ReportInit => ReportInv
  BY DEF ReportInit, ReportInv
<1> QED
  BY <1>1, ReportStep, IdleTypeCorrect, PTL DEF ReportSpec

\* Whatever the answers are, the workloads can be sorted: there is always a report.
LEMMA SortingExists ==
    ASSUME NEW W, IsFiniteSet(W), \A w \in W : Cpu(w) \in Nat
    PROVE  Sortings(W) # {}
<1> DEFINE Good == {T \in SUBSET W : Sortings(T) # {}}
<1>1. ASSUME NEW T \in SUBSET W, \A x \in T : T \ {x} \in Good
      PROVE  T \in Good
  <2> DEFINE n == Cardinality(T)
  <2>0. IsFiniteSet(T) /\ n \in Nat
    BY FS_Subset, FS_CardinalityType
  <2>1. CASE T = {}
    <3>1. n = 0
      BY <2>1, FS_EmptySet
    <3>2. <<>> \in SetToSeqs(T)
      BY <3>1 DEF SetToSeqs
    <3>3. <<>> \in Sortings(T)
      BY <3>2 DEF Sortings, IsSorted
    <3> QED
      BY <3>3
  <2>2. CASE T # {}
    <3> DEFINE V == {Cpu(w) : w \in T}
    <3>1. PICK x \in T : \A w \in T : Cpu(x) <= Cpu(w)
      <4>1. V # {} /\ V \subseteq Nat
        BY <2>2
      <4>2. \E v \in V : \A u \in V : v <= u
        BY <4>1, LeastExists
      <4> QED
        BY <4>2
    <3>2. PICK s : s \in Sortings(T \ {x})
      BY <1>1
    <3>3. IsFiniteSet(T \ {x}) /\ Cardinality(T \ {x}) = n - 1 /\ n - 1 \in Nat
      <4>1. IsFiniteSet(T \ {x}) /\ Cardinality(T \ {x}) = Cardinality(T) - 1
        BY <2>0, <3>1, FS_RemoveElement
      <4>2. Cardinality(T \ {x}) \in Nat
        BY <4>1, FS_CardinalityType
      <4> QED
        BY <4>1, <4>2
    <3> HIDE DEF n
    <3>4. /\ \A i \in 1..(n - 1) : s[i] \in T \ {x}
          /\ \A i, j \in 1..(n - 1) : i # j => s[i] # s[j]
          /\ \A i, j \in 1..(n - 1) : i < j => Cpu(s[i]) >= Cpu(s[j])
      BY <3>2, <3>3, SortingFacts
    <3> DEFINE f == [i \in 1..n |-> IF i = n THEN x ELSE s[i]]
    <3>5. \A i \in 1..n : i = n \/ i \in 1..(n - 1)
      BY <2>0
    <3>6. n \in Nat \ {0} /\ n \in 1..n
      BY <2>0, <3>3
    <3>7. f[n] = x /\ \A i \in 1..(n - 1) : i \in 1..n /\ i # n /\ f[i] = s[i]
      <4>1. \A i \in 1..(n - 1) : i \in 1..n /\ i # n
        BY <2>0
      <4> QED
        BY <3>6, <4>1
    <3>8. f \in [1..n -> T]
      BY <3>4, <3>5
    <3> HIDE DEF f
    <3>9. \A i, j \in 1..n : i # j => f[i] # f[j]
      BY <3>4, <3>5, <3>7
    <3>10. \A i, j \in 1..n : i < j => Cpu(f[i]) >= Cpu(f[j])
      <4>1. SUFFICES ASSUME NEW i \in 1..n, NEW j \in 1..n, i < j
                     PROVE  Cpu(f[i]) >= Cpu(f[j])
        OBVIOUS
      <4>2. i \in 1..(n - 1)
        BY <2>0, <4>1
      <4>3. CASE j = n
        BY <3>1, <3>4, <3>7, <4>2, <4>3
      <4>4. CASE j \in 1..(n - 1)
        BY <3>4, <3>7, <4>1, <4>2, <4>4
      <4> QED
        BY <3>5, <4>3, <4>4
    <3>11. f \in SetToSeqs(T)
      BY <3>8, <3>9 DEF SetToSeqs, n
    <3>12. Len(f) = n
      BY <2>0, <3>8, LengthOf
    <3>13. f \in Sortings(T)
      BY <3>10, <3>11, <3>12 DEF Sortings, IsSorted, Cpu
    <3> QED
      BY <3>13
  <2> QED
    BY <2>1, <2>2
<1> HIDE DEF Good
<1>2. \A T \in SUBSET W : T \in Good
  BY <1>1, SubsetInduction
<1> QED
  BY <1>2 DEF Good

\* Whatever the pods' points are and however they tie, there is a ranking: a report can
\* always be generated (buildTopConsumers).
THEOREM RankingExists == ReportSpec => [](Rankings(Reported) # {})
<1>1. TypeOK => Rankings(Reported) # {}
  BY CpuType, ReportedFinite, SortingExists DEF Rankings
<1> QED
  BY <1>1, IdleTypeCorrect, PTL

\* The usage of the workloads adds up recursively,
LEMMA CpuSums ==
    ASSUME NEW S, IsFiniteSet(S)
    PROVE  \E g : /\ Sums(g, [w \in S |-> Cpu(w)], S)
                  /\ MapThenSumSet(Cpu, S) = g[S]
<1> DEFINE Body(h) == [s \in SUBSET S |-> IF s = {} THEN 0
                                          ELSE Cpu(Picked(s)) + h[s \ {Picked(s)}]]
           f == [w \in S |-> Cpu(w)]
           g == CHOOSE h : h = Body(h)
<1>1. ASSUME NEW h PROVE Sums(h, f, S) <=> h = Body(h)
  <2>1. \A s \in SUBSET S : s # {} => Picked(s) \in S
    BY DEF Picked
  <2>2. \A s \in SUBSET S : s # {} => f[Picked(s)] = Cpu(Picked(s))
    BY <2>1
  <2> HIDE DEF f
  <2>3. [s \in SUBSET S |-> IF s = {} THEN 0 ELSE f[Picked(s)] + h[s \ {Picked(s)}]]
          = Body(h)
    BY <2>2
  <2> QED
    BY <2>3 DEF Sums
<1>2. MapThenSumSet(Cpu, S) = g[S]
  BY DEF MapThenSumSet, MapThenFoldSet, Picked
<1> HIDE DEF Body, f
<1>3. g = Body(g)
  BY <1>1, SumsExist
<1> HIDE DEF g
<1>4. Sums(g, f, S)
  BY <1>1, <1>3
<1> QED
  BY <1>2, <1>4 DEF f

\* and so do the shares that a report lists.
LEMMA PercentSums ==
    ASSUME NEW S, IsFiniteSet(S)
    PROVE  \E g : /\ Sums(g, [i \in S |-> report.top[i].cpuPercent], S)
                  /\ MapThenSumSet(LAMBDA i : report.top[i].cpuPercent, S) = g[S]
<1> DEFINE Body(h) == [s \in SUBSET S |->
                         IF s = {} THEN 0
                         ELSE report.top[Picked(s)].cpuPercent + h[s \ {Picked(s)}]]
           f == [i \in S |-> report.top[i].cpuPercent]
           g == CHOOSE h : h = Body(h)
<1>1. ASSUME NEW h PROVE Sums(h, f, S) <=> h = Body(h)
  <2>1. \A s \in SUBSET S : s # {} => Picked(s) \in S
    BY DEF Picked
  <2>2. \A s \in SUBSET S : s # {} => f[Picked(s)] = report.top[Picked(s)].cpuPercent
    BY <2>1
  <2> HIDE DEF f
  <2>3. [s \in SUBSET S |-> IF s = {} THEN 0 ELSE f[Picked(s)] + h[s \ {Picked(s)}]]
          = Body(h)
    BY <2>2
  <2> QED
    BY <2>3 DEF Sums
<1>2. MapThenSumSet(LAMBDA i : report.top[i].cpuPercent, S) = g[S]
  BY DEF MapThenSumSet, MapThenFoldSet, Picked
<1> HIDE DEF Body, f
<1>3. g = Body(g)
  BY <1>1, SumsExist
<1> HIDE DEF g
<1>4. Sums(g, f, S)
  BY <1>1, <1>3
<1> QED
  BY <1>2, <1>4 DEF f

\* A whole that is not exceeded leaves at most a hundred hundredths.
LEMMA AtMostTheWhole ==
    ASSUME NEW whole \in Nat \ {0}, NEW used \in Int, NEW shares \in Int,
           used <= whole, whole * shares <= 100 * used
    PROVE  shares <= 100
<1>1. whole * shares <= 100 * whole
  <2>1. whole * shares \in Int
    OBVIOUS
  <2> QED
    BY <2>1
<1>2. SUFFICES ASSUME shares >= 101 PROVE FALSE
  OBVIOUS
<1>3. PICK more \in Nat : shares = 101 + more
  <2>1. shares - 101 \in Nat /\ shares = 101 + (shares - 101)
    BY <1>2
  <2> QED
    BY <2>1
<1>4. whole * shares = 101 * whole + whole * more
  BY <1>3
<1>5. whole * more \in Nat
  OBVIOUS
<1> QED
  BY <1>1, <1>4, <1>5

\* For any number of workloads, any usage and any list length: if the accounting came
\* to at least what the workloads of the answer used, the listed shares add up to at
\* most a hundred (the truncation to int in buildTopConsumers; the same workload is
\* never counted twice, which RankingFacts gives).
THEOREM SharesStayWithinTheWhole == ReportSpec => []SharesAddUp
<1>1. ASSUME TypeOK, report = NoReport PROVE SharesAddUp
  <2>1. DOMAIN report.top = {}
    BY <1>1 DEF NoReport
  <2>2. PICK h : /\ Sums(h, [i \in {} |-> report.top[i].cpuPercent], {})
                 /\ MapThenSumSet(LAMBDA i : report.top[i].cpuPercent, {}) = h[{}]
    BY PercentSums, FS_EmptySet
  <2>3. h[{}] = 0
    BY <2>2 DEF Sums
  <2>4. MapThenSumSet(LAMBDA i : report.top[i].cpuPercent, DOMAIN report.top) = 0
    BY <2>1, <2>2, <2>3
  <2> QED
    BY <2>4 DEF SharesAddUp
<1>2. ASSUME TypeOK, NEW r \in Rankings(Reported), NEW t \in Totals,
             report = [total |-> t, top |-> buildTopConsumers(r, t)],
             MapThenSumSet(Cpu, Reported) <= Unit * report.total.cpu
      PROVE  MapThenSumSet(LAMBDA i : report.top[i].cpuPercent, DOMAIN report.top) <= 100
  <2> DEFINE n == Min({Limit, Cardinality(Reported)})
             S == 1..n
             c == [w \in Reported |-> Cpu(w)]
             share == [i \in S |-> report.top[i].cpuPercent]
             whole == Unit * t.cpu
  <2>1. \A w \in Reported : Cpu(w) \in Nat
    BY <1>2, CpuType
  <2>2. /\ n \in Nat
        /\ DOMAIN r = S
        /\ \A i \in S : r[i] \in Reported
        /\ \A i, j \in S : i # j => r[i] # r[j]
    BY <2>1, ReportedFinite, RankingFacts
  <2> HIDE DEF n
  <2>3. IsFiniteSet(S)
    BY <2>2, FS_Interval
  <2>4. report.top = buildTopConsumers(r, t) /\ report.total = t
    BY <1>2
  <2>5. DOMAIN report.top = S
    BY <2>2, <2>4, EntriesOfRanking
  <2>6. t.cpu \in Nat /\ whole \in Nat /\ (t.cpu # 0 => whole # 0)
    BY ReportAssumption, UnitAssumption
  <2>7. \A i \in S : share[i] = Share(Cpu(r[i]), t.cpu)
    BY <2>2, <2>4, EntriesOfRanking
  <2>8. \A i \in S : share[i] = IF t.cpu = 0 THEN 0 ELSE (100 * c[r[i]]) \div whole
    BY <2>2, <2>7 DEF Share
  <2>9. PICK g : Sums(g, c, Reported) /\ MapThenSumSet(Cpu, Reported) = g[Reported]
    BY ReportedFinite, CpuSums
  <2>10. PICK h : /\ Sums(h, share, S)
                  /\ MapThenSumSet(LAMBDA i : report.top[i].cpuPercent, S) = h[S]
    BY <2>3, PercentSums
  <2>11. \A w \in Reported : c[w] \in Nat
    BY <2>1
  <2>12. g[Reported] <= whole
    BY <1>2, <2>4, <2>9
  <2> HIDE DEF S, c, share, whole
  <2>13. CASE t.cpu = 0
    <3>1. \A i \in S : share[i] \in Int /\ share[i] <= 0
      BY <2>8, <2>13
    <3>2. h[S] <= 0 * Cardinality(S)
      BY <2>3, <2>10, <3>1, SumAtMost
    <3>3. h[S] \in Int /\ Cardinality(S) \in Nat
      BY <2>3, <2>10, <3>1, SumType, FS_CardinalityType
    <3>4. h[S] <= 100
      BY <3>2, <3>3
    <3> QED
      BY <2>5, <2>10, <3>4
  <2>14. CASE t.cpu # 0
    <3>1. whole \in Nat \ {0} /\ \A i \in S : share[i] = (100 * c[r[i]]) \div whole
      BY <2>6, <2>8, <2>14
    <3>2. whole * h[S] <= 100 * g[Reported]
      BY <2>2, <2>3, <2>9, <2>10, <2>11, <3>1, ReportedFinite, TruncatedShares
    <3>3. g[Reported] \in Int
      BY <2>9, <2>11, ReportedFinite, SumType
    <3>4. h[S] \in Int
      <4>1. \A k, m \in Int : m > 0 => k \div m \in Int
        OBVIOUS
      <4>2. \A i \in S : share[i] \in Int
        BY <2>2, <2>11, <3>1, <4>1
      <4> QED
        BY <2>3, <2>10, <4>2, SumType
    <3>5. h[S] <= 100
      BY <2>12, <3>1, <3>2, <3>3, <3>4, AtMostTheWhole
    <3> QED
      BY <2>5, <2>10, <3>5
  <2> QED
    BY <2>13, <2>14
<1>3. TypeOK /\ ReportInv => SharesAddUp
  BY <1>1, <1>2 DEF ReportInv, SharesAddUp
<1> QED
  BY <1>3, ReportAlways, PTL
=============================================================================
