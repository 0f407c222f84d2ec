---------------------------- MODULE IdleTracking ----------------------------
(***************************************************************************)
(* How workloads are found idle and how the status remembers them: the     *)
(* arithmetic of internal/idle/detector.go, step 7 of Reconcile and        *)
(* toIdleWorkloadStatus, over a sequence of passes.                        *)
(*                                                                         *)
(* A name is the sequence of its parts between dashes.  The answer of the  *)
(* range query is, for each pod, the sequence of its samples (of all its   *)
(* containers and all points in time); a pod without samples is not in the *)
(* answer.  Values are integers, and means are kept in parts of 1/Unit so  *)
(* that they are exact.  Time is counted in passes.  Pods of other kinds   *)
(* of workloads may run beside those of the Deployments.                   *)
(***************************************************************************)
EXTENDS Integers, FiniteSets, SequencesExt

CONSTANTS
    Deployments,  \* names that Deployments of the namespace may have
    Pods,         \* names of the pods of the namespace
    Foreign,      \* the owner of a pod of another kind of workload
    Owner,        \* the Deployment each pod belongs to, or Foreign
    Exempt,       \* Deployments that spec.exclusions names or selects
    Observable,   \* for each pod, the samples an answer may hold of it
    MaxSamples,   \* bound on their number
    Unreadable,   \* a point of the answer that does not parse
    Unit,         \* see above
    Threshold,    \* spec.idleThreshold.cpuPercent, compared as it is
    Window,       \* spec.idleThreshold.window, in passes
    MaxPasses,    \* bound on the number of passes
    NotListed     \* a workload that status.idleWorkloads does not list

ASSUME NamesAssumption ==
    /\ \A n \in Deployments : n \in Seq(STRING) /\ n # <<>>
    /\ IsFiniteSet(Pods) /\ \A p \in Pods : p \in Seq(STRING)
    /\ Foreign \notin Deployments
    /\ Owner \in [Pods -> Deployments \cup {Foreign}]

\* The name of a pod of d is that of d and two generated parts.
NamedAfter(p, d) == Len(p) = Len(d) + 2 /\ IsPrefix(d, p)

ASSUME GeneratedNamesAssumption ==   \* by the Deployment and ReplicaSet controllers
    \A p \in Pods : Owner[p] # Foreign => NamedAfter(p, Owner[p])
ASSUME UnitAssumption ==
    /\ MaxSamples \in Nat /\ Unit \in Nat \ {0}
    /\ \A n \in 1..MaxSamples : Unit % n = 0
ASSUME BoundsAssumption ==
    /\ \A p \in Pods : <<>> \in Observable[p]
    /\ \A p \in Pods : \A observed \in Observable[p] :
           observed \in Seq(Nat \cup {Unreadable}) /\ Len(observed) <= MaxSamples
    /\ Threshold \in Nat
    /\ Window \in Nat \ {0} /\ MaxPasses \in Nat
    /\ NotListed \notin Int

\* No pod of another kind has a name that a pod of a Deployment could have.  A
\* StatefulSet's db-main-0 has one, if there is a Deployment db.
ForeignNamesApart ==
    \A p \in Pods, d \in Deployments : Owner[p] = Foreign => p # d /\ ~NamedAfter(p, d)

Times == (-Window)..MaxPasses

VARIABLES
    now,      \* passes so far
    exist,    \* Deployments that exist
    samples,  \* what Prometheus answers
    idle,     \* status.idleWorkloads: each one's idleSince
    busy      \* history: the last stored detection that did not list the workload

vars == <<now, exist, samples, idle, busy>>

TypeOK ==
    /\ now \in 0..MaxPasses
    /\ exist \subseteq Deployments
    /\ DOMAIN samples = Pods /\ \A p \in Pods : samples[p] \in Observable[p]
    /\ idle \in [Deployments -> Times \cup {NotListed}]
    /\ busy \in [Deployments -> Times]

-----------------------------------------------------------------------------
(***************************************************************************)
(* Detection.                                                              *)
(***************************************************************************)

\* Mutant: one suffix is stripped.
StripOneSuffix(pod) == IF Len(pod) <= 2 THEN pod ELSE SubSeq(pod, 1, Len(pod) - 1)

\* Strips the two generated suffixes.
PodToDeployment(pod) == IF Len(pod) <= 2 THEN pod ELSE SubSeq(pod, 1, Len(pod) - 2)

\* The client skips the points it cannot read; the others keep their positions here.
Readings(pod) == RestrictValues(samples[pod], LAMBDA point : point # Unreadable)

Count(points) == Cardinality(DOMAIN points)

\* Pods of which there is a point that can be read.
Answered == {pod \in Pods : DOMAIN Readings(pod) # {}}

\* A pod's mean, in parts of Unit.
averageByPod(pod) == (Unit * SumFunction(Readings(pod))) \div Count(Readings(pod))

\* Pods in the answer that count towards a Deployment.
CountedPods(d) == {pod \in Answered : PodToDeployment(pod) = d}

\* Mutant: the sum of the pods' means is divided by the number of samples.
BelowPerSample(d) ==
    LET pods == CountedPods(d)
    IN  /\ pods # {}
        /\ MapThenSumSet(LAMBDA pod : averageByPod(pod), pods)
             < Threshold * Unit * MapThenSumSet(LAMBDA pod : Count(Readings(pod)), pods)

\* The mean of its pods' means is below the threshold.
BelowThreshold(d) ==
    LET pods == CountedPods(d)
    IN  /\ pods # {}
        /\ MapThenSumSet(LAMBDA pod : averageByPod(pod), pods)
             < Threshold * Unit * Cardinality(pods)

\* DetectIdle keeps those that are Deployments.
DetectIdle == {d \in exist : BelowThreshold(d)}

\* Mutant: new entries are added to the old list.
ListGrows(found, previous) ==
    [d \in Deployments |->
        IF previous[d] # NotListed THEN previous[d]
        ELSE IF d \in found THEN now - Window ELSE NotListed]

\* Mutant: an entry gets the end of the window of the next pass.
ListAhead(found, previous) ==
    [d \in Deployments |->
        IF d \notin found THEN NotListed
        ELSE IF previous[d] # NotListed THEN previous[d] ELSE now + Window]

\* The list is built afresh; a workload that was on the old one keeps its time.
toIdleWorkloadStatus(found, previous) ==
    [d \in Deployments |->
        CASE d \notin found -> NotListed
          [] d \in found /\ previous[d] # NotListed -> previous[d]
          [] d \in found /\ previous[d] = NotListed -> now - Window]

-----------------------------------------------------------------------------
Init ==
    /\ now = 0
    /\ exist \in SUBSET Deployments
    /\ samples = [p \in Pods |-> <<>>]
    /\ idle = [d \in Deployments |-> NotListed]
    /\ busy = [d \in Deployments |-> -Window]

PassOver == now < MaxPasses /\ now' = now + 1

\* A pass under pressure whose query succeeds: detect, filter, list, store.
PassDetects ==
    /\ PassOver
    /\ LET found == DetectIdle \ Exempt
       IN  /\ idle' = toIdleWorkloadStatus(found, idle)
           /\ busy' = [d \in Deployments |-> IF d \in found THEN busy[d] ELSE now]
    /\ UNCHANGED <<exist, samples>>

\* A pass below the thresholds, or one whose query or status update fails, keeps
\* the list as it was.
PassKeepsList ==
    /\ PassOver
    /\ UNCHANGED <<exist, samples, idle, busy>>

\* A pod's load changes, or it comes or goes.
UsageChanges(pod, observed) ==
    /\ samples' = [samples EXCEPT ![pod] = observed]
    /\ UNCHANGED <<now, exist, idle, busy>>

UserCreates(d) ==
    /\ d \notin exist
    /\ exist' = exist \cup {d}
    /\ UNCHANGED <<now, samples, idle, busy>>

UserDeletes(d) ==
    /\ d \in exist
    /\ exist' = exist \ {d}
    /\ UNCHANGED <<now, samples, idle, busy>>

Next ==
    \/ PassDetects
    \/ PassKeepsList
    \/ \E pod \in Pods : \E observed \in Observable[pod] : UsageChanges(pod, observed)
    \/ \E d \in Deployments : UserCreates(d) \/ UserDeletes(d)

Spec == Init /\ [][Next]_vars

-----------------------------------------------------------------------------
(***************************************************************************)
(* Properties.                                                             *)
(***************************************************************************)

\* The answer shows a pod of d with a mean below the threshold, or not below it.
SomePodBelow(d) ==
    \E p \in Answered : Owner[p] = d /\ averageByPod(p) < Threshold * Unit

SomePodNotBelow(d) ==
    \E p \in Answered : Owner[p] = d /\ averageByPod(p) >= Threshold * Unit

\* A Deployment is put on the list only on the evidence of a pod of its own: not
\* when all of its pods are busy, nor when the answer has none of them, whatever
\* similarly named Deployments beside it do (DetectIdle, PodToDeployment).  Of other
\* kinds docs/design.md says that they "are ignored rather than inferred", which the
\* code keeps under ForeignNamesApart and not without.
IdleOnOwnEvidence ==
    [][\A d \in Deployments :
         idle[d] = NotListed /\ idle'[d] # NotListed => SomePodBelow(d)]_vars

\* A detection leaves a Deployment off the list only if it does not exist, is
\* excluded, or the answer shows a busy pod of it or no pod at all (DetectIdle and
\* the filter of step 7), under ForeignNamesApart.
OffListForAReason ==
    [][\A d \in exist \ Exempt :
         busy'[d] # busy[d] => SomePodNotBelow(d) \/ ~SomePodBelow(d)]_vars

\* Over any sequence of phases, failures, deletions and re-creations, idleSince of
\* a listed workload is the start of the window of an earlier detection, and no
\* detection stored since then found the workload busy (toIdleWorkloadStatus).
IdleSinceHonest ==
    \A d \in Deployments : idle[d] # NotListed =>
        /\ busy[d] < idle[d] + Window
        /\ idle[d] + Window < now
=============================================================================
