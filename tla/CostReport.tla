----------------------------- MODULE CostReport -----------------------------
(***************************************************************************)
(* The contents of a CostReport: usage per workload from the generator's   *)
(* two range queries, the ranking of the top consumers and their shares    *)
(* (internal/report/generator.go).  The pods, their names and the CPU      *)
(* answer are those of IdleTracking; here a point of the answer is the     *)
(* average of an hour.  The report is generated at a month boundary, in    *)
(* the first of the passes that IdleTracking follows.                      *)
(*                                                                         *)
(* Usage is kept in parts of 1/Unit, as the means are; bytes and GiB are   *)
(* one unit.  Prices and the suspension events are left out.               *)
(***************************************************************************)
EXTENDS IdleTracking

CONSTANTS
    Hours,   \* hours of the month
    Limit,   \* length of the ranking, 5 in the code
    Memory,  \* the memory answer: the points of each pod
    Totals   \* totals that the accounting may have come to

ASSUME ReportAssumption ==
    /\ Hours \in Nat \ {0} /\ Limit \in Nat \ {0}
    /\ Memory \in [Pods -> Seq(Nat)]
    /\ Totals \subseteq [cpu : Nat, mem : Nat]
    /\ \A n \in 1..MaxSamples * Cardinality(Pods) : Unit % n = 0

VARIABLE
    report   \* the contents of the report just generated, or NoReport

NoReport == [total |-> [cpu |-> 0, mem |-> 0], top |-> <<>>]

reportVars == <<now, exist, samples, idle, busy, report>>

-----------------------------------------------------------------------------
\* Points of all pods that count towards the workload w: their number and sum.
PointsOf(w, points) ==
    LET pods == {p \in Pods : PodToDeployment(p) = w}
    IN  [count |-> MapThenSumSet(LAMBDA p : Count(points[p]), pods),
         sum   |-> MapThenSumSet(LAMBDA p : SumFunction(points[p]), pods)]

\* The mean over all points of all pods, so that n equal pods count as one; a workload
\* without points counts as 0.
aggregateByDeployment(w, points) ==
    LET p == PointsOf(w, points)
    IN  IF p.count = 0 THEN 0 ELSE (Unit * p.sum) \div p.count

\* Workloads of the CPU answer, whether they are Deployments or not.
Reported == {PodToDeployment(p) : p \in Answered}

CpuPoints == [p \in Pods |-> Readings(p)]

\* Memory is attached by name, and is 0 where the memory answer has none.
queryWorkloadUsage(w) ==
    [name |-> w,
     cpu  |-> aggregateByDeployment(w, CpuPoints) * Hours,
     mem  |-> aggregateByDeployment(w, Memory) * Hours]

\* Mutant: the percentage is rounded to the next integer.
RoundedUpShare(usage, total) ==
    IF total = 0 THEN 0 ELSE (100 * usage + Unit * total - 1) \div (Unit * total)

\* int(...) of a percentage.
Share(usage, total) == IF total = 0 THEN 0 ELSE (100 * usage) \div (Unit * total)

\* What sort.Slice may make of the workloads.  It is not stable, and they come out of a
\* Go map in any order: ties end up in any order.
Sortings(workloads) ==
    {s \in SetToSeqs(workloads) :
        IsSorted(s, LAMBDA v, w : queryWorkloadUsage(v).cpu >= queryWorkloadUsage(w).cpu)}

\* Sorted by CPU, largest first, and cut.
Rankings(workloads) == {SubSeq(s, 1, Min({Limit, Len(s)})) : s \in Sortings(workloads)}

buildTopConsumers(ranking, total) ==
    [i \in DOMAIN ranking |->
        LET w == queryWorkloadUsage(ranking[i])
        IN  [workload |-> w.name,
             cpuPercent |-> Share(w.cpu, total.cpu),
             memoryPercent |-> Share(w.mem, total.mem)]]

-----------------------------------------------------------------------------
ReportInit == Init /\ report = NoReport

\* The contents of Generate's report.
Generate(ranking, total) ==
    /\ now = 0
    /\ report' = [total |-> total, top |-> buildTopConsumers(ranking, total)]
    /\ UNCHANGED vars

ReportNext ==
    \/ Next /\ report' = NoReport
    \/ \E ranking \in Rankings(Reported), total \in Totals : Generate(ranking, total)

ReportSpec == ReportInit /\ [][ReportNext]_reportVars

-----------------------------------------------------------------------------
(***************************************************************************)
(* Properties.                                                             *)
(***************************************************************************)

Cpu(w) == queryWorkloadUsage(w).cpu

\* If the accounting came to at least the sum of what the report computes for the
\* workloads of the answer, the shares it shows do not add up to more than the whole
\* (the truncation in buildTopConsumers).
SharesAddUp ==
    MapThenSumSet(Cpu, Reported) <= Unit * report.total.cpu =>
        MapThenSumSet(LAMBDA i : report.top[i].cpuPercent, DOMAIN report.top) <= 100
=============================================================================
