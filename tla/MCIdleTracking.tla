--------------------------- MODULE MCIdleTracking ---------------------------
(***************************************************************************)
(* An instance of CostReport, and of IdleTracking within it, for TLC: two  *)
(* Deployments of which one's name extends the other's, with two pods and  *)
(* one, and a StatefulSet db with one pod.                                 *)
(***************************************************************************)
EXTENDS CostReport

web == <<"web">>
webapi == <<"web", "api">>
podA == web \o <<"r1", "a">>
podB == web \o <<"r1", "b">>
podC == webapi \o <<"r2", "a">>
podD == <<"db", "0">>

MCDeployments == {web, webapi}
MCPods == {podA, podB, podC, podD}
MCOwner == (podA :> web) @@ (podB :> web) @@ (podC :> webapi) @@ (podD :> Foreign)
MCNoExemption == {}

Levels == {0, 3}

\* Two pods with any one or two samples, one of them with an unreadable one.
MCObservable ==
    (podA :> BoundedSeq(Levels, 2))
    @@ (podB :> BoundedSeq(Levels, 2) \cup {<<3, Unreadable>>})
    @@ (podC :> {<<>>, <<0>>, <<3>>, <<0, 3>>})
    @@ (podD :> {<<>>, <<3>>})

\* The memory answer has no pod of web-api.
MCMemory == (podA :> <<1, 2>>) @@ (podB :> <<2>>) @@ (podC :> <<>>) @@ (podD :> <<1>>)

\* A total nothing was accounted for, one below and one above the usage.
MCTotals ==
    {[cpu |-> 0, mem |-> 5], [cpu |-> 7, mem |-> 0], [cpu |-> 18, mem |-> 10]}
=============================================================================
