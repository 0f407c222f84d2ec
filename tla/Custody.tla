------------------------------- MODULE Custody -------------------------------
(***************************************************************************)
(* What the governor promises the owners of Deployments, whatever the      *)
(* patches, caches, retries and crashes underneath: a Deployment belongs   *)
(* to its user or is held by the operator, the operator holds one only     *)
(* while a budget governs the namespace, stops none it does not hold, and  *)
(* gives each back at the size its user asked for before the budget goes.  *)
(* WorkloadScaling implements this specification.                          *)
(***************************************************************************)
EXTENDS Naturals

CONSTANTS
    Names,       \* names of the Deployments of the namespace
    MaxReplicas  \* bound on spec.replicas

VARIABLES
    present,   \* the Deployments that exist
    held,      \* those the operator has marked as its own
    running,   \* the size of each; 0 if it does not exist
    want,      \* the size its user asked for
    governed   \* is a budget with its finalizer there?

vars == <<present, held, running, want, governed>>

Init ==
    /\ present \in SUBSET Names
    /\ held = {}
    /\ want \in [Names -> 0..MaxReplicas]
    /\ \A d \in Names \ present : want[d] = 0
    /\ running = want
    /\ governed = FALSE

\* The finalizer is registered.
Begin ==
    /\ ~governed
    /\ governed' = TRUE
    /\ UNCHANGED <<present, held, running, want>>

\* The finalizer goes once nothing is held.
End ==
    /\ governed /\ held = {}
    /\ governed' = FALSE
    /\ UNCHANGED <<present, held, running, want>>

\* The operator records the size of a running Deployment and marks it.
Take(d) ==
    /\ governed
    /\ d \in present \ held /\ running[d] # 0
    /\ held' = held \cup {d}
    /\ UNCHANGED <<present, running, want, governed>>

\* Only a Deployment it holds is stopped, or started again at its old size.
Stop(d) ==
    /\ d \in held
    /\ running' = [running EXCEPT ![d] = 0]
    /\ UNCHANGED <<present, held, want, governed>>

Resume(d) ==
    /\ d \in held
    /\ running' = [running EXCEPT ![d] = want[d]]
    /\ UNCHANGED <<present, held, want, governed>>

\* What is given back is running at the size its user asked for.
GiveBack(d) ==
    /\ d \in held
    /\ held' = held \ {d}
    /\ running' = [running EXCEPT ![d] = want[d]]
    /\ UNCHANGED <<present, want, governed>>

\* Users size and create the Deployments the operator does not hold, and delete any.
Ask(d, n) ==
    /\ d \in Names \ held
    /\ present' = present \cup {d}
    /\ want' = [want EXCEPT ![d] = n]
    /\ running' = [running EXCEPT ![d] = n]
    /\ UNCHANGED <<held, governed>>

Remove(d) ==
    /\ d \in present
    /\ present' = present \ {d} /\ held' = held \ {d}
    /\ want' = [want EXCEPT ![d] = 0]
    /\ running' = [running EXCEPT ![d] = 0]
    /\ UNCHANGED governed

Next ==
    \/ Begin \/ End
    \/ \E d \in Names :
          \/ Take(d) \/ Stop(d) \/ Resume(d) \/ GiveBack(d) \/ Remove(d)
          \/ \E n \in 0..MaxReplicas : Ask(d, n)

Spec == Init /\ [][Next]_vars
=============================================================================
