----------------------------- MODULE Deployment -----------------------------
(***************************************************************************)
(* A Deployment as the governor sees it, and the pure operations on it:    *)
(* the operator's annotations (internal/actions/scaledown.go), the merge   *)
(* patch that client.MergeFrom sends, and the exclusion predicates of      *)
(* internal/idle/detector.go.                                              *)
(*                                                                         *)
(* Data abstraction: the timestamp and reason annotations travel with the  *)
(* other two and no property tells them apart; a label set is an opaque    *)
(* value and a selector is the set of label sets it matches.               *)
(***************************************************************************)
EXTENDS Naturals

CONSTANTS
    Names,        \* names of the Deployments of the namespace
    MaxReplicas,  \* bound on spec.replicas
    LabelSets,    \* the label sets a Deployment may carry
    Absent,       \* "no such object"
    Missing,      \* the original-replicas annotation is not there
    Garbage,      \* it is there and ParseInt or the API server refuses it
    NoName,       \* the empty string in Exclusion.Name
    NoSelector,   \* a nil Exclusion.LabelSelector
    Malformed     \* a selector LabelSelectorAsSelector rejects

ASSUME MaxReplicasAssumption == MaxReplicas \in Nat \ {0}
ASSUME NoNameAssumption == NoName \notin Names
ASSUME RecordAssumption ==
    /\ Missing \notin 0..MaxReplicas
    /\ Garbage \notin 0..MaxReplicas
    /\ Missing # Garbage

Replicas == 0..MaxReplicas

(***************************************************************************)
(* by stands for the scaled-down-by annotation, orig for                   *)
(* original-replicas.  spec.replicas is never nil in an object read from   *)
(* the API server, which defaults it to 1.                                 *)
(***************************************************************************)
Object == [replicas : Replicas,
           by       : {"governor", "none"},
           orig     : Replicas \cup {Missing, Garbage},
           labels   : LabelSets]

ASSUME AbsentAssumption == Absent \notin Object

\* A Deployment as a user creates it.
Fresh(n, l) == [replicas |-> n, by |-> "none", orig |-> Missing, labels |-> l]

IsScaledDownByOperator(o) == o.by = "governor"

\* The annotation ParseInt accepts.
HasRecord(o) == o.orig \in Replicas

-----------------------------------------------------------------------------
(***************************************************************************)
(* client.MergeFrom(base) followed by Patch(new): the request carries only *)
(* the fields in which new differs from base, and no resourceVersion, so   *)
(* the server applies them to whatever the object is by then (cur).  No    *)
(* handler edits labels.                                                   *)
(***************************************************************************)
MergedField(cur, base, new) == IF new = base THEN cur ELSE new

MergePatch(cur, base, new) ==
    [replicas |-> MergedField(cur.replicas, base.replicas, new.replicas),
     by       |-> MergedField(cur.by, base.by, new.by),
     orig     |-> MergedField(cur.orig, base.orig, new.orig),
     labels   |-> cur.labels]

\* ScaleDown's first patch.
AnnotatedForm(o) ==
    [replicas |-> o.replicas, by |-> "governor", orig |-> o.replicas, labels |-> o.labels]

\* ScaleDown's second patch.
ZeroedForm(o) ==
    [replicas |-> 0, by |-> o.by, orig |-> o.orig, labels |-> o.labels]

\* Mutant: Restore brings back one replica whatever was recorded.
RestoredToOne(o) ==
    [replicas |-> 1, by |-> o.by, orig |-> o.orig, labels |-> o.labels]

\* Restore's first patch.
RestoredForm(o) ==
    [replicas |-> o.orig, by |-> o.by, orig |-> o.orig, labels |-> o.labels]

\* Mutant: Restore leaves the actor annotation behind.
UnmarkedExceptActor(o) ==
    [replicas |-> o.replicas, by |-> o.by, orig |-> Missing, labels |-> o.labels]

\* Restore's second patch.
UnmarkedForm(o) ==
    [replicas |-> o.replicas, by |-> "none", orig |-> Missing, labels |-> o.labels]

\* The single patch of `kubectl budget restore`.
ReleasedForm(o) == UnmarkedForm(RestoredForm(o))

-----------------------------------------------------------------------------
(***************************************************************************)
(* Exclusions.  A nil and a malformed selector exclude nothing.            *)
(***************************************************************************)
Exclusion == [name     : Names \cup {NoName},
              selector : (SUBSET LabelSets) \cup {NoSelector, Malformed}]

IsExcluded(name, exclusions) ==
    \E ex \in exclusions : ex.name # NoName /\ ex.name = name

IsLabelExcluded(labels, exclusions) ==
    \E ex \in exclusions :
        /\ ex.selector \notin {NoSelector, Malformed}
        /\ labels \in ex.selector

\* Both checks, as the reconciler's filter and SuspendAll apply them.
Excluded(name, o, exclusions) ==
    IsExcluded(name, exclusions) \/ IsLabelExcluded(o.labels, exclusions)
=============================================================================
