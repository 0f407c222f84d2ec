-------------------------- MODULE MCWorkloadScaling --------------------------
(***************************************************************************)
(* Instances of WorkloadScaling for TLC.                                   *)
(***************************************************************************)
EXTENDS WorkloadScaling

CONSTANTS api1, api2   \* Deployment names

\* No exclusion; one by name; one by label next to a malformed selector.
MCExclusions ==
    {{},
     {[name |-> api1, selector |-> NoSelector]},
     {[name |-> NoName, selector |-> {"gold"}], [name |-> NoName, selector |-> Malformed]}}

\* No exclusion, or the one by label.
MCLabelExclusions == {{}, {[name |-> NoName, selector |-> {"gold"}]}}

\* No exclusion at all.
MCNoExclusions == {{}}
=============================================================================
