----------------------------- MODULE MCGovernor -----------------------------
(***************************************************************************)
(* An instance of Governor for TLC.                                        *)
(***************************************************************************)
EXTENDS Governor

CONSTANT api1   \* a Deployment name

\* The second day of a period is Exceeded, the third Suspended.
MCLimits == [d \in {"cpu", "mem"} |-> IF d = "cpu" THEN 1 ELSE 50]

\* No exclusion at all.
MCNoExclusions == {{}}
=============================================================================
