------------------------- MODULE MCBudgetReconcile -------------------------
(***************************************************************************)
(* Instances of BudgetReconcile for TLC.                                   *)
(***************************************************************************)
EXTENDS BudgetReconcile, TLC

\* No budget in either dimension: the phase is always OK.
MCUnlimited == [d \in Dims |-> 0]

\* A CPU budget that one unit a day takes through every phase, day 4 to day 6, and
\* a memory budget it never reaches.
MCLimits == [d \in Dims |-> IF d = "cpu" THEN 5 ELSE 50]

\* Which process is which makes no difference.
MCSymmetry == Permutations(Procs)
=============================================================================
