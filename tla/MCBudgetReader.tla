--------------------------- MODULE MCBudgetReader ---------------------------
(***************************************************************************)
(* Two minors whose bodies have two and three words: the smallest page a   *)
(* read can tear, and the smallest tail a minor can append.                *)
(***************************************************************************)
EXTENDS BudgetReader

MCBodyWords == [m \in Minors |-> m + 2]
=============================================================================
