--------------------------- MODULE MCBudgetMonitor ---------------------------
(* BudgetMonitor for TLC: two receiver processes and one budget.           *)
EXTENDS BudgetMonitor
=============================================================================
