--------------------------- MODULE MCBudgetActions ---------------------------
(* The actions of one campaign, as the cfgs bound them.                     *)
EXTENDS BudgetActions

=============================================================================
