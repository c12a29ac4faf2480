----------------------------- MODULE MCRunExecutor -----------------------------
(***************************************************************************)
(* RunExecutor for TLC: the code's default limits and budgets, and tighter *)
(* and wider ones.                                                         *)
(***************************************************************************)
EXTENDS RunExecutor

MCDefault == [scout |-> 1, writer |-> 2, total |-> 12]

MCLimits ==
    {MCDefault, [scout |-> 0, writer |-> 0, total |-> 12],
     [scout |-> 2, writer |-> 1, total |-> 7], [scout |-> 2, writer |-> 3, total |-> 15]}

MCBudgets ==
    {[attempts |-> 1, invocations |-> 12], [attempts |-> 2, invocations |-> 12],
     [attempts |-> 3, invocations |-> 9], [attempts |-> 3, invocations |-> 20]}
=============================================================================
