----------------------------- MODULE MCSessionLog -----------------------------
(***************************************************************************)
(* SessionLog and LogBudget for TLC: one log, with the writes that make the*)
(* interesting cases happen (a stretch that cannot be cut and outgrows     *)
(* twice the capacity, a safe place in the middle of a write, at its end,  *)
(* before and after the length at which a record is closed), and all logs  *)
(* together.  They share no variable: a behaviour takes the steps of one   *)
(* of them, and the other stays where it starts.                           *)
(***************************************************************************)
EXTENDS SessionLogReads, LogBudget

S == [safe |-> TRUE, modes |-> "m0"]
T == [safe |-> TRUE, modes |-> "m1"]
U == [safe |-> FALSE, modes |-> "m0"]
V == [safe |-> FALSE, modes |-> "m1"]

MCPieces == { <<U, V, V>>, <<V, T>>, <<T, V, S, V, V>> }

VARIABLE part
MCInit ==
    /\ part \in {"log", "budget"}
    /\ Init /\ BudgetInit
    /\ part # "budget" => ~whole
MCNext ==
    /\ UNCHANGED part
    /\ \/ part = "log" /\ Next /\ UNCHANGED budgetVars
       \/ part = "budget" /\ BudgetNext /\ UNCHANGED vars

\* The fairness of each where its part is taken; a call that runs is one of
\* the log's part
InBudget(action) == part = "budget" /\ action
MCSpec ==
    /\ MCInit /\ [][MCNext]_<<vars, budgetVars, part>>
    /\ WF_vars(Running)
    /\ \A s \in Sessions : WF_budgetVars(InBudget(Enforces(s)))
    /\ WF_budgetVars(InBudget(Released))
=============================================================================
