-------------------------- MODULE MCDuckRegistry --------------------------
(***************************************************************************)
(* Instances of DuckRegistry: one dataset, two tasks, two connections.     *)
(***************************************************************************)
EXTENDS DuckRegistry, TLC

CONSTANTS a, t1, t2

MCNames == {a}
MCTasks == {t1, t2}
\* Files, queries that are spilled, and queries whose size decides.
MCConfig ==
    {[form |-> "table", managed |-> FALSE], [form |-> "lazy", managed |-> FALSE],
     [form |-> "auto", managed |-> TRUE]}

Callers == Permutations(MCTasks)

=============================================================================
