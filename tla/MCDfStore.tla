----------------------------- MODULE MCDfStore -----------------------------
(***************************************************************************)
(* Instances of DfStore: one task of the main thread (startup builds, the  *)
(* scheduler, TTL removal) and two HTTP workers.                           *)
(***************************************************************************)
EXTENDS DfStore, TLC

CONSTANTS a, b, m, c1, c2

OneName == {a}
TwoNames == {a, b}
MCTasks == {m, c1, c2}
MCMain == {m}

\* Startup builds against reloads; and everything that takes the mutex.
MCScenarios ==
    {{"startup", "reload", "try_reload", "touch"},
     {"reload", "try_reload", "touch", "register", "unregister"}}

Reloads == {{"reload", "try_reload"}}

Workers == Permutations({c1, c2})

=============================================================================
