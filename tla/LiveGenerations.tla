-------------------------- MODULE LiveGenerations ---------------------------
(***************************************************************************)
(* What a backend promises the readers of its datasets, whatever reloads,  *)
(* registrations, first touches and scheduled builds do at once: each      *)
(* dataset has at most one live generation, replaced in one step by a      *)
(* newer one, taken away, and never set back to an older one.              *)
(*                                                                         *)
(* DfStore and DuckRegistry implement it.  Generations are numbered in the *)
(* order in which their builds began; 0 is none.                           *)
(***************************************************************************)
EXTENDS Naturals

CONSTANT Names

VARIABLE live   \* the generation the queries of a dataset read

Init == live \in [Names -> Nat]

Only(n) == \A m \in Names \ {n} : live'[m] = live[m]

Publish(n) == live'[n] > live[n] /\ Only(n)

Withdraw(n) == live'[n] = 0 /\ Only(n)

Next == \E n \in Names : Publish(n) \/ Withdraw(n)

Spec == Init /\ [][Next]_live
=============================================================================
