------------------------- MODULE MCCascadeRefresh -------------------------
(***************************************************************************)
(* An instance of CascadeRefresh in which c is derived from a and from b,  *)
(* so that two triggers, a tick and a client may race for it.              *)
(***************************************************************************)
EXTENDS CascadeRefresh

CONSTANTS a, b, c

MCNames == {a, b, c}
FanIn == [n \in MCNames |-> IF n = c THEN {} ELSE {c}]
MCScheduled == MCNames

=============================================================================
