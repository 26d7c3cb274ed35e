--------------------------- MODULE MCGenerations ---------------------------
(***************************************************************************)
(* An instance of Generations with two SQL texts.                          *)
(***************************************************************************)
EXTENDS Generations, TLC

CONSTANTS q1, q2

MCSqls == {q1, q2}
SqlTexts == Permutations(MCSqls)

=============================================================================
