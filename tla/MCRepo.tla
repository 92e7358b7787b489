------------------------------- MODULE MCRepo -------------------------------
(* Two rules, two days and three processes: a second process of the same day *)
(* and one of the next.                                                      *)
EXTENDS Repo, TLC
CONSTANTS r1, r2
Symmetry == Permutations({r1, r2})
=============================================================================
