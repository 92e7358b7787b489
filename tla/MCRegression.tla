---------------------------- MODULE MCRegression ----------------------------
(* Two interchangeable rules, so that one fails while the other is captured; *)
(* for liveness, where symmetry is unsound, a single one.                    *)
EXTENDS Regression, TLC
CONSTANTS r1, r2
Symmetry == Permutations({r1, r2})
=============================================================================
