-------------------------------- MODULE Sums --------------------------------
(* Sums over finite sets.                                                  *)
EXTENDS Integers, FiniteSets, Folds

\* The sum of f[x] over the elements x of S.
SumOf(f, S) ==
    MapThenFoldSet(LAMBDA x, y : x + y, 0, LAMBDA x : f[x], LAMBDA s : CHOOSE x \in s : TRUE, S)
=============================================================================
