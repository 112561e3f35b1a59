--------------------------------- MODULE MCTmp ---------------------------------
(* Small instances of Tmp for TLC.                                         *)
EXTENDS Tmp, TLC

CONSTANTS c1, c2

OneCaller == {c1}
TwoCallers == {c1, c2}

\* Two callers do the same.
EitherCaller == Permutations(TwoCallers)
=============================================================================
