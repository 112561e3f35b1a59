--------------------------------- MODULE MCTurn --------------------------------
(* A small instance of Turn for TLC.                                       *)
EXTENDS Turn, TLC

CONSTANTS w1, rd, m1, zt, b1

MCHandles == {w1, rd}
MCWriters == {w1}
MCMagics == {m1}
MCBytes == {b1}
MCPayloads == {<< >>, <<b1>>}

\* The message type numbered last, and a marker numbered in front of the rest.
MCTypes == {TypeDev, TxBegin}
=============================================================================
