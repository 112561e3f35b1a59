--------------------------------- MODULE MCProc ---------------------------------
(* A small instance of Proc for TLC.                                       *)
EXTENDS Proc

MCStreams == {"out", "err"}
MCCaps == {-1, 0, 1, 2}
=============================================================================
