--------------------------------- MODULE MCWal ---------------------------------
(* Small instances of Wal for TLC.                                         *)
EXTENDS WalInv, TLC

CONSTANTS w1, rd, m1, t1, t2, zt, b1, b2

OneHandle == {w1}
TwoHandles == {w1, rd}
OneMagic == {m1}
OneType == {t1}
TwoTypes == {t1, t2}
OneByte == {b1}
TwoBytes == {b1, b2}

NoOrOneByte == {<< >>, <<b1>>}
UpToTwoBytes == {<< >>, <<b1>>, <<b1, b1>>}
OneOrTwoBytes == {<<b1>>, <<b1, b2>>}
=============================================================================
