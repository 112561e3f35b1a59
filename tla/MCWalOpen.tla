------------------------------- MODULE MCWalOpen -------------------------------
(* A small instance of WalOpen for TLC.                                    *)
EXTENDS WalOpen, TLC

CONSTANTS h1, h2, m1, t1, zt, b1

MCHandles == {h1, h2}
MCMagics == {m1}
MCTypes == {t1}
MCBytes == {b1}
MCPayloads == {<< >>}
=============================================================================
