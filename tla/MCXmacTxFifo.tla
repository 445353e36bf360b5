---------------------------- MODULE MCXmacTxFifo ----------------------------
(* XmacTxFifo on a small ring, for TLC.                                    *)
EXTENDS XmacTxFifo, TLC

Symmetry == Permutations(Mbuf)
=============================================================================
