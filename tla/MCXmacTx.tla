------------------------------ MODULE MCXmacTx ------------------------------
(* XmacTx on the smallest ring, for TLC.                                   *)
EXTENDS XmacTx
=============================================================================
