------------------------------ MODULE MCXmacRx ------------------------------
(* XmacRx on a small ring, for TLC.                                        *)
EXTENDS XmacRx
=============================================================================
