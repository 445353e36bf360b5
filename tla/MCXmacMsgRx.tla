---------------------------- MODULE MCXmacMsgRx ----------------------------
(* XmacMsgRx on a small ring, for TLC.                                     *)
EXTENDS XmacMsgRx
=============================================================================
