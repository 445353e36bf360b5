----------------------------- MODULE MCXmacLink -----------------------------
(* XmacLink with few threads, for TLC.                                     *)
EXTENDS XmacLink, TLC

Symmetry == Permutations(Admin)
=============================================================================
