---------------------------- MODULE MCSdifSettings ----------------------------
(* SdifSettings for TLC.                                                   *)
EXTENDS SdifSettings
=============================================================================
