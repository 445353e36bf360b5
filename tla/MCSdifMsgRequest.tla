-------------------------- MODULE MCSdifMsgRequest --------------------------
(* SdifMsgRequest with few threads, for TLC.                               *)
EXTENDS SdifMsgRequest

(* A card that answers in time, with either setting of auto_stop, and one  *)
(* that may lose answers, with auto_stop.                                  *)
Usual == {<<FALSE, {}>>, <<TRUE, {}>>, <<TRUE, {"lossy"}>>}
=============================================================================
