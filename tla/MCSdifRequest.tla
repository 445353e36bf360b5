--------------------------- MODULE MCSdifRequest ---------------------------
(* SdifRequest with few requests and the environments of each run, for TLC.*)
EXTENDS SdifRequest

(* What the driver copes with: a prompt card with either setting, a lossy  *)
(* one with auto_stop.                                                     *)
Usual == {<<FALSE, {}>>, <<TRUE, {}>>, <<TRUE, {"lossy"}>>}

(* An answer may race the timeout.                                         *)
SlowCard == {<<TRUE, {"slow"}>>}

(* An answer may be lost before a SET_BLOCK_COUNT.                         *)
LossyCount == {<<FALSE, {"lossy"}>>}
=============================================================================
