--------------------------- MODULE MCSdifHotplug ---------------------------
(* SdifHotplug, with a card that waits (MCSdifHotplug.cfg) or does not.    *)
EXTENDS SdifHotplug
=============================================================================
