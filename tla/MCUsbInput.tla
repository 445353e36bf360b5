----------------------------- MODULE MCUsbInput -----------------------------
(* UsbInput with descriptors for TLC to reuse.                             *)
EXTENDS UsbInput
=============================================================================
