----------------------------- MODULE MCUsbHost -----------------------------
(***************************************************************************)
(* UsbHost with three addresses, two keycodes and a few changes of the     *)
(* port.                                                                   *)
(***************************************************************************)
EXTENDS UsbHost

MCKeycodes == {0, 4}
=============================================================================
