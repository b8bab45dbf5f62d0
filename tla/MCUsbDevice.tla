---------------------------- MODULE MCUsbDevice -----------------------------
(* UsbDevice with the constants of a .cfg file.                            *)
EXTENDS UsbDevice
=============================================================================
