------------------------------- MODULE MCBridge -------------------------------
(* Bridge with the constants of a .cfg file.                               *)
EXTENDS Bridge
=============================================================================
