-------------------------------- MODULE MCLink --------------------------------
(* Link with the constants of a .cfg file.                                 *)
EXTENDS Link
=============================================================================
