------------------------------- MODULE MCDvfs -------------------------------
(* Dvfs with the constants of a .cfg file.                                 *)
EXTENDS Dvfs
=============================================================================
