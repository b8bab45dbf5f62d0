---------------------------- MODULE MCAudioEpoch ----------------------------
(* The epoch store on small instances.                                     *)
EXTENDS AudioEpoch
=============================================================================
