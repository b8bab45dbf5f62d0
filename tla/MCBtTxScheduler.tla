--------------------------- MODULE MCBtTxScheduler ---------------------------
(* BtTxScheduler with the constants of a .cfg file.                        *)
EXTENDS BtTxScheduler
=============================================================================
