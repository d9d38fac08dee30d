------------------------------ MODULE MCBridge ------------------------------
(* An instance of Bridge for TLC.                                          *)
EXTENDS Bridge, TLC

CONSTANTS t1, t2, t3

MCCallers == {t1, t2, t3}
=============================================================================
