----------------------------- MODULE MCSession -----------------------------
(* Instances of Session for TLC.                                           *)
EXTENDS Session, TLC

CONSTANTS r1, r2

MCReceivers == {r1, r2}

MCStored == {r2}
=============================================================================
