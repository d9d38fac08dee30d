---------------------------- MODULE MCMachine ----------------------------
(* Two threads with a few commands each, every one in a process of its own. *)
EXTENDS Machine

OwnProcess == [t \in Threads |-> t]
=============================================================================
