---------------------------- MODULE MCRendezvous ----------------------------
(* Instances of Rendezvous for TLC.                                        *)
EXTENDS Rendezvous

CONSTANTS s1, s2, c1

MCSlots == {s1, s2}
MCClients == {c1}
=============================================================================
