----------------------------- MODULE MCTransfer -----------------------------
(* Two requests that send three bytes in all, one of them the collection's  *)
(* own; two files of a byte each, of which the receiver exports one; steps  *)
(* of 50 percent and a bus of one event.                                    *)
EXTENDS Transfer

CONSTANTS q1, q2

MCExports == {[bytes |-> 1, files |-> 1]}
MCSize == [r \in Requests |-> IF r = q1 THEN 2 ELSE 1]
=============================================================================
