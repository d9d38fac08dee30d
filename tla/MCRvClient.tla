---------------------------- MODULE MCRvClient ----------------------------
(* Two send flows that may draw one nameplate; two receive flows, at which a *)
(* code may be typed rightly, in another spelling, or not be a code at all.  *)
EXTENDS RvClient, TLC

W(w, sp) == [word |-> w, spelling |-> sp]
T(h, d, n, ws) == [hyphen |-> h, plate |-> [digits |-> d, value |-> n], words |-> ws]

MCTyped ==
  {T(TRUE, TRUE, 1, <<W("acid", "lower")>>), T(TRUE, TRUE, 1, <<W("acid", "other")>>),
   T(TRUE, FALSE, 1, <<W("acid", "lower")>>)}

MCSymmetry == Permutations(Senders) \cup Permutations(Receivers)
=============================================================================
