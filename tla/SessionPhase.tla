---------------------------- MODULE SessionPhase ----------------------------
(***************************************************************************)
(* The phase machine of a session: crates/core/src/session/state.rs.       *)
(***************************************************************************)

Phase ==
  {"Created", "PendingPair", "Paired", "Transferring", "Done", "Cancelled", "Failed"}

TransitionDoneFromPairedMutant(phase, event) ==
  CASE phase = "Created" /\ event = "StartPairing" -> "PendingPair"
    [] phase = "PendingPair" /\ event = "PairConfirmed" -> "Paired"
    [] phase = "Transferring" /\ event = "TransferStarted" -> "Transferring"
    [] phase = "Transferring" /\ event = "Completed" -> "Done"
    [] phase \in {"Created", "PendingPair", "Paired", "Transferring"}
         /\ event \in {"Cancelled", "Failed"} -> event
    [] OTHER -> "illegal"

\* SessionPhase::transition; "illegal" is the TransitionError.
Transition(phase, event) ==
  CASE phase = "Created" /\ event = "StartPairing" -> "PendingPair"
    [] phase = "PendingPair" /\ event = "PairConfirmed" -> "Paired"
    [] phase = "Paired" /\ event = "TransferStarted" -> "Transferring"
    [] phase = "Transferring" /\ event = "Completed" -> "Done"
    [] phase \in {"Created", "PendingPair", "Paired", "Transferring"}
         /\ event \in {"Cancelled", "Failed"} -> event
    [] OTHER -> "illegal"
=============================================================================
