------------------------------ MODULE OneShot ------------------------------
(***************************************************************************)
(* What the rendezvous mailbox promises, without nameplates, requests,     *)
(* locks or a cleanup task: a deposited ticket stays available until its   *)
(* promised deadline, unless it is handed out, and it is handed out once.  *)
(***************************************************************************)
EXTENDS Integers

CONSTANT Tickets

VARIABLES
  clock,
  box,        \* what has become of each ticket
  deadline    \* until when the depositor was promised the ticket is kept

vars == <<clock, box, deadline>>

Init ==
  /\ clock = 0
  /\ box = [t \in Tickets |-> "absent"]
  /\ deadline = [t \in Tickets |-> 0]

\* The depositor is told any deadline.
Deposit(t) ==
  /\ box[t] = "absent"
  /\ box' = [box EXCEPT ![t] = "open"]
  /\ deadline'[t] \in Nat
  /\ deadline' = [deadline EXCEPT ![t] = deadline'[t]]
  /\ UNCHANGED clock

HandOut(t) ==
  /\ box[t] = "open"
  /\ box' = [box EXCEPT ![t] = "taken"]
  /\ UNCHANGED <<clock, deadline>>

Lapses(t) == box[t] = "open" /\ box'[t] = "lapsed" /\ deadline[t] <= clock'

\* Time passes; some open tickets are given up, none before its deadline.
Advance ==
  /\ clock' = clock + 1
  /\ box' = [t \in Tickets |-> box'[t]]
  /\ \A t \in Tickets : box'[t] = box[t] \/ Lapses(t)
  /\ UNCHANGED deadline

Next ==
  \/ \E t \in Tickets : Deposit(t) \/ HandOut(t)
  \/ Advance

Spec == Init /\ [][Next]_vars
=============================================================================
