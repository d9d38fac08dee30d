------------------------------ MODULE Handover ------------------------------
(***************************************************************************)
(* What two flows that pair over a code owe their users, without codes,    *)
(* streams, messages or timers: one receiver is asked, the files go to     *)
(* nobody but a receiver that agreed, and an outcome that is reported is   *)
(* true.                                                                   *)
(***************************************************************************)
CONSTANT Receivers

VARIABLES
  answer,   \* what each receiver has answered the offer
  got,      \* the receivers that have all the files
  sender,   \* what the sender reports
  receiver  \* what each receiver reports

vars == <<answer, got, sender, receiver>>

Answers == {"none", "yes", "no"}

Reports == {"completed", "declined", "cancelled", "failed", "aborted"}

Init ==
  /\ answer = [r \in Receivers |-> "none"]
  /\ got = {}
  /\ sender = "running"
  /\ receiver = [r \in Receivers |-> "running"]

\* Nobody has been asked before.
Answer(r, a) ==
  /\ receiver[r] = "running"
  /\ \A q \in Receivers : answer[q] = "none"
  /\ answer' = [answer EXCEPT ![r] = a]
  /\ UNCHANGED <<got, sender, receiver>>

Deliver(r) ==
  /\ receiver[r] = "running"
  /\ answer[r] = "yes"
  /\ got' = got \cup {r}
  /\ UNCHANGED <<answer, sender, receiver>>

SenderReports(o) ==
  /\ sender = "running"
  /\ o = "completed" => got # {}
  /\ o = "declined" => \E r \in Receivers : answer[r] = "no"
  /\ sender' = o
  /\ UNCHANGED <<answer, got, receiver>>

ReceiverReports(r, o) ==
  /\ receiver[r] = "running"
  /\ o = "completed" => r \in got
  /\ o = "declined" => answer[r] = "no"
  /\ receiver' = [receiver EXCEPT ![r] = o]
  /\ UNCHANGED <<answer, got, sender>>

Next ==
  \/ \E r \in Receivers, a \in {"yes", "no"} : Answer(r, a)
  \/ \E r \in Receivers : Deliver(r)
  \/ \E o \in Reports : SenderReports(o)
  \/ \E r \in Receivers, o \in Reports : ReceiverReports(r, o)

Spec == Init /\ [][Next]_vars
=============================================================================
