---------------------------- MODULE RateLimiter ----------------------------
(***************************************************************************)
(* The per-client limiter of crates/rendezvous/src/mailbox.rs on its own,  *)
(* against what a limiter owes: never more than Limit admissions in any    *)
(* window, and no rejection that the window does not justify.              *)
(***************************************************************************)
EXTENDS Mailbox, FiniteSets

CONSTANTS
  Clients,
  Limit,
  MaxTime,       \* bound: the clock stops here
  MaxAdmitted    \* bound: admissions per client

ASSUME RateLimiterAssumption ==
  /\ Limit \in Nat \ {0}
  /\ MaxTime \in Nat
  /\ MaxAdmitted \in Nat

VARIABLES
  now,
  queue,       \* RateLimiter.entries: what the code remembers of each client
  admitted,    \* history: the time of every admission
  last         \* history: the latest answer to each client

vars == <<now, queue, admitted, last>>

Init ==
  /\ now = 0
  /\ queue = [ip \in Clients |-> <<>>]
  /\ admitted = [ip \in Clients |-> <<>>]
  /\ last = [ip \in Clients |-> [ok |-> TRUE, at |-> 0]]

\* RateLimiter::check: prune, compare, record.
Check(ip) ==
  LET ok == Admits(queue[ip], now, Limit) IN
  /\ Len(admitted[ip]) < MaxAdmitted
  /\ queue' = [queue EXCEPT ![ip] = Checked(@, now, Limit)]
  /\ admitted' = IF ok THEN [admitted EXCEPT ![ip] = Append(@, now)] ELSE admitted
  /\ last' = [last EXCEPT ![ip] = [ok |-> ok, at |-> now]]
  /\ UNCHANGED now

Tick ==
  /\ now < MaxTime
  /\ now' = now + 1
  /\ UNCHANGED <<queue, admitted, last>>

Next == Tick \/ \E ip \in Clients : Check(ip)

Spec == Init /\ [][Next]_vars

-----------------------------------------------------------------------------
\* The remembered and the recorded times are instants of the clock.
TypeOK ==
  /\ now \in 0 .. MaxTime
  /\ queue \in [Clients -> Seq(0 .. MaxTime)]
  /\ admitted \in [Clients -> Seq(0 .. MaxTime)]
  /\ last \in [Clients -> [ok : BOOLEAN, at : 0 .. MaxTime]]

\* However the accesses fall, Limit + 1 admissions of one client span at least a
\* window: the sliding window never lets a burst through at a window boundary.
NoBurst ==
  \A ip \in Clients : \A i \in DOMAIN admitted[ip] :
    i + Limit \in DOMAIN admitted[ip]
      => admitted[ip][i + Limit] - admitted[ip][i] >= Window

\* A client is turned away only when Limit of its own admissions lie in the last
\* window: rejected accesses and other clients never count against it.
RejectionJustified ==
  \A ip \in Clients : ~last[ip].ok =>
    Cardinality({i \in DOMAIN admitted[ip] : last[ip].at - admitted[ip][i] < Window}) >= Limit

\* The memory of a client is bounded: rejected accesses are not recorded, so its
\* queue never grows beyond the limit, and it holds no instant that is still to
\* come (RateLimiter::check, mailbox.rs:200-216).
QueueBounded ==
  \A ip \in Clients :
    /\ Len(queue[ip]) <= Limit
    /\ \A i \in DOMAIN queue[ip] : queue[ip][i] <= now

\* What the code's queue of a client has to do with its admissions, at time t: it
\* is their end, what was dropped from it is at least a window old, and they are
\* in order and spread out.
Agree(q, a, t) ==
  /\ Len(q) <= Len(a)
  /\ Len(q) <= Limit
  /\ \A i \in 1 .. Len(q) : q[i] = a[Len(a) - Len(q) + i]
  /\ \A i \in 1 .. Len(a) - Len(q) : t - a[i] >= Window
  /\ \A i \in 1 .. Len(a) : a[i] <= t
  /\ \A i, j \in 1 .. Len(a) : i <= j => a[i] <= a[j]
  /\ \A i \in 1 .. Len(a) : i + Limit <= Len(a) => a[i + Limit] - a[i] >= Window

Inv ==
  /\ TypeOK
  /\ \A ip \in Clients : Agree(queue[ip], admitted[ip], now)
  /\ RejectionJustified
=============================================================================
