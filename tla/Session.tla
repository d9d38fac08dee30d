------------------------------ MODULE Session ------------------------------
(***************************************************************************)
(* One send flow and the receive flows that hold its code: run_send and    *)
(* run_receive of crates/cli, over the control stream, with the phase      *)
(* machine of crates/core/src/session/state.rs.                            *)
(*                                                                         *)
(* The control connection of a receiver is a QUIC connection: messages of  *)
(* a direction arrive in order, and when an end closes the connection what *)
(* it had written but the peer has not received yet may be gone            *)
(* (core/tests/e2e.rs:708).  So ending a flow cuts its outgoing queue at   *)
(* an arbitrary place; what is left can still be read, then reads fail.    *)
(*                                                                         *)
(* Timers are not counted: a bounded wait may time out at any moment.      *)
(* Ctrl+C is a flag, because the interrupt future stays ready until a      *)
(* select polls it; the selects are biased, so a set flag wins there.      *)
(***************************************************************************)
EXTENDS Integers, Sequences, SessionPhase

CONSTANTS
  Receivers,   \* receive flows given the code
  Stored,      \* those whose store has every chunk from an earlier attempt
  Nobody       \* no receiver

ASSUME SessionAssumption ==
  /\ Stored \subseteq Receivers
  /\ Nobody \notin Receivers

VARIABLES
  s_at,        \* where the send flow waits, or what it reported
  s_phase,     \* its Session
  s_int,       \* Ctrl+C was pressed at the sender
  control_rx,  \* the receivers whose connections the acceptor queued
  peer,        \* the receiver whose connection the sender took
  pairing,     \* run_send's pairing: Some once published
  r_at,
  r_phase,
  r_int,
  right_words, \* whether the words typed at each receiver are the sender's
  available,   \* the ticket can be claimed at the rendezvous
  link,        \* each receiver's control connection is up
  to_s,        \* messages of each receiver on their way to the sender
  to_peer,     \* messages of the sender on their way to peer
  answer,      \* history: what each receiver put on the wire
  got          \* history: the receivers that exported all the files

s_vars == <<s_at, s_phase, s_int, control_rx, peer, pairing>>
r_vars == <<r_at, r_phase, r_int, right_words>>
history == <<answer, got>>
vars == <<s_vars, r_vars, available, link, to_s, to_peer, history>>

SenderWaits ==
  {"preparing", "waiting", "hello", "pake", "confirm", "offered", "transfer"}

ReceiverWaits ==
  {"claiming", "dialing", "hello", "pake", "confirm", "offer", "prompt",
   "download", "export", "reporting", "declining", "closing"}

Reports == {"completed", "declined", "cancelled", "failed", "aborted"}

Message ==
  {"hello", "pake", "confirm", "offer", "accept", "decline", "cancel",
   "result", "short_result", "garbled"}

Init ==
  /\ s_at = "preparing"
  /\ s_phase = "PendingPair"
  /\ s_int = FALSE
  /\ control_rx = <<>>
  /\ peer = Nobody
  /\ pairing = FALSE
  /\ r_at = [r \in Receivers |-> "claiming"]
  /\ r_phase = [r \in Receivers |-> "Created"]
  /\ r_int = [r \in Receivers |-> FALSE]
  /\ right_words \in [Receivers -> BOOLEAN]
  /\ available = FALSE
  /\ link = [r \in Receivers |-> FALSE]
  /\ to_s = [r \in Receivers |-> <<>>]
  /\ to_peer = <<>>
  /\ answer = [r \in Receivers |-> "none"]
  /\ got = {}

-----------------------------------------------------------------------------
(* The send flow.                                                          *)

Prefixes(q) == {SubSeq(q, 1, k) : k \in 0 .. Len(q)}

\* What the sender may read next, and whether it is m.
Incoming(m) == peer # Nobody /\ to_s[peer] # <<>> /\ Head(to_s[peer]) = m

SenderReads == to_s' = [to_s EXCEPT ![peer] = Tail(@)]

\* A write on a connection that is gone vanishes (or fails: SenderLost).
SenderWrites(ms) == to_peer' = IF link[peer] THEN to_peer \o ms ELSE to_peer

\* Whether run_send calls rv.cleanup on its way out.
Cleans == pairing

\* run_send_inner returned o after writing ms; cleanup, then engine.shutdown,
\* which closes every connection.  The cleanup is best-effort.
SenderEnds(o, ms) ==
  /\ s_at' = o
  /\ available' \in IF Cleans THEN {FALSE, available} ELSE {available}
  /\ link' = [r \in Receivers |-> FALSE]
  /\ to_peer' \in IF peer # Nobody /\ link[peer]
                  THEN Prefixes(to_peer \o ms) ELSE {to_peer}
  /\ UNCHANGED <<s_int, control_rx, peer, pairing, r_vars, history>>

\* Walk, import, allocate, publish.
Publishes ==
  /\ s_at = "preparing"
  /\ s_at' = "waiting"
  /\ pairing' = TRUE
  /\ available' = TRUE
  /\ UNCHANGED <<s_phase, s_int, control_rx, peer, r_vars, link, to_s, to_peer, history>>

\* A failed allocate, or a failed publish that may have reached the server; the
\* pairing is recorded only after a publish that succeeded.
PrepareFails ==
  /\ s_at = "preparing"
  /\ s_at' = "failed"
  /\ available' \in BOOLEAN
  /\ UNCHANGED <<s_phase, s_int, control_rx, peer, pairing, r_vars, link, to_s, to_peer, history>>

\* The first connection out of control_rx, and no other.
TakesConnection ==
  /\ s_at = "waiting" /\ ~s_int
  /\ control_rx # <<>>
  /\ peer' = Head(control_rx)
  /\ control_rx' = Tail(control_rx)
  /\ s_at' = "hello"
  /\ UNCHANGED <<s_phase, s_int, pairing, r_vars, available, link,
                 to_s, to_peer, history>>

SenderHello ==
  /\ s_at = "hello" /\ Incoming("hello")
  /\ SenderReads /\ SenderWrites(<<"hello">>)
  /\ s_at' = "pake"
  /\ UNCHANGED <<s_phase, s_int, control_rx, peer, pairing, r_vars, available, link, history>>

SenderPake ==
  /\ s_at = "pake" /\ Incoming("pake")
  /\ SenderReads /\ SenderWrites(<<"pake">>)
  /\ s_at' = "confirm"
  /\ UNCHANGED <<s_phase, s_int, control_rx, peer, pairing, r_vars, available, link, history>>

VerifiesAnyMutant(r) == TRUE

\* Key confirmation: the tokens agree exactly when the words do.
Verifies(r) == right_words[r]

\* The confirm token goes out before the peer's is verified.
SenderConfirm ==
  /\ s_at = "confirm" /\ Incoming("confirm")
  /\ SenderReads
  /\ IF Verifies(peer)
     THEN /\ SenderWrites(<<"confirm", "offer">>)
          /\ s_phase' = Transition(s_phase, "PairConfirmed")
          /\ s_at' = "offered"
          /\ UNCHANGED <<s_int, control_rx, peer, pairing, r_vars, available, link, history>>
     ELSE SenderEnds("failed", <<"confirm">>) /\ UNCHANGED s_phase

\* Cancel, where a handshake frame is expected, does not decode as one.
SenderRejectsFrame ==
  /\ s_at \in {"pake", "confirm"} /\ Incoming("cancel")
  /\ SenderReads
  /\ SenderEnds("failed", <<>>)
  /\ UNCHANGED s_phase

SenderAccepted ==
  /\ s_at = "offered" /\ ~s_int /\ Incoming("accept")
  /\ SenderReads
  /\ s_phase' = Transition(s_phase, "TransferStarted")
  /\ s_at' = "transfer"
  /\ UNCHANGED <<s_int, control_rx, peer, pairing, r_vars, available, link, to_peer, history>>

\* The session is left in Paired.
SenderDeclined ==
  /\ s_at = "offered" /\ ~s_int /\ Incoming("decline")
  /\ SenderReads
  /\ SenderEnds("declined", <<>>)
  /\ UNCHANGED s_phase

SenderCancelled ==
  /\ s_at \in {"offered", "transfer"} /\ ~s_int /\ Incoming("cancel")
  /\ SenderReads
  /\ s_phase' = Transition(s_phase, "Cancelled")
  /\ SenderEnds("cancelled", <<>>)

\* result_matches: a skipped file that was accounted as 0 bytes falls short.
ResultMatches(m) == m = "result"

SenderResult ==
  /\ s_at = "transfer" /\ ~s_int
  /\ \E m \in {"result", "short_result"} :
       /\ Incoming(m)
       /\ SenderReads
       /\ IF ResultMatches(m)
          THEN /\ s_phase' = Transition(s_phase, "Completed")
               /\ SenderEnds("completed", <<>>)
          ELSE SenderEnds("failed", <<>>) /\ UNCHANGED s_phase

\* transfer_phase rebuilds its read at every 100 ms tick: a frame that has
\* arrived in part is torn; what is left of it no longer parses as a length, or
\* is too short to be read as one.
TickTearsFrame ==
  /\ s_at = "transfer" /\ to_s[peer] # <<>> /\ ~Incoming("garbled")
  /\ \E rest \in {<<>>, <<"garbled">>} :
       to_s' = [to_s EXCEPT ![peer] = rest \o Tail(@)]
  /\ UNCHANGED <<s_vars, r_vars, available, link, to_peer, history>>

SenderGarbled ==
  /\ s_at = "transfer" /\ ~s_int /\ Incoming("garbled")
  /\ SenderReads
  /\ SenderEnds("failed", <<>>)
  /\ UNCHANGED s_phase

SenderInterrupted ==
  /\ s_int
  /\ \/ /\ s_at = "waiting"
        /\ SenderEnds("cancelled", <<>>)
        /\ UNCHANGED s_phase
     \/ /\ s_at \in {"offered", "transfer"}
        /\ s_phase' = Transition(s_phase, "Cancelled")
        /\ SenderEnds("cancelled", <<"cancel">>)
  /\ UNCHANGED to_s

\* The peer's end is gone: nothing more to read, or the answer cannot be written.
SenderLost ==
  /\ peer # Nobody /\ ~link[peer]
  /\ s_at \in {"hello", "pake", "confirm", "offered", "transfer"}
  /\ to_s[peer] = <<>> \/ s_at \in {"hello", "pake", "confirm"}
  /\ s_at \in {"offered", "transfer"} => ~s_int
  /\ SenderEnds("failed", <<>>)
  /\ UNCHANGED <<s_phase, to_s>>

\* PAIR_TIMEOUT, HANDSHAKE_TIMEOUT and IDLE_TIMEOUT.  In transfer_phase the idle
\* timer restarts at every tick, so it never fires there.
SenderTimedWaits == {"waiting", "hello", "pake", "confirm", "offered"}

SenderTimesOut ==
  /\ s_at \in SenderTimedWaits
  /\ s_at \in {"waiting", "offered"} => ~s_int
  /\ SenderEnds("failed", <<>>)
  /\ UNCHANGED <<s_phase, to_s>>

\* FLOW_TIMEOUT drops the flow where it stands, or the process is killed: no
\* cleanup, no goodbye.
SenderAborts ==
  /\ s_at \in SenderWaits
  /\ s_at' = "aborted"
  /\ link' = [r \in Receivers |-> FALSE]
  /\ to_peer' \in IF peer # Nobody /\ link[peer] THEN Prefixes(to_peer) ELSE {to_peer}
  /\ UNCHANGED <<s_phase, s_int, control_rx, peer, pairing, r_vars, available, to_s, history>>

\* The signal handler is installed by the first poll of the interrupt; before
\* that Ctrl+C kills the process.
SenderCtrlC ==
  /\ s_at \in SenderWaits \ {"preparing"} /\ ~s_int
  /\ s_int' = TRUE
  /\ UNCHANGED <<s_at, s_phase, control_rx, peer, pairing, r_vars, available, link,
                 to_s, to_peer, history>>

SenderFlow ==
  \/ Publishes \/ PrepareFails \/ TakesConnection \/ SenderHello \/ SenderPake
  \/ SenderConfirm \/ SenderRejectsFrame \/ SenderAccepted \/ SenderDeclined
  \/ SenderCancelled \/ SenderResult \/ SenderGarbled \/ SenderInterrupted
  \/ SenderLost \/ SenderTimesOut

-----------------------------------------------------------------------------
(* The receive flows.                                                      *)

Inbox(r) == IF r = peer THEN to_peer ELSE <<>>

Arrives(r, m) == Inbox(r) # <<>> /\ Head(Inbox(r)) = m

ReceiverReads == to_peer' = Tail(to_peer)

ReceiverWrites(r, m) == to_s' = IF link[r] THEN [to_s EXCEPT ![r] = Append(@, m)] ELSE to_s

\* run_receive_inner returned o after writing ms; engine.shutdown.
ReceiverEnds(r, o, ms) ==
  /\ r_at' = [r_at EXCEPT ![r] = o]
  /\ link' = [link EXCEPT ![r] = FALSE]
  /\ IF link[r] THEN \E q \in Prefixes(to_s[r] \o ms) : to_s' = [to_s EXCEPT ![r] = q]
               ELSE to_s' = to_s
  /\ UNCHANGED <<s_vars, r_int, right_words, available, history>>

\* A claim takes the ticket; with the MQTT backend another subscriber may read
\* the retained message before the first one clears it.
Claims(r) ==
  /\ r_at[r] = "claiming" /\ ~r_int[r]
  /\ available
  /\ available' \in BOOLEAN
  /\ r_at' = [r_at EXCEPT ![r] = "dialing"]
  /\ UNCHANGED <<s_vars, r_phase, r_int, right_words, link, to_s, to_peer, history>>

\* ControlAcceptor::accept: whoever dials is queued, whatever words were typed.
Queues(r) == control_rx' = Append(control_rx, r)

Dials(r) ==
  /\ r_at[r] = "dialing" /\ ~r_int[r]
  /\ s_at \in SenderWaits
  /\ r_at' = [r_at EXCEPT ![r] = "hello"]
  /\ link' = [link EXCEPT ![r] = TRUE]
  /\ Queues(r)
  /\ to_s' = [to_s EXCEPT ![r] = <<"hello">>]
  /\ UNCHANGED <<s_at, s_phase, s_int, peer, pairing, r_phase, r_int, right_words,
                 available, to_peer, history>>

\* The sender's hello is awaited without a look at the interrupt; the biased
\* select that follows looks before the pake is written.
ReceiverHello(r) ==
  /\ r_at[r] = "hello" /\ ~r_int[r] /\ Arrives(r, "hello")
  /\ ReceiverReads /\ ReceiverWrites(r, "pake")
  /\ r_at' = [r_at EXCEPT ![r] = "pake"]
  /\ UNCHANGED <<s_vars, r_phase, r_int, right_words, available, link, history>>

ReceiverPake(r) ==
  /\ r_at[r] = "pake" /\ ~r_int[r] /\ Arrives(r, "pake")
  /\ ReceiverReads /\ ReceiverWrites(r, "confirm")
  /\ r_at' = [r_at EXCEPT ![r] = "confirm"]
  /\ UNCHANGED <<s_vars, r_phase, r_int, right_words, available, link, history>>

ReceiverConfirm(r) ==
  /\ r_at[r] = "confirm" /\ ~r_int[r] /\ Arrives(r, "confirm")
  /\ ReceiverReads
  /\ IF Verifies(r)
     THEN /\ r_phase' = [r_phase EXCEPT ![r] =
                Transition(Transition("Created", "StartPairing"), "PairConfirmed")]
          /\ r_at' = [r_at EXCEPT ![r] = "offer"]
          /\ UNCHANGED <<s_vars, r_int, right_words, available, link, to_s, history>>
     ELSE ReceiverEnds(r, "failed", <<>>) /\ UNCHANGED r_phase

ReceiverOffer(r) ==
  /\ r_at[r] = "offer" /\ ~r_int[r] /\ Arrives(r, "offer")
  /\ ReceiverReads
  /\ r_at' = [r_at EXCEPT ![r] = "prompt"]
  /\ UNCHANGED <<s_vars, r_phase, r_int, right_words, available, link, to_s, history>>

AlwaysDeclinesMutant(accepted) == "decline"

OnTheWire(accepted) == IF accepted THEN "accept" ELSE "decline"

\* --auto-accept, the user, or the default-no of the prompt's timeout.
Answers(r, accepted) ==
  /\ r_at[r] = "prompt" /\ ~r_int[r]
  /\ ReceiverWrites(r, OnTheWire(accepted))
  /\ answer' = [answer EXCEPT ![r] = IF accepted THEN "yes" ELSE "no"]
  /\ r_phase' = IF accepted
                THEN [r_phase EXCEPT ![r] = Transition(@, "TransferStarted")] ELSE r_phase
  /\ r_at' = [r_at EXCEPT ![r] = IF accepted THEN "download" ELSE "declining"]
  /\ UNCHANGED <<s_vars, r_int, right_words, available, link, to_peer, got>>

\* The last missing chunk is in the store.
Downloads(r) ==
  /\ r_at[r] = "download"
  /\ r \in Stored \/ s_at \in SenderWaits
  /\ r_at' = [r_at EXCEPT ![r] = "export"]
  /\ UNCHANGED <<s_vars, r_phase, r_int, right_words, available, link, to_s, to_peer, history>>

\* receive_resumable returns Ok.
Exports(r) ==
  /\ r_at[r] = "export"
  /\ got' = got \cup {r}
  /\ r_at' = [r_at EXCEPT ![r] = "reporting"]
  /\ UNCHANGED <<s_vars, r_phase, r_int, right_words, available, link, to_s, to_peer, answer>>

ReceiveFails(r) ==
  /\ r_at[r] \in {"download", "export"}
  /\ r_phase' = [r_phase EXCEPT ![r] = Transition(@, "Cancelled")]
  /\ ReceiverEnds(r, "failed", <<"cancel">>)
  /\ UNCHANGED to_peer

ReportsBeforeExportMutant(r) == r_at[r] \in {"export", "reporting"}

\* Whether the receive has returned.
HasResult(r) == r_at[r] = "reporting"

\* skipped_blob_size counts 0 when the lookup of a skipped file fails.
ReportsResult(r) ==
  /\ HasResult(r)
  /\ \E m \in {"result", "short_result"} : ReceiverWrites(r, m)
  /\ r_at' = [r_at EXCEPT ![r] = "closing"]
  /\ UNCHANGED <<s_vars, r_phase, r_int, right_words, available, link, to_peer, history>>

\* await_peer_close: whatever still arrives is discarded.
PeerClosed(r) ==
  /\ ~link[r]
  /\ \/ /\ r_at[r] = "declining"
        /\ ReceiverEnds(r, "declined", <<>>)
        /\ UNCHANGED r_phase
     \/ /\ r_at[r] = "closing"
        /\ r_phase' = [r_phase EXCEPT ![r] = Transition(@, "Completed")]
        /\ ReceiverEnds(r, "completed", <<>>)
  /\ to_peer' = IF r = peer THEN <<>> ELSE to_peer

ReceiverInterrupted(r) ==
  /\ r_int[r]
  /\ \/ /\ r_at[r] \in {"claiming", "dialing"}
        /\ ReceiverEnds(r, "cancelled", <<>>)
        /\ UNCHANGED r_phase
     \/ /\ r_at[r] \in {"hello", "pake", "confirm"}
        /\ r_at[r] = "hello" => Arrives(r, "hello")
        /\ ReceiverEnds(r, "cancelled", <<"cancel">>)
        /\ UNCHANGED r_phase
     \/ /\ r_at[r] \in {"offer", "prompt"}
        /\ r_phase' = [r_phase EXCEPT ![r] = Transition(@, "Cancelled")]
        /\ ReceiverEnds(r, "cancelled", <<"cancel">>)
  /\ UNCHANGED to_peer

ReceiverLost(r) ==
  /\ ~link[r]
  /\ \/ r_at[r] \in {"hello", "pake"}
     \/ r_at[r] \in {"confirm", "offer"} /\ Inbox(r) = <<>>
     \/ r_at[r] \in {"prompt", "reporting"}
  /\ r_at[r] \in {"pake", "confirm", "offer", "prompt"} => ~r_int[r]
  /\ ReceiverEnds(r, "failed", <<>>)
  /\ UNCHANGED <<r_phase, to_peer>>

NoDialTimeoutMutant == {"claiming", "hello", "pake", "confirm", "offer", "declining", "closing"}

ReceiverTimedWaits ==
  {"claiming", "dialing", "hello", "pake", "confirm", "offer", "declining", "closing"}

\* The claim's, the dial's, the handshake's and the final wait's time limits; a
\* claim or a dial may also just fail.  Before the dial the engine is built and
\* the relay awaited, which may fail with the interrupt set.
ReceiverTimesOut(r) ==
  /\ r_at[r] \in ReceiverTimedWaits
  /\ r_at[r] \notin {"dialing", "hello", "declining", "closing"} => ~r_int[r]
  /\ ReceiverEnds(r, "failed", <<>>)
  /\ UNCHANGED <<r_phase, to_peer>>

ReceiverAborts(r) ==
  /\ r_at[r] \in ReceiverWaits
  /\ ReceiverEnds(r, "aborted", <<>>)
  /\ UNCHANGED <<r_phase, to_peer>>

ReceiverCtrlC(r) ==
  /\ r_at[r] \in ReceiverWaits /\ ~r_int[r]
  /\ r_int' = [r_int EXCEPT ![r] = TRUE]
  /\ UNCHANGED <<s_vars, r_at, r_phase, right_words, available, link, to_s, to_peer, history>>

ReceiverFlow(r) ==
  \/ Claims(r) \/ Dials(r) \/ ReceiverHello(r) \/ ReceiverPake(r) \/ ReceiverConfirm(r)
  \/ ReceiverOffer(r) \/ (\E accepted \in BOOLEAN : Answers(r, accepted))
  \/ Downloads(r) \/ Exports(r) \/ ReceiveFails(r) \/ ReportsResult(r) \/ PeerClosed(r)
  \/ ReceiverInterrupted(r) \/ ReceiverLost(r) \/ ReceiverTimesOut(r)

\* The network drops a connection, with what was in flight.
LinkBreaks(r) ==
  /\ link[r]
  /\ link' = [link EXCEPT ![r] = FALSE]
  /\ \E q \in Prefixes(to_s[r]) : to_s' = [to_s EXCEPT ![r] = q]
  /\ to_peer' \in IF r = peer THEN Prefixes(to_peer) ELSE {to_peer}
  /\ UNCHANGED <<s_vars, r_vars, available, history>>

Next ==
  \/ SenderFlow \/ TickTearsFrame \/ SenderAborts \/ SenderCtrlC
  \/ \E r \in Receivers :
       ReceiverFlow(r) \/ ReceiverAborts(r) \/ ReceiverCtrlC(r) \/ LinkBreaks(r)

Spec == Init /\ [][Next]_vars

\* The flows are run by their executors and every wait of theirs but the
\* sender's transfer phase is bounded by a timer of its own.  A download ends,
\* well or badly.  Users, the network and FLOW_TIMEOUT owe nothing.  One flow
\* that goes on whenever any can is enough, for every flow has only finitely
\* many steps: so the fairness does not say which.
Fairness == WF_vars(SenderFlow \/ \E r \in Receivers : ReceiverFlow(r))

FairSpec == Spec /\ Fairness

-----------------------------------------------------------------------------
(* Properties.                                                             *)

TypeOK ==
  /\ s_at \in SenderWaits \cup Reports
  /\ s_phase \in Phase
  /\ s_int \in BOOLEAN
  /\ control_rx \in Seq(Receivers)
  /\ peer \in Receivers \cup {Nobody}
  /\ pairing \in BOOLEAN
  /\ r_at \in [Receivers -> ReceiverWaits \cup Reports]
  /\ r_phase \in [Receivers -> Phase]
  /\ r_int \in [Receivers -> BOOLEAN]
  /\ right_words \in [Receivers -> BOOLEAN]
  /\ available \in BOOLEAN
  /\ link \in [Receivers -> BOOLEAN]
  /\ to_s \in [Receivers -> Seq(Message)]
  /\ to_peer \in Seq(Message)
  /\ answer \in [Receivers -> {"none", "yes", "no"}]
  /\ got \subseteq Receivers

\* Only the receiver the sender took, and only with the sender's words, gets past
\* the key confirmation, on either side (wire.rs:195-240).
OnlyTheRightPairs ==
  /\ s_phase \in {"Paired", "Transferring", "Done"} => right_words[peer]
  /\ \A r \in Receivers : r_phase[r] # "Created" => r = peer /\ right_words[r]

\* When both flows have reported, a sender that says completed has a receiver
\* that got the files and never says declined or cancelled, and a sender that
\* says declined has one that declined, whatever was torn, lost or timed out.
ReportsAgree ==
  /\ s_at = "completed" =>
       peer \in got /\ r_at[peer] \in {"closing", "completed", "failed", "aborted"}
  /\ s_at = "declined" =>
       peer \notin got /\ r_at[peer] \in {"declining", "declined", "failed", "aborted"}

\* Every flow ends, without FLOW_TIMEOUT: the timers of the waits, and the other
\* side's end, suffice also where the idle timer never fires.
FlowsEnd ==
  /\ s_at \in SenderWaits ~> s_at \in Reports
  /\ \A r \in Receivers : r_at[r] \in ReceiverWaits ~> r_at[r] \in Reports

\* The flows hand the files over as Handover says.
Abstract == INSTANCE Handover WITH
  sender <- IF s_at \in Reports THEN s_at ELSE "running",
  receiver <- [r \in Receivers |-> IF r_at[r] \in Reports THEN r_at[r] ELSE "running"]

ImplementsHandover == Abstract!Spec

-----------------------------------------------------------------------------
(* The invariants behind them.                                             *)

\* Where a flow is tells its phase, and whether the sender has a peer.
SenderPlaces ==
  /\ s_at \in {"preparing", "waiting"} => peer = Nobody
  /\ s_at \in {"hello", "pake", "confirm", "offered", "transfer", "completed", "declined"} =>
       peer \in Receivers
  /\ s_at \in {"preparing", "waiting", "hello", "pake", "confirm"} => s_phase = "PendingPair"
  /\ s_at = "offered" => s_phase = "Paired"
  /\ s_at = "transfer" => s_phase = "Transferring"

ReceiverPlaces == \A r \in Receivers :
  /\ r_at[r] \in {"claiming", "dialing", "hello", "pake", "confirm"} => r_phase[r] = "Created"
  /\ r_at[r] \in {"offer", "prompt", "declining"} => r_phase[r] = "Paired"
  /\ r_at[r] \in {"download", "export", "reporting", "closing"} => r_phase[r] = "Transferring"

PairInv == SenderPlaces /\ ReceiverPlaces /\ OnlyTheRightPairs

\* The messages of a queue.
Carried(q) == {q[i] : i \in 1 .. Len(q)}

\* A receiver has the files from the export on, and not before.
ExportPlaces == \A r \in Receivers :
  /\ r_at[r] \in {"reporting", "closing"} => r \in got
  /\ r_at[r] \in ReceiverWaits \ {"reporting", "closing"} => r \notin got

\* A result or a decline that is on its way is true, and stays so.
HasReported(r) == r \in got /\ r_at[r] \in {"closing", "completed", "failed", "aborted"}

HasDeclined(r) == r \notin got /\ r_at[r] \in {"declining", "declined", "failed", "aborted"}

TrueOnTheWay == \A r \in Receivers :
  /\ "result" \in Carried(to_s[r]) \/ "short_result" \in Carried(to_s[r]) => HasReported(r)
  /\ "decline" \in Carried(to_s[r]) => HasDeclined(r)

ReportInv == ExportPlaces /\ TrueOnTheWay /\ ReportsAgree

\* One receiver is asked, and where it is tells what it answered.
AnswerPlaces == \A r \in Receivers :
  /\ answer[r] # "none" => r = peer
  /\ r_at[r] \in {"claiming", "dialing", "hello", "pake", "confirm", "offer", "prompt"} =>
       answer[r] = "none"
  /\ r_at[r] \in {"download", "export", "reporting", "closing"} => answer[r] = "yes"
  /\ r_at[r] = "declining" \/ "decline" \in Carried(to_s[r]) => answer[r] = "no"
=============================================================================
