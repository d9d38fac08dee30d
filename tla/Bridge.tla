------------------------------- MODULE Bridge -------------------------------
(***************************************************************************)
(* One session of the app's native bridge, flutter/rust/src/api: the calls *)
(* app threads make into it (session.rs), the flow task that takes their   *)
(* commands out of a channel (flows.rs), and the cache cleanup (cache.rs). *)
(*                                                                         *)
(* What the wire and the peer do is left to Session: here an exchange ends *)
(* well or badly.  A call that is turned down by the role or the stage     *)
(* changes nothing and is not a step.                                      *)
(*                                                                         *)
(* A call holds the session's state, and with it a sender of the command   *)
(* channel, until it returns; so a flow learns that its session was        *)
(* disposed of only when no call is under way and the channel is empty.    *)
(***************************************************************************)
EXTENDS Naturals, Sequences, SessionPhase

CONSTANTS
  Callers,  \* app threads
  Nobody    \* no thread

ASSUME BridgeAssumption == Nobody \notin Callers

VARIABLES
  role,
  life,      \* none, building, live (in the registry), disposed
  stage,
  phase,
  flow,      \* where the flow task is
  cmds,      \* commands sent to it, each with the call that waits for the reply
  serving,   \* the call whose command it has taken and not answered
  call,      \* what each thread's call does
  cleanup,   \* cleanup_cache is at work
  granted,   \* history: the operations the flow answered Ok
  told       \* history: what the flow sent its peer after the offer

api == <<cmds, serving, call>>
history == <<granted, told>>
vars == <<role, life, stage, phase, flow, api, cleanup, history>>

Roles == {"Sender", "Receiver"}

Stages == {"Idle", "AwaitingPeer", "OfferPending", "Transferring", "Terminal"}

Operations == {"prepare", "claim", "accept", "decline", "cancel"}

Command == [op : Operations, from : Callers]

FlowSteps ==
  {"none", "building", "first", "preparing", "waiting", "pairing", "response", "transfer",
   "claiming", "decision", "accepting", "declining", "download", "deaf", "closing",
   "stopping", "ended"}

Call == [at : {"idle", "sending", "waiting"}, op : Operations]

Init ==
  /\ role \in Roles
  /\ life = "none"
  /\ stage = "Idle"
  /\ phase = "Created"
  /\ flow = "none"
  /\ cmds = <<>>
  /\ serving = Nobody
  /\ call = [c \in Callers |-> [at |-> "idle", op |-> "cancel"]]
  /\ cleanup = FALSE
  /\ granted = {}
  /\ told = {}

-----------------------------------------------------------------------------
(* The API.                                                                *)

\* build_session opens the engine and waits for the relay, then create_session
\* registers the session.
Builds ==
  /\ life = "none"
  /\ life' = "building"
  /\ flow' = "building"
  /\ UNCHANGED <<role, stage, phase, api, cleanup, history>>

\* The relay cannot be reached: the engine is dropped.
BuildFails ==
  /\ life = "building"
  /\ life' = "none"
  /\ flow' = "none"
  /\ UNCHANGED <<role, stage, phase, api, cleanup, history>>

\* The thread of the flow, which waits for the first command.
StartsFlow == flow' = "first"

Registers ==
  /\ life = "building"
  /\ life' = "live"
  /\ StartsFlow
  /\ UNCHANGED <<role, stage, phase, api, cleanup, history>>

AllowsAnyStageMutant(op) ==
  CASE op = "prepare" -> role = "Sender"
    [] op = "claim" -> role = "Receiver"
    [] op \in {"accept", "decline"} -> role = "Receiver" /\ stage = "OfferPending"
    [] op = "cancel" -> stage # "Terminal"

\* The role and stage checks of the calls.
Allows(op) ==
  CASE op = "prepare" -> role = "Sender" /\ stage = "Idle"
    [] op = "claim" -> role = "Receiver" /\ stage = "Idle"
    [] op \in {"accept", "decline"} -> role = "Receiver" /\ stage = "OfferPending"
    [] op = "cancel" -> stage # "Terminal"

StageAfter(op) ==
  CASE op = "prepare" -> "AwaitingPeer"
    [] op = "claim" -> "OfferPending"
    [] OTHER -> stage

\* The session is found under its handle.
Registered == life = "live"

\* Look the session up, then check and set the stage under its lock.
Calls(c, op) ==
  /\ Registered
  /\ call[c].at = "idle"
  /\ Allows(op)
  /\ stage' = StageAfter(op)
  /\ call' = [call EXCEPT ![c] = [at |-> "sending", op |-> op]]
  /\ UNCHANGED <<role, life, phase, flow, cmds, serving, cleanup, history>>

\* Send the command and wait for the reply; "session closed" when the flow is
\* gone.
Sends(c) ==
  /\ call[c].at = "sending"
  /\ IF flow = "ended"
     THEN /\ call' = [call EXCEPT ![c].at = "idle"]
          /\ UNCHANGED cmds
     ELSE /\ call' = [call EXCEPT ![c].at = "waiting"]
          /\ cmds' = Append(cmds, [op |-> call[c].op, from |-> c])
  /\ UNCHANGED <<role, life, stage, phase, flow, serving, cleanup, history>>

Disposes ==
  /\ Registered
  /\ life' = "disposed"
  /\ UNCHANGED <<role, stage, phase, flow, api, cleanup, history>>

LiveSessionCount == IF Registered THEN 1 ELSE 0

\* cleanup_cache looks at the number of registered sessions, then opens and
\* clears the stores of both roles.
CleanupStarts ==
  /\ ~cleanup /\ LiveSessionCount = 0
  /\ cleanup' = TRUE
  /\ UNCHANGED <<role, life, stage, phase, flow, api, history>>

CleanupEnds ==
  /\ cleanup
  /\ cleanup' = FALSE
  /\ UNCHANGED <<role, life, stage, phase, flow, api, history>>

-----------------------------------------------------------------------------
(* What the flow's steps have in common.                                   *)

\* The callers cs get their reply, Ok or turned down.
Returns(cs) == call' = [c \in Callers |-> IF c \in cs THEN [call[c] EXCEPT !.at = "idle"] ELSE call[c]]

Ends(p, s) == phase' = p /\ stage' = s /\ flow' = "stopping"

\* finish_failed and cancel_flow; a transition that is not legal is ignored.
After(event) == IF Transition(phase, event) = "illegal" THEN phase ELSE Transition(phase, event)

EndsFailed == Ends(After("Failed"), "Terminal")

EndsCancelled == Ends(After("Cancelled"), "Terminal")

PollsBeforeCloseMutant ==
  {"first", "waiting", "response", "transfer", "decision", "download", "closing"}

DeafTransferMutant == {"first", "waiting", "response", "decision", "download"}

\* The steps that select on the command channel.  Their branches for an operation
\* that the stage check let through only once have no action.
Polls == {"first", "waiting", "response", "transfer", "decision", "download"}

Takes(op) ==
  /\ flow \in Polls
  /\ cmds # <<>> /\ Head(cmds).op = op
  /\ cmds' = Tail(cmds)

From == Head(cmds).from

\* recv returns None.
Disposed ==
  /\ flow \in Polls
  /\ life = "disposed" /\ cmds = <<>>
  /\ \A c \in Callers : call[c].at = "idle"

-----------------------------------------------------------------------------
(* Both flows.                                                             *)

\* A peer that is connected is told first.
CancelTold == IF flow \in {"first", "waiting"} THEN told ELSE told \cup {"cancel"}

TakesCancel ==
  /\ Takes("cancel")
  /\ Returns({From})
  /\ granted' = granted \cup {"cancel"}
  /\ told' = CancelTold
  /\ EndsCancelled
  /\ UNCHANGED <<role, life, serving, cleanup>>

\* The first command, or the dispose, decides whether the flow starts at all.
TakesFirst ==
  /\ flow = "first"
  /\ \/ /\ \/ Takes("prepare") /\ flow' = "preparing"
           \/ Takes("claim") /\ flow' = "claiming"
        /\ phase' = Transition(phase, "StartPairing")
        /\ serving' = From
        /\ UNCHANGED <<stage, call>>
     \/ /\ Takes("accept") \/ Takes("decline")
        /\ Returns({From})
        /\ flow' = "stopping"
        /\ UNCHANGED <<stage, phase, serving>>
  /\ UNCHANGED <<role, life, cleanup, history>>

\* A sender that has no receiver yet, or no answer yet, just stops; the others
\* cancel.
NoticesDispose ==
  /\ Disposed
  /\ IF flow \in {"first", "waiting", "response"}
     THEN flow' = "stopping" /\ UNCHANGED <<stage, phase, told>>
     ELSE EndsCancelled /\ told' = told \cup {"cancel"}
  /\ UNCHANGED <<role, life, api, cleanup, granted>>

KeepsQueuedMutant(waiters) == waiters \ {cmds[i].from : i \in 1 .. Len(cmds)}

\* The calls that get "session closed" when the flow drops its channel.
HangsUpOn(waiters) == waiters

\* The engine is shut down and the flow returns.
Stops ==
  /\ flow = "stopping"
  /\ flow' = "ended"
  /\ Returns(HangsUpOn({c \in Callers : call[c].at = "waiting"}))
  /\ cmds' = <<>>
  /\ serving' = Nobody
  /\ UNCHANGED <<role, life, stage, phase, cleanup, history>>

-----------------------------------------------------------------------------
(* The sender flow.                                                        *)

\* The files are imported, a nameplate is allocated and the code is published.
Prepared ==
  /\ flow' = "waiting"
  /\ stage' = "AwaitingPeer"
  /\ granted' = granted \cup {"prepare"}

PrepareFailed ==
  /\ flow' = "stopping"
  /\ stage' = "Idle"
  /\ UNCHANGED granted

Prepares ==
  /\ flow = "preparing"
  /\ Returns({serving})
  /\ serving' = Nobody
  /\ Prepared \/ PrepareFailed
  /\ UNCHANGED <<role, life, phase, cmds, cleanup, told>>

\* The first control connection, or PAIR_TIMEOUT.
ReceiverComes ==
  /\ flow = "waiting"
  /\ \/ flow' = "pairing" /\ UNCHANGED <<stage, phase>>
     \/ EndsFailed
  /\ UNCHANGED <<role, life, api, cleanup, history>>

Pairs ==
  /\ flow = "pairing"
  /\ \/ /\ flow' = "response"
        /\ phase' = Transition(phase, "PairConfirmed")
        /\ UNCHANGED stage
     \/ EndsFailed
  /\ UNCHANGED <<role, life, api, cleanup, history>>

\* Accept, Decline, Cancel, something else or the idle timeout.
PeerResponds ==
  /\ flow = "response"
  /\ \/ /\ flow' = "transfer"
        /\ phase' = Transition(phase, "TransferStarted")
        /\ stage' = "Transferring"
     \/ Ends(phase, "Terminal")
     \/ EndsCancelled
     \/ EndsFailed
  /\ UNCHANGED <<role, life, api, cleanup, history>>

\* A Result that matches or not, a Cancel, a broken stream.  The idle timer is
\* rebuilt at every tick and never fires.
PeerFinishes ==
  /\ flow = "transfer"
  /\ Ends(Transition(phase, "Completed"), "Terminal") \/ EndsCancelled \/ EndsFailed
  /\ UNCHANGED <<role, life, api, cleanup, history>>

-----------------------------------------------------------------------------
(* The receiver flow.                                                      *)

\* The ticket is claimed, its sender dialled and paired with, the offer read.
OfferRead ==
  /\ flow' = "decision"
  /\ phase' = Transition(phase, "PairConfirmed")
  /\ stage' = "OfferPending"
  /\ granted' = granted \cup {"claim"}

ClaimEnds ==
  /\ flow = "claiming"
  /\ Returns({serving})
  /\ serving' = Nobody
  /\ OfferRead \/ (EndsFailed /\ UNCHANGED granted)
  /\ UNCHANGED <<role, life, cmds, cleanup, told>>

DecidesInDownloadMutant == {"decision", "download"}

\* The steps that take a decision on the offer.
Decides == {"decision"}

\* The reply goes out before anything is done about it.
TakesAccept ==
  /\ flow \in Decides /\ Takes("accept")
  /\ Returns({From})
  /\ granted' = granted \cup {"accept"}
  /\ flow' = "accepting"
  /\ UNCHANGED <<role, life, stage, phase, serving, cleanup, told>>

StartsDownload ==
  /\ flow = "accepting"
  /\ \/ /\ told' = told \cup {"accept"}
        /\ phase' = Transition(phase, "TransferStarted")
        /\ stage' = "Transferring"
        /\ flow' = "download"
     \/ EndsFailed /\ UNCHANGED told
  /\ UNCHANGED <<role, life, api, cleanup, granted>>

TakesDecline ==
  /\ flow \in Decides /\ Takes("decline")
  /\ serving' = From
  /\ told' \in {told, told \cup {"decline"}}
  /\ flow' = "declining"
  /\ UNCHANGED <<role, life, stage, phase, call, cleanup, granted>>

\* The reply waits for the peer to close; the phase stays Paired.
DeclineEnds ==
  /\ flow = "declining"
  /\ Returns({serving})
  /\ serving' = Nobody
  /\ granted' \in IF "decline" \in told
                  THEN {granted, granted \cup {"decline"}} ELSE {granted}
  /\ Ends(phase, "Terminal")
  /\ UNCHANGED <<role, life, cmds, cleanup, told>>

\* Any other command during the download is turned down, and from then on the
\* download is awaited without looking at the commands.
RejectsInDownload ==
  /\ flow = "download" /\ flow \notin Decides
  /\ Takes("accept") \/ Takes("decline")
  /\ Returns({From})
  /\ flow' = "deaf"
  /\ UNCHANGED <<role, life, stage, phase, serving, cleanup, history>>

\* The select is biased towards the commands.
DownloadEnds ==
  /\ \/ flow = "download" /\ cmds = <<>> /\ ~Disposed
     \/ flow = "deaf"
  /\ \/ /\ told' = told \cup {"result"}
        /\ flow' = "closing"
        /\ UNCHANGED <<stage, phase>>
     \/ told' = told \cup {"cancel"} /\ EndsCancelled
     \/ EndsFailed /\ UNCHANGED told
  /\ UNCHANGED <<role, life, api, cleanup, granted>>

PeerCloses ==
  /\ flow = "closing"
  /\ Ends(Transition(phase, "Completed"), "Terminal") \/ EndsFailed
  /\ UNCHANGED <<role, life, api, cleanup, history>>

-----------------------------------------------------------------------------
Api ==
  \/ Builds \/ BuildFails \/ Registers \/ Disposes \/ CleanupStarts \/ CleanupEnds
  \/ \E c \in Callers, op \in Operations : Calls(c, op)

\* What the flow task does, or the timers of its waits make it do.
Flow ==
  \/ TakesCancel \/ TakesFirst \/ NoticesDispose \/ Stops
  \/ Prepares \/ ReceiverComes \/ Pairs \/ PeerResponds
  \/ ClaimEnds \/ TakesAccept \/ StartsDownload \/ TakesDecline \/ DeclineEnds
  \/ RejectsInDownload \/ DownloadEnds \/ PeerCloses

Next == Api \/ Flow \/ PeerFinishes \/ \E c \in Callers : Sends(c)

Spec == Init /\ [][Next]_vars

\* The flow's thread and the callers' threads run; every wait of the flow but the
\* sender's in transfer has a time limit.  The app, and the peer there, owe
\* nothing.
Fairness ==
  /\ WF_vars(Flow)
  /\ \A c \in Callers : WF_vars(Sends(c))

FairSpec == Spec /\ Fairness

-----------------------------------------------------------------------------
(* Properties.                                                             *)

TypeOK ==
  /\ role \in Roles
  /\ life \in {"none", "building", "live", "disposed"}
  /\ stage \in Stages
  /\ phase \in Phase
  /\ flow \in FlowSteps
  /\ cmds \in Seq(Command)
  /\ serving \in Callers \cup {Nobody}
  /\ call \in [Callers -> Call]
  /\ cleanup \in BOOLEAN
  /\ granted \subseteq Operations
  /\ told \subseteq {"accept", "decline", "cancel", "result"}

\* A session that was reported over is never revived, whichever calls were past
\* their check when it ended (session.rs:123-139, flows.rs:72-91).
TerminalFinal == [][stage = "Terminal" => stage' = "Terminal"]_vars

\* A cancel that was answered Ok by the flow did cancel: the session is Cancelled
\* for good and its peer was not told a result before (session.rs:197-199).
CancelHonoured ==
  "cancel" \in granted =>
    stage = "Terminal" /\ phase = "Cancelled" /\ "result" \notin told

\* However the app's threads press accept, decline and cancel, one decision is
\* taken, and the peer is told that one (flows.rs:451-515).
OneDecision ==
  /\ ~({"accept", "decline"} \subseteq granted)
  /\ ~({"accept", "decline"} \subseteq told)
  /\ "accept" \in told => "accept" \in granted
  /\ "decline" \in told => "accept" \notin granted

\* No call into the bridge blocks its thread for ever (session.rs:78-80).
CallsAnswered == \A c \in Callers : call[c].at = "waiting" ~> call[c].at = "idle"

\* A disposed session's flow stops, wherever it was (session.rs:212).
DisposeStops == life = "disposed" ~> flow = "ended"

\* cache.rs:7-10: the cleanup refuses to run beside a session's engine, which would
\* deadlock on the file lock.  One that is still being built is let off.
CleanupAlone == cleanup => flow \in {"none", "building", "ended"}

\* flows.rs:72: a session whose stage is back to Idle is retryable.
IdleIsRetryable == life = "live" /\ stage = "Idle" => flow \notin {"stopping", "ended"}

-----------------------------------------------------------------------------
(* The invariants behind them.                                             *)

\* Where a flow is tells its phase, until it is over.
Starting == {"none", "building", "first"}
Offering == {"preparing", "waiting", "pairing", "claiming"}
Deciding == {"response", "decision", "accepting", "declining"}
Moving == {"transfer", "download", "deaf", "closing"}
PhaseOfFlow ==
  /\ life \in {"none", "building"} => flow = life
  /\ flow \in Starting => phase = "Created"
  /\ flow \in Offering => phase = "PendingPair"
  /\ flow \in Deciding => phase = "Paired"
  /\ flow \in Moving => phase = "Transferring"

\* A cancel is the last thing a flow answers, a result the last it tells.
CancelLast ==
  /\ "cancel" \in granted => flow \in {"stopping", "ended"}
  /\ "result" \in told => flow \in {"closing", "stopping", "ended"}

\* The decision that was taken shows in where the flow went on.
DecisionFollowed ==
  /\ "accept" \in granted => flow \in {"accepting", "stopping", "ended"} \cup Moving
  /\ "decline" \in granted \cup told => flow \in {"declining", "stopping", "ended"}
  /\ "decline" \in granted => "decline" \in told
  /\ flow = "accepting" => "accept" \in granted

\* A session that is reported over has a flow that is.
OverTogether == stage = "Terminal" => flow \in {"stopping", "ended"}

DecisionInv == CancelHonoured /\ CancelLast /\ OneDecision /\ DecisionFollowed
=============================================================================
