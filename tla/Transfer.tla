------------------------------ MODULE Transfer ------------------------------
(***************************************************************************)
(* The transfer phase at the sender, and what its user sees of it:         *)
(* transfer_phase of crates/cli (plain output) and of the app bridge, fed  *)
(* by the served-bytes counter of the engine (core/transfer/engine) and by *)
(* the frames of the receiver's answer (protocol/wire.rs, control.rs).     *)
(*                                                                         *)
(* The provider of iroh-blobs is external: it serves requests at the same  *)
(* time and tells each request's task how far it got, in offsets that grow *)
(* over the request, now and then and at its end.                          *)
(*                                                                         *)
(* A frame reaches the reader in two pieces.  The tick of the select drops *)
(* the receive that is under way, and with it what that had read and its   *)
(* idle timer, which for that reason never fires and is left out.          *)
(***************************************************************************)
EXTENDS Integers, Sequences, FiniteSetsExt

CONSTANTS
  Requests,    \* requests of the receiver
  Size,        \* the payload bytes of each, the collection's own blobs included
  Total,       \* the bytes of the prepared files
  FileCount,   \* how many files these are
  Exports,     \* bytes and files a receiver may export of them
  Step,        \* PLAIN_STEP_PERCENT
  Capacity     \* of the event bus, 128 in the code

ASSUME TransferAssumption ==
  /\ IsFiniteSet(Requests)
  /\ Size \in [Requests -> Nat]
  /\ Total \in Nat
  /\ FileCount \in Nat
  /\ Exports \subseteq [bytes : 0 .. Total, files : 0 .. FileCount]
  /\ Step \in Nat \ {0}
  /\ Capacity \in Nat \ {0}

VARIABLES
  front,       \* the program: command line on a pipe, or the app
  at,          \* where the flow is
  interrupted, \* Ctrl+C was pressed, or the app's cancel is queued
  baseline,    \* the counter when the phase began
  served,      \* the counter of the engine
  offset,      \* how far the provider is in each request
  open,        \* requests that are being served
  updates,     \* per request, the updates its task has not taken yet
  last,        \* per request, the last offset its task saw
  answer,      \* what the receiver answered
  stream,      \* pieces of its frames on their way
  closed,      \* its end is gone
  held,        \* the receive under way has read a prefix
  reported,    \* the last position printed or emitted
  lines,       \* positions printed by the command line
  bus,         \* events the app's subscriber has not taken yet
  lagged,      \* it has missed some
  listening,   \* it is subscribed
  seen,        \* what the sink was given
  told,        \* history: per request, the bytes its updates account for
  torn,        \* history: a tick dropped a receive that had read something
  lost         \* history: a part of the answer was lost with its connection

provider == <<served, offset, open, updates, last, told>>
wire == <<answer, stream, closed, held, torn, lost>>
shown == <<reported, lines, bus, lagged, listening, seen>>
vars == <<front, at, interrupted, baseline, provider, wire, shown>>

Fronts == {"plain", "app"}
Ends == {"completed", "cancelled", "failed"}
Over == at \in Ends

Answer(kind, b, f, sb, sf) ==
  [kind |-> kind, bytes |-> b, files |-> f, skipped_bytes |-> sb, skipped_files |-> sf]
Unanswered == Answer("none", 0, 0, 0, 0)
Cancelled == Answer("cancel", 0, 0, 0, 0)

\* Export e, and what the lookups counted of the bytes that were skipped
Result(e, counted) == Answer("result", e.bytes, e.files, counted, FileCount - e.files)

Init ==
  /\ front \in Fronts
  /\ at = "offered"
  /\ interrupted = FALSE
  /\ baseline = 0
  /\ served = 0
  /\ offset = [r \in Requests |-> 0]
  /\ open = Requests
  /\ updates = [r \in Requests |-> <<>>]
  /\ last = [r \in Requests |-> 0]
  /\ told = [r \in Requests |-> 0]
  /\ answer = Unanswered
  /\ stream = <<>>
  /\ closed = FALSE
  /\ held = FALSE
  /\ torn = FALSE
  /\ lost = FALSE
  /\ reported = 0
  /\ lines = <<>>
  /\ bus = <<>>
  /\ lagged = FALSE
  /\ listening = TRUE
  /\ seen = <<>>

-----------------------------------------------------------------------------
(* The provider and the tasks that fold its updates into the counter.      *)

Tells(r, kind, bytes) ==
  /\ updates' = [updates EXCEPT ![r] = Append(@, [kind |-> kind, bytes |-> bytes])]
  /\ told' = [told EXCEPT ![r] = IF kind = "aborted" THEN @ ELSE bytes]

\* A chunk of request r was sent; not every chunk is told of.  A receiver that
\* answers or goes has done with downloading.
Serves(r) ==
  /\ r \in open /\ ~Over /\ offset[r] < Size[r]
  /\ answer = Unanswered /\ ~closed
  /\ offset' = [offset EXCEPT ![r] = @ + 1]
  /\ Tells(r, "progress", offset[r] + 1) \/ UNCHANGED <<updates, told>>
  /\ UNCHANGED <<front, at, interrupted, baseline, served, open, last, wire, shown>>

\* A request ends: completed, with all it sent, or aborted by a receiver that
\* gave up or is gone.
EndsRequest(r) ==
  /\ r \in open /\ ~Over
  /\ open' = open \ {r}
  /\ \/ offset[r] = Size[r] /\ Tells(r, "completed", offset[r])
     \/ (answer = Cancelled \/ closed) /\ Tells(r, "aborted", 0)
  /\ UNCHANGED <<front, at, interrupted, baseline, served, offset, last, wire, shown>>

SaturatingSub(a, b) == IF a > b THEN a - b ELSE 0

DeltaWholeAtEndMutant(u, before) ==
  CASE u.kind = "progress" -> SaturatingSub(u.bytes, before)
    [] u.kind = "completed" -> u.bytes
    [] u.kind = "aborted" -> 0

\* What an update adds to the counter, after the offset that was seen before.
Delta(u, before) == IF u.kind = "aborted" THEN 0 ELSE SaturatingSub(u.bytes, before)

\* make_event_sender: the task of request r takes its next update; when the flow
\* is over its engine goes.
Folds(r) ==
  /\ updates[r] # <<>> /\ ~Over
  /\ LET u == Head(updates[r]) IN
       /\ served' = served + Delta(u, last[r])
       /\ last' = [last EXCEPT ![r] = IF u.kind = "progress" THEN u.bytes ELSE @]
  /\ updates' = [updates EXCEPT ![r] = Tail(@)]
  /\ UNCHANGED <<front, at, interrupted, baseline, offset, open, told, wire, shown>>

-----------------------------------------------------------------------------
(* The receiver, and the frames of its answer.                             *)

\* encode: a length prefix, then the body
Encode(m) == <<[part |-> "prefix", message |-> m], [part |-> "body", message |-> m]>>

\* The receiver reports what it exported and skipped, or gives up.  Every file is
\* one or the other; of a skipped one whose size cannot be looked up no byte counts.
Reported(e) == {Result(e, counted) : counted \in 0 .. Total - e.bytes}
Answers ==
  /\ at = "transfer" /\ answer = Unanswered /\ ~closed
  /\ \E m \in {Cancelled} \cup UNION {Reported(e) : e \in Exports} :
       answer' = m /\ stream' = Encode(m)
  /\ UNCHANGED <<front, at, interrupted, baseline, provider, closed, held, torn, lost, shown>>

\* The receiver's end goes, at the latest ACK_TIMEOUT after its answer; what was
\* on its way may be lost.
PeerCloses ==
  /\ at = "transfer" /\ ~closed
  /\ closed' = TRUE
  /\ \E n \in 0 .. Len(stream) : stream' = SubSeq(stream, 1, n)
  /\ lost' = (stream' # stream)
  /\ UNCHANGED <<front, at, interrupted, baseline, provider, answer, held, torn, shown>>

-----------------------------------------------------------------------------
(* What the user sees.                                                     *)

ReportsAgainMutant(p) ==
  /\ Total # 0
  /\ p >= Total \/ (p * 100) \div Total >= (reported * 100) \div Total + Step

\* PlainBar::report_line: a position that crossed another step, or the total
Reports(p) ==
  /\ Total # 0 /\ p # reported
  /\ p >= Total \/ (p * 100) \div Total >= (reported * 100) \div Total + Step

Prints(p) ==
  IF Reports(p) THEN lines' = Append(lines, p) /\ reported' = p
  ELSE UNCHANGED <<lines, reported>>

\* A broadcast channel keeps the newest events for a slow subscriber.
Emits(e) ==
  IF listening
  THEN /\ bus' = IF Len(bus) < Capacity THEN Append(bus, e) ELSE Append(Tail(bus), e)
       /\ lagged' = (lagged \/ Len(bus) = Capacity)
  ELSE UNCHANGED <<bus, lagged>>

ProgressEvent(p) == [kind |-> "served", position |-> p]
EndEvent == [kind |-> "end", position |-> 0]

ForwardsUntilLaggedMutant ==
  /\ listening /\ ~lagged
  /\ bus # <<>>
  /\ seen' = Append(seen, Head(bus))
  /\ bus' = Tail(bus)
  /\ UNCHANGED <<front, at, interrupted, baseline, provider, wire, reported, lines, listening,
                 lagged>>

\* fan_out: hand the next event to the sink; an error of having lagged is skipped.
Forwards ==
  /\ listening
  /\ IF lagged THEN lagged' = FALSE /\ UNCHANGED <<seen, bus>>
     ELSE /\ bus # <<>>
          /\ seen' = Append(seen, Head(bus))
          /\ bus' = Tail(bus)
          /\ UNCHANGED lagged
  /\ UNCHANGED <<front, at, interrupted, baseline, provider, wire, reported, lines, listening>>

\* The app closes the stream: the next add fails.
Unsubscribes ==
  /\ listening /\ front = "app"
  /\ listening' = FALSE /\ bus' = <<>> /\ lagged' = FALSE
  /\ UNCHANGED <<front, at, interrupted, baseline, provider, wire, reported, lines, seen>>

-----------------------------------------------------------------------------
(* The transfer phase.                                                     *)

\* The receiver accepted; it may have asked for bytes before.
Begins ==
  /\ at = "offered"
  /\ at' = "transfer"
  /\ baseline' = served
  /\ UNCHANGED <<front, interrupted, provider, wire, shown>>

Interrupts ==
  /\ at = "transfer" /\ ~interrupted
  /\ interrupted' = TRUE
  /\ UNCHANGED <<front, at, baseline, provider, wire, shown>>

\* The end of the flow: the bar is finished unless it failed, the app is told.
Finishes(how) ==
  /\ at' = how
  /\ IF front = "app" THEN Emits(EndEvent) /\ UNCHANGED <<lines, reported>>
     ELSE /\ IF how = "failed" THEN UNCHANGED <<lines, reported>> ELSE Prints(Total)
          /\ UNCHANGED <<bus, lagged>>
  /\ UNCHANGED <<listening, seen>>

\* The select of the command line is biased to the interrupt.
TakesInterrupt ==
  /\ at = "transfer" /\ interrupted
  /\ Finishes("cancelled")
  /\ UNCHANGED <<front, interrupted, baseline, provider, wire>>

Receiving == at = "transfer" /\ (front = "plain" => ~interrupted)

\* The part of recv_message that reads the length prefix
ReadsPrefix ==
  /\ Receiving /\ ~held
  /\ stream # <<>> /\ Head(stream).part = "prefix"
  /\ held' = TRUE
  /\ stream' = Tail(stream)
  /\ UNCHANGED <<front, at, interrupted, baseline, provider, answer, closed, torn, lost, shown>>

ResultMatchesExportedMutant(m) == m.bytes = Total /\ m.files = FileCount

\* result_matches: skipped files count as delivered
ResultMatches(m) ==
  /\ m.bytes + m.skipped_bytes = Total
  /\ m.files + m.skipped_files = FileCount

\* The body: the frame is complete and the flow ends.
ReadsBody ==
  /\ Receiving /\ held
  /\ stream # <<>> /\ Head(stream).part = "body"
  /\ LET m == Head(stream).message IN
       Finishes(CASE m.kind = "cancel" -> "cancelled"
                  [] m.kind = "result" /\ ResultMatches(m) -> "completed"
                  [] OTHER -> "failed")
  /\ stream' = Tail(stream)
  /\ held' = FALSE
  /\ UNCHANGED <<front, interrupted, baseline, provider, answer, closed, torn, lost>>

\* The rest of a frame whose beginning was dropped: text taken for a length,
\* which is beyond MAX_FRAME_BYTES, or too little for one.
ReadsRest ==
  /\ Receiving /\ ~held
  /\ stream # <<>> /\ Head(stream).part = "body"
  /\ stream' = Tail(stream)
  /\ \/ Finishes("failed") /\ UNCHANGED held
     \/ held' = TRUE /\ UNCHANGED <<at, shown>>
  /\ UNCHANGED <<front, interrupted, baseline, provider, answer, closed, torn, lost>>

\* The end of the stream, before or within a frame: UnexpectedEof
ReadsEnd ==
  /\ Receiving /\ closed /\ stream = <<>>
  /\ Finishes("failed")
  /\ UNCHANGED <<front, interrupted, baseline, provider, wire>>

Least(a, b) == IF a < b THEN a ELSE b

Position == Least(SaturatingSub(served, baseline), Total)

\* The tick: show the counter; a receive under way starts anew.
Ticks ==
  /\ Receiving
  /\ held' = FALSE
  /\ torn' = (torn \/ held)
  /\ IF front = "plain" THEN Prints(Position) /\ UNCHANGED <<bus, lagged>>
     ELSE IF Position = reported THEN UNCHANGED <<bus, lagged, lines, reported>>
     ELSE Emits(ProgressEvent(Position)) /\ reported' = Position /\ UNCHANGED lines
  /\ UNCHANGED <<front, at, interrupted, baseline, provider, answer, stream, closed, lost,
                 listening, seen>>

-----------------------------------------------------------------------------

Flow ==
  \/ TakesInterrupt \/ ReadsPrefix \/ ReadsBody \/ ReadsRest \/ ReadsEnd \/ Ticks

Next ==
  \/ Begins \/ Interrupts \/ Flow
  \/ Answers \/ PeerCloses
  \/ Forwards \/ Unsubscribes
  \/ \E r \in Requests : Serves(r) \/ EndsRequest(r) \/ Folds(r)

Spec == Init /\ [][Next]_vars

\* The flow reads what there is, a receiver that has answered is gone after
\* ACK_TIMEOUT, and the task of the subscriber runs.  The tick needs none.
FairSpec ==
  /\ Spec
  /\ WF_vars(TakesInterrupt) /\ WF_vars(ReadsPrefix) /\ WF_vars(ReadsBody)
  /\ WF_vars(ReadsRest) /\ WF_vars(ReadsEnd)
  /\ WF_vars(answer # Unanswered /\ PeerCloses)
  /\ WF_vars(Forwards)

-----------------------------------------------------------------------------
(* Properties.                                                             *)

\* Types; no position beyond the total is shown.
Kinds == {"progress", "completed", "aborted"}
Update == [kind : Kinds, bytes : Nat]
AnswersOf == {Unanswered, Cancelled} \cup {Result(e, s) : e \in Exports, s \in 0 .. Total}
Event == [kind : {"served", "end"}, position : 0 .. Total]

FlowTypes ==
  /\ front \in Fronts
  /\ at \in {"offered", "transfer"} \cup Ends
  /\ interrupted \in BOOLEAN
  /\ baseline \in Nat

ProviderTypes ==
  /\ served \in Nat
  /\ offset \in [Requests -> Nat] /\ \A r \in Requests : offset[r] <= Size[r]
  /\ open \subseteq Requests
  /\ updates \in [Requests -> Seq(Update)]
  /\ last \in [Requests -> Nat] /\ told \in [Requests -> Nat]

WireTypes ==
  /\ answer \in AnswersOf
  /\ stream \in Seq([part : {"prefix", "body"}, message : AnswersOf])
  /\ closed \in BOOLEAN /\ held \in BOOLEAN /\ torn \in BOOLEAN /\ lost \in BOOLEAN

ShownTypes ==
  /\ reported \in 0 .. Total
  /\ lines \in Seq(0 .. Total)
  /\ bus \in Seq(Event) /\ Len(bus) <= Capacity
  /\ seen \in Seq(Event)
  /\ lagged \in BOOLEAN /\ listening \in BOOLEAN

TypeOK == FlowTypes /\ ProviderTypes /\ WireTypes /\ ShownTypes

\* However the updates of several requests interleave, once the tasks took them
\* all the counter is the sum of what the requests accounted for, each byte
\* counted once, whether the last chunk was told of or not.
ServedExact ==
  (\A r \in Requests : updates[r] = <<>>) =>
    served = MapThenSumSet(LAMBDA r : told[r], Requests)

\* What is printed climbs: each line further than the one before, by a step
\* unless it is the last one, and never beyond the total; an app that lagged
\* sees gaps but no position twice or out of order, and nothing after the end.
ShownClimbs ==
  /\ \A i \in 1 .. Len(lines) - 1 : lines[i] < lines[i + 1]
  /\ \A i \in 1 .. Len(lines) : lines[i] \in 0 .. Total
  /\ \A i \in 1 .. Len(lines) - 1 : lines[i + 1] < Total =>
       (lines[i + 1] * 100) \div Total >= (lines[i] * 100) \div Total + Step
  /\ \A i \in 1 .. Len(seen) - 1 :
       /\ seen[i].kind = "served"
       /\ seen[i + 1].kind = "served" => seen[i].position < seen[i + 1].position

\* What the flow ends as is what the receiver answered, however ticks, interrupts
\* and lost connections come between its pieces.  It is completed only on a report
\* that accounts for every byte and every file, what was skipped included; it is
\* cancelled only if one of the two cancelled; and an answer that arrives whole
\* decides: neither such a report nor a cancel ends as a failure, unless a part of
\* it was lost with the connection or dropped by a tick.  A report that a size
\* lookup left short is not covered: it fails the sender.
Accounted(m) ==
  /\ m.kind = "result"
  /\ m.bytes + m.skipped_bytes = Total /\ m.files + m.skipped_files = FileCount
ReportFollowsAnswer ==
  /\ at = "completed" => Accounted(answer)
  /\ at = "cancelled" => interrupted \/ answer = Cancelled
  /\ at = "failed" /\ (Accounted(answer) \/ answer = Cancelled) => torn \/ lost

\* A subscriber that stays subscribed gets the event that ends the transfer,
\* however far it lagged behind.
FinalSeen ==
  (front = "app" /\ Over /\ listening) ~>
    (~listening \/ \E i \in DOMAIN seen : seen[i] = EndEvent)

-----------------------------------------------------------------------------
(* The invariants behind them.                                             *)

\* The updates on their way tell of a request in order: its offsets never fall
\* back behind what its task saw, nothing follows its end, and what they account
\* for is the last offset they tell of.
Reached(r, i) == IF i = 0 THEN last[r] ELSE updates[r][i].bytes
ToldInOrder(r) ==
  LET n == Len(updates[r]) IN
  /\ told[r] <= offset[r]
  /\ \A i \in 1 .. n :
       /\ updates[r][i].kind = "progress" \/ (i = n /\ r \notin open)
       /\ updates[r][i].kind # "aborted" => Reached(r, i - 1) <= updates[r][i].bytes
  /\ (n # 0 \/ r \in open) =>
       told[r] = IF n # 0 /\ updates[r][n].kind = "aborted" THEN Reached(r, n - 1)
                 ELSE Reached(r, n)

\* What the counter holds of each request: all it accounts for, or, while updates
\* are on their way, the last offset its task saw.
Counted == [r \in Requests |-> IF updates[r] = <<>> THEN told[r] ELSE last[r]]
ServedInv ==
  /\ \A r \in Requests : ToldInOrder(r)
  /\ served = MapThenSumSet(LAMBDA r : Counted[r], Requests)

\* Where the frame of the answer is, as long as nothing of it got lost.
Prefix == [part |-> "prefix", message |-> answer]
Body == [part |-> "body", message |-> answer]
FrameKept ==
  /\ at = "offered" => answer = Unanswered
  /\ lost => closed
  /\ answer = Unanswered => stream = <<>> /\ ~held
  /\ stream \in {<<>>, <<Prefix>>, <<Body>>, <<Prefix, Body>>}
  /\ held => stream \in {<<>>, <<Body>>}
  /\ answer # Unanswered /\ ~torn /\ ~lost /\ ~Over =>
       stream = IF held THEN <<Body>> ELSE <<Prefix, Body>>

AnswerInv == FrameKept /\ ReportFollowsAnswer

\* The lines climb to the last position reported.
Percent(p) == (p * 100) \div Total
LinesClimb ==
  /\ front = "app" => lines = <<>>
  /\ \A i \in 1 .. Len(lines) : i + 1 \in 1 .. Len(lines) =>
       /\ lines[i] < lines[i + 1]
       /\ lines[i + 1] < Total => Percent(lines[i + 1]) >= Percent(lines[i]) + Step
  /\ lines # <<>> => reported = lines[Len(lines)]

\* The events climb to it too, and none follows the last one.
Before(e, f) == e.kind = "served" /\ (f.kind = "served" => e.position < f.position)
Climbs(s) == \A i, j \in 1 .. Len(s) : i < j => Before(s[i], s[j])
Shown(s) == \A i \in 1 .. Len(s) :
  /\ s[i].kind = "served" => s[i].position <= reported
  /\ ~Over => s[i].kind = "served"
EventsClimb ==
  /\ Climbs(seen) /\ Climbs(bus)
  /\ \A i \in 1 .. Len(seen), j \in 1 .. Len(bus) : Before(seen[i], bus[j])
  /\ Shown(seen) /\ Shown(bus)

\* The counter never falls back behind what the app was told.
CounterAhead ==
  /\ at = "offered" => reported = 0
  /\ front = "app" /\ at = "transfer" => reported <= Position

ShownInv == LinesClimb /\ EventsClimb /\ CounterAhead
=============================================================================
