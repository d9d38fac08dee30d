# worddrop: specification, model checking and proofs

worddrop moves files between two machines that share a short code such as
`4173-caretaker-fascinate-cellulose`. The number (nameplate) finds a ticket at a
rendezvous mailbox, the words authenticate the two ends to each other (SPAKE2
with key confirmation), and the files travel over an iroh connection. There is a
command line, a rendezvous server and a Flutter app over a native bridge.

This directory holds TLA+ modules that model the parts of that program where
order, failure and concurrency matter, TLC instances of them, and TLAPS proofs.
`PROJECT.json` maps every definition to the lines it models and lists runs,
mutants, hazards, findings and theorems.

    tlc -workers 2 -config MCRendezvous.cfg MCRendezvous    # a model-checking run
    tlapm RendezvousProofs.tla                              # a proof

## 1. Inventory

Paths are relative to `src/`. "Hard" names what tests hardly reach.

**Rendezvous server** (`crates/rendezvous/src/{mailbox,lib,server}.rs`).
State: `Mailbox` (nameplate -> ticket, deadline, claimed flag) and two
per-client sliding-window limiters, each behind a mutex, and four atomic
counters; all in memory. Operations: allocate, claim, status, health, metrics,
and a cleanup task that purges expired entries. Clients call it over HTTP; it
calls nobody. Hard: a handler locks twice and reads the clock outside the
locks, the cleanup task reads the clock before it waits for the mutex, the
drawing loop of a full mailbox. Correct when: a ticket is handed out once, in
time, and stays available until the expiry its sender was told; a nameplate
never leads to another sender's ticket; the limiter holds in every window.

**Rendezvous clients** (`crates/cli/src/rendezvous_client.rs`): an HTTP client
of that server, and an MQTT backend that stores the ticket as a retained message
under a topic derived from nameplate and words, on a public broker that is not
ours. Each operation opens a connection of its own. Hard: claim and clear are two
broker operations, a publish may be overtaken by the cleanup, a lost answer hides
that the claim was carried out, the flow may be dropped before its cleanup.
Correct when: a code leads to its own ticket or nowhere, a waiting sender's ticket
stays, a ticket that was cleared is not handed out, nothing is left on the broker
without a cause.

**Command-line flows** (`crates/cli/src/send/`, `receive.rs`, `wire.rs`,
`commands.rs`): `run_send` prepares the collection, publishes a ticket, waits for
a control connection, pairs, offers, waits for the answer and the result;
`run_receive` claims, dials, pairs, asks the user, downloads, reports and waits
for the close. Hard: Ctrl+C, timers, lost and torn messages, two receivers with
one code, an end that closes while the other still writes. Correct when: files
go only to the right receiver that agreed; reported outcomes are true; every
flow ends.

**Session core** (`crates/core/src/session/{state,control}.rs`, `session.rs`):
the phase machine and the framed control messages. Correct when: no phase is
skipped and nothing leaves a terminal phase.

**Pairing** (`crates/core/src/pairing/`): drawing, splitting and validating word
codes, SPAKE2 over the words and the two messages, key confirmation. Mostly pure
computation. Hard: three readings of one code (the receive flow splits, the topic
normalises, SPAKE2 takes the raw words).

**Resumable receive** (`crates/core/src/transfer/`): import (`send.rs`), resumable
receive (`receive.rs`, `receive/core.rs`) and its record on disk (`record.rs`).
State: blob store, record file, target directory. Hard: a crash at any step of
the export loop, several attempts with other options, records that outlive their
receive. Correct when: the record never claims more than was exported; an Ok
passes no target over; other people's files are untouched.

**Transfer phase** (`core/src/transfer/engine/`, `cli/src/send/transfer.rs`,
`ui.rs`, bridge `flows.rs` and `events.rs`, `core/src/protocol/wire.rs`): the engine
turns the provider's updates of each request into one served-bytes counter, the
sender's loop selects between ticks, Ctrl+C and a frame of the receiver, and shows
progress on a terminal, in plain lines or as events of a bus. Hard: several
requests at once, updates that are reordered or missing, a tick that drops a read
inside a frame, a subscriber that lags. Correct when: each byte is counted once,
what is shown climbs, the end is seen, and what the flow ends as is what the
receiver answered: completed only on a result that accounts for every byte and file.

**What a machine's commands share** (`core/src/identity.rs`, `config.rs`, the
stores of the engine, `cli/src/commands.rs`): `key.bin`, `config.toml` and a blob
store per role, used by several processes. Hard: two first runs create the key,
two `config set` overlap, a crash between create, write and rename leaves a
temporary file that a later process with the same id meets, who opens a store that
is open hangs for ever, and the cleanup removes the very file that is locked.
Correct when: a reader never sees part of a file, a sender's node id stays what it
told, no setting is lost, a flow that has its store keeps it, no command hangs but
for one of its own role.

**App bridge** (`flutter/rust/src/api/`): a registry of sessions, blocking calls
from app threads, one flow task per session fed through a command channel, a
stage and a phase behind locks, an event broadcast, a cache cleanup. Hard: the
stage is checked under a lock that is released before the command is sent;
several threads decide at once; dispose only drops a channel end; the cleanup
must stay away from open stores. Correct when: calls return, one decision is
taken and kept, a cancel that was granted holds, a disposed flow stops.

**App** (`flutter/app/lib/`): screens, and a history in shared preferences.

**Deployment and generated code**: no logic of its own.

## 2. Modules

| module | models | state | composes |
|---|---|---|---|
| `Mailbox` | the two data structures of `mailbox.rs` as operators | none | |
| `Rendezvous` | handlers, limiters, cleanup task, clock | `pairs`, limiters, counters, `handler`, `lock`, `sweep`, history `posted` | extends `Mailbox` |
| `OneShot` | abstract: a box that hands each ticket out once | | implemented by `Rendezvous`, and by the server that `RvClient` assumes |
| `RateLimiter` | one limiter against the admissions it grants | `queue`, histories `admitted`, `last` | extends `Mailbox` |
| `SessionPhase` | `SessionPhase::transition` | none | |
| `Session` | one send flow and the receive flows that hold its code, the control connections, Ctrl+C, timers | `s_*`, `r_*`, `link`, `to_s`, `to_peer`, `available`, histories `answer`, `got` | extends `SessionPhase` |
| `Handover` | abstract: ask one receiver, deliver to one that agreed, report what is true | | implemented by `Session` |
| `Resume` | receives of one collection, the record on disk, the targets, crashes | `target`, `saved`, the attempt | |
| `Bridge` | API calls, command channel, both flow tasks, dispose, cache cleanup | `life`, `stage`, `phase`, `flow`, `cmds`, `serving`, `call`, `cleanup`, histories | extends `SessionPhase` |
| `WordCode` | codes, how each reader takes them, SPAKE2 keys and confirmation as functions | none | |
| `RvClient` | both backends of the rendezvous client under the two flows, with the broker or server and the connections to it | `at`, `code`, `ticket`, `slot`, `up`, `down`, `subscribed`, histories | extends `WordCode` |
| `Machine` | the key, the settings and the stores under commands of several processes that crash | `at`, `data` (inodes), `key`, `config`, `tmp`, `lock`, `entries`, histories | |
| `Transfer` | provider updates, engine counter, both transfer loops, frame reader, plain output, event bus | `served`, `offset`, `updates`, `answer`, `stream`, `held`, `reported`, `lines`, `bus`, `seen`, histories | |
| `RendezvousProofs`, `RateLimiterProofs`, `SessionProofs`, `ResumeProofs`, `BridgeProofs`, `RvClientProofs`, `MachineProofs`, `TransferProofs` | proofs | | |
| `MC...` | instances for TLC | | |

Operators named `...Mutant` are what a plausible slip would make of the
definition after them; no specification uses them. Each property of a passing
run is shown to be violated when one of them takes that definition's place.

### How they correspond to the code

*Rendezvous.* A handler is two actions, because it locks twice: `Receive...`
counts the request and passes the limiter, `Allocate`, `Claim`, `Status` work
under the mailbox's mutex. Between the two everybody else moves; what the
handler read before (the promised expiry, `lib.rs:204`) is kept in
`handler[s]`. A critical section is one action with two exceptions, in which the
mutex `lock` stays taken: a successful claim flags its entry in `Claim` and counts
itself in `CountsClaim`, since a scrape reads the counter without the mutex, and
`AllocateSpins` is the drawing loop with no nameplate left. The cleanup task is two actions, reading
the clock and purging. A ticket is the position of its posting in `posted`.

*RateLimiter.* `Check` is `RateLimiter::check`; the pruning loop is
`Prune`, the longest suffix that starts with a young access.

*Session.* Each `await` that can block is a value of `s_at` or `r_at`; an action
is what runs between two of them, including the phase transition and the
message written. An end that returns closes its connections: what was written
but not yet received may be lost (`Prefixes`). The interrupt is a flag, since
the future stays ready, and wins where the select is biased. Timers are not
counted: a bounded wait may time out at any time. `TickTearsFrame` is the 100 ms
tick of the sender's transfer phase that drops a read inside a frame.

*Resume.* One action per step that changes the disk: load-and-save, download,
start and end of a copy, save, final save, delete. `Fails` and `FailsAfterRemove`
are the error returns, `Crash` may come between any two steps.

*Bridge.* A call is two actions (check and set the stage under the lock, then
send the command), a reply is part of the action of the flow that sends it. Each
`select` or bounded wait of the flows is a value of `flow`; `Polls` are those
that look at the command channel.

*WordCode* and *RvClient.* A word is a member of the list in one of its spellings; a
code typed at a receiver is a record of what the readers look at. SPAKE2 is a key
made of both ends' words and messages: equal keys exactly for equal words. Every
operation of a client is a connection with a queue each way, so a sender's publish
and its cleanup may reach the broker in either order; `Breaks` loses what a
connection carries. `PublishFails`, `ClaimFails`, `CleanupFails` stand for the
timeouts and errors of the code, `FlowTimesOut` for the drop of the whole flow at an
await. The HTTP server is reduced to the one-shot box that `Rendezvous` implements;
that it is one is `ServerIsOneShot`.
There is no clock: a timeout may come at any time.

*Machine.* A file name points to an inode, so a thread that opened a file goes on
writing to it when its name is moved or removed. One action per system call that
another process can observe: create, remove and create again, write, rename;
truncate, fill, rename; open and close a store. `lock` says who has open the
database that stands under a store's name, `entries` what its directory holds. Who
opens a store whose database is open hangs (`"hung"`); only a receive gets out again,
by `FLOW_TIMEOUT` (`GivesUp`). `ClearsCache` removes one entry per step, in any
order; once it removed the database the name is free, and others get in while the
clear goes on. `met` records where the others of its role were when a command came
to its store. `Crashes(p)` ends every thread of a
process between any two; its locks go, its files stay. Temporary names contain the
process id, as in the code.

*Transfer.* `Serves`, `EndsRequest` are the provider; `Folds` takes one update of
one request in `make_event_sender`. A frame is a prefix and a body: `ReadsPrefix`,
`ReadsBody`; `Ticks` drops what was read of a frame, after which `ReadsRest` takes a
body for a prefix. A report of the receiver holds the four numbers the sender adds
up; what its size lookups count of the skipped bytes is anything up to all of them. `Prints` is `PlainBar`, `Emits` and `Forwards` the bus and the
task that serves a subscriber.

### What is assumed of code outside the repository

* an iroh-blobs export in `ExportMode::Copy` writes into the target path itself,
  so it can be found there in part; a saved blob survives a crash;
* a closed QUIC connection may drop data that was written but not received, and
  delivers a prefix in order;
* a download ends, well or badly;
* who opens a file store whose database is open waits for ever (`commands.rs:65-67`);
  the lock is one of the database file, so it keeps nobody out once that has been
  unlinked (`engine/mod.rs:357-360`), and a new opener makes a new one;
* dropping a channel's receiver wakes those who wait on it (tokio); a broadcast
  channel that is full drops its oldest event;
* a broker keeps one retained message per topic, an empty one clears it, and it
  serves one connection in order and several in any order; that a publish was
  flushed says nothing of its arrival (`rumqttc`);
* rename is atomic, and a write is visible to the other processes at once (the code
  has no fsync: a loss of power is not modelled);
* the provider reports offsets that grow over a request (`iroh-blobs`).

## 3. Runs

| run | instance | properties | states |
|---|---|---|---|
| `rendezvous` | 2 nameplates, 2 slots, 1 client, TTL 2, limits 2, clock to 3, 3 requests; fair | `TypeOK`, `AtMostOneHandout`, `KeptUntilPromised`, `NoPlateShared`, `ClaimTotalFollows`, `HandoutInTime`, `ImplementsOneShot`, `RequestsAnswered`, `SweptUnlessFull` | 188,427 |
| `mailbox_full` | 1 nameplate, fair | `ExpiredSwept`: violated | |
| `rate_limiter` | 2 clients, limit 2, window 3, clock to 7, 5 admissions each; clients symmetric | `NoBurst`, `RejectionJustified` | 195,340 |
| `session` | 2 receivers with right or wrong words, one of them with a full store; fair | `TypeOK`, `OnlyTheRightPairs`, `ReportsAgree`, `ImplementsHandover`, `FlowsEnd` | 328,440 |
| `rv_client` | 2 senders, 2 receivers, 2 nameplates, 2 words, codes of one word, 3 typed texts; flows symmetric | `TypeOK`, `TicketOfTheCode`, `NoLateClaim`, `KeptWhileWaiting`, `LeftoversExplained` | 2,038,219 |
| `transfer` | 2 requests of 2 and 1 bytes, total 2 in 2 files of which 1 is exported, lines every 50 %, bus of 1; fair | `ServedExact`, `ShownClimbs`, `ReportFollowsAnswer`, `FinalSeen` | 1,618,649 |
| `resume` | 2 directories, 2 files, 4 attempts; directories symmetric | `RecordIsTrue`, `NothingMissing`, `OverwriteRepairs`, `ForeignKept` | 167,128 |
| `resume_part` | the same, 2 attempts | `OkLeavesNoPart`: violated | |
| `machine` | 2 processes with 2 commands each, 2 settings, 1 value; fair | `NoTornFile`, `IdentityKept`, `SettingsSerial`, `CacheKeptInUse`, `CommandsEnd` | 503,532 |
| `bridge` | 3 threads, either role, fair | `TypeOK`, `CancelHonoured`, `OneDecision`, `TerminalFinal`, `CallsAnswered`, `DisposeStops` | 73,236 |
| `bridge_cleanup` | 3 threads | `CleanupAlone`: violated | |
| `bridge_retry` | 3 threads | `IdleIsRetryable`: violated | |

Where `TypeOK` is missing from a run it is proved (section 5).

*What the passing runs show.* `rendezvous`: with claims, allocations and a sweep
overlapping in any order around a deadline, each ticket goes out at most once and
never late, no sweep with an old clock and no allocation displaces a ticket
before its promised expiry, and the server is a one-shot box; the claim counter of
`/metrics` is at most the one claim behind that still has the mutex; and every request is
answered and every expired entry removed, unless an allocation finds all
nameplates stored, which `mailbox_full` shows to be a real exception.
`rate_limiter`: the limit holds in every window and not just in aligned ones.
`session`: whatever is torn, lost, interrupted or timed out, only a receiver with
the words pairs, completed and declined are never reported against the other
side's doings, the flows do what `Handover` says, and they end without the overall
timeout. `rv_client`: with connections that break and overtake one another, a claim
reads the ticket of the code that was typed and of no other, a waiting sender's
ticket stays, and a ticket is left on the broker for four causes only. `transfer`:
the counter is exact once the updates are in, what the user sees climbs and ends,
and an answer that arrives whole decides what the flow ends as, unless it is a
report that falls short. `resume`: the record is never ahead of the disk.
`machine`: first runs and settings of overlapping processes do no harm to one
another, whatever crashes; a flow that met no clearing when it came to its store
keeps database and files; and no command hangs but a send or a cleanup that found
another of its role in its store. `bridge`: the check-then-send window of the calls
does no harm, also when the session is disposed of in it; a call always returns.

*Bounds and why they are enough.* In `rendezvous` two slots are needed for two
requests to overlap; a third adds no new pair of steps, since whoever has the
mutex runs alone but for the metrics. The clock goes past the TTL, so a ticket can be claimed before, at and
after its deadline, swept and its nameplate reused; three allocations meet a full
mailbox of two. In `rate_limiter` the clock covers two windows and one tick, and
five admissions exceed the limit twice. In `session` the second receiver exists to
come second; `to_s` never holds more than the protocol's messages, so queues need
no bound. In `rv_client` the two senders share an address when the server gives them one
nameplate or their draws agree, and differ otherwise in nameplate or words; the
typed texts are one code, which a sender may have or not, the same in another
spelling and one that does not parse;
queues hold at most the operation of their connection. In `transfer` two requests
interleave, one is served in two updates, their sum exceeds the total (the
collection's own blobs are served too), 50 % makes one line in the middle, and a
bus of one event lags at the second. Four attempts in `resume` let a record be
written, be left by an attempt elsewhere, be resumed and outlive it; two files
make a first and a later one. Two commands of two processes in `machine` let one
start over the remains of another that crashed; with two settings a lost update is
seen. In `bridge` three callers allow accept, decline and cancel to be under way at
once. `MaxTime`, `MaxRequests`, `MaxAdmitted`, `MaxAttempts` and `MaxRuns` are the
only bounds in guards; the proofs hold for every value of them. Where a run says
`CHECK_DEADLOCK FALSE` the system does stop: the clock ends, the flows are over,
the attempts are used up. `bridge` checks deadlock, as a session in any state
leaves the cleanup free to run.

*Fairness.* `Rendezvous`: weak fairness of each handler's second half and of the
cleanup task, both run by tokio's executor. A handler that waits for the mutex is
disabled while another has it; requests are bounded, so who has it lets go of it or
spins for ever, and weak fairness is enough. None of the clients or the clock. `Session`: weak
fairness of each flow, which its executor polls. Every wait is bounded by a timer
of its own, with these exceptions: the prompt, whose timer answers no; the
download, which is assumed to end; and the sender's transfer phase, whose idle
timer is rebuilt at each tick (`send/transfer.rs:59`) and which moves on only when
its peer does something or ends. Users, the
network and the overall timeout owe nothing. `Bridge`: weak fairness of the flow
and of a caller's send; none of the app, of `PeerFinishes` or of the cleanup.
`Machine`: weak fairness of each thread's steps, `FLOW_TIMEOUT` of a receive
included; a hung send or cleanup has no step but its crash; none of starts or
crashes. `Transfer`: weak fairness of the reader, of the interrupt's
branch and of the forwarding task; a peer that answered closes; none of the
provider, of a peer's answer or of the ticks. `RvClient` has no liveness property:
every step of it may be replaced by a timeout.

## 4. Where code and text disagree

* `mailbox_full` (`mailbox.rs:125`): with every nameplate stored, expired ones
  included, `allocate` loops with the mutex held, and the cleanup task that would
  free one waits for that mutex for ever.
* `resume_part` (`receive/core.rs:157`): after a crash inside a copy the resumed
  receive takes the partial target for an existing file of the user's, skips it
  and returns Ok. `OverwriteRepairs` shows that overwrite mends it.
* `bridge_cleanup` (`api/cache.rs:27`): the cleanup reads the number of sessions
  once. In the trace it reads 0 while a session is being made, which is registered
  then: its flow waits for its first call, with its engine open, and the cleanup
  goes through the stores beside it, where `cache.rs:7-10` says it refuses to. The
  run stops at the first such state; `Bridge` has another way there, by a session
  that was disposed of and whose flow has not noticed yet, which it does not show.
* `bridge_retry` (`api/flows.rs:72`): the stage says Idle, "retryable", and the
  flow that would have to serve the retry is gone.

Noticed while reading, without a run:

* `status` reports an entry past its deadline as expired even if it was claimed
  (`mailbox.rs:164`), while the client documents expired as "before any claim"
  (`rendezvous_client.rs:72`).
* `wire.rs:270-272` takes the sender's close for an acknowledgement; a sender
  interrupted by Ctrl+C closes unread (`send/mod.rs:306`), and the receiver reports
  completed where the sender reports cancelled. `ReportsAgree` allows that pair.
* `FLOW_TIMEOUT` drops the flow at an await (`commands.rs:128`), before the
  cleanup that `send/mod.rs:183` promises on every exit path. `RvClient` has it as
  the cause "dropped" of `LeftoversExplained`.
* One-shot is approximate on MQTT: two claims that overlap may both read the
  retained message before either clears it. A claim that times out after reading
  has cleared it and lost it; on HTTP a lost answer of a claim loses the ticket.
* A code typed in capitals reaches the same topic (`derive_topic` normalises), but
  SPAKE2 takes the raw words: the pairing fails and the code is burnt.
* A skipped file whose size cannot be looked up counts 0, "so accounting can never
  fail a transfer" (`receive/core.rs:230-233`), but the sender compares the sums
  and fails it (`send/transfer.rs:67`). `Session` has it as `short_result`, `Transfer`
  as the reports that count less than was skipped; `ReportFollowsAnswer` is silent of
  them. So is it of an answer that a tick tore: the flow then fails though the
  receiver reported (`send/transfer.rs:92`).
* `metrics` reads the number of pairs with `try_lock` and takes every failure for a
  poisoned mutex (`lib.rs:102`): the gauge is 0 in any scrape that meets a handler or
  the cleanup task with the mutex.
* `clear_cache` leaves it to its caller that nobody uses the store
  (`engine/mod.rs:357-358`). The cleanup command does no more than open the store,
  and the removal of the locked file ends what that kept out: a flow that opens
  the store before the directory is gone makes a new database in it, of which the
  clear may remove the files. `CacheKeptInUse` therefore speaks only of flows that
  met no clearing.
* A cleanup beside a send or receive hangs in the open instead of failing with the
  "retry" text it has (`commands.rs:65-67`, `307`); so does a second send. Of a
  receive `FLOW_TIMEOUT` makes an end (`commands.rs:196-210`).
* With overwrite the old file is removed before its replacement is exported
  (`receive/core.rs:164`); when the export fails it is gone. A record that is Done
  and was not deleted counts a file that the user took away since as delivered.
* The sender's idle timer is restarted by each tick and never fires
  (`send/transfer.rs:59`, `92`). `finish_and_clear` prints a 100 % line on a
  cancelled or failed transfer too. `report_line` multiplies a position by 100
  unchecked (`ui.rs:190`), its neighbour checks.
* If the provider's offsets started anew for each blob of a request, the counter
  would miscount, hidden by the cap at the total; `Transfer` assumes they grow.
* The temporary file of the key is named by the process id (`identity.rs:232`),
  which threads share: with both threads of `Machine` in one process TLC finds
  `KeyWhole` violated, while `identity.rs:223-225` promises that a reader never sees
  a partial file. `config.rs:159-160` is built alike. The command line has one such
  thread per process, which the run and the theorems assume (`SeparateProcesses`).
* After a rejected command the download is awaited without polling
  (`flows.rs:646-648`), so a later cancel does not abort it, contrary to
  `flows.rs:584`. `Bridge` has it as the step `deaf`.
* `accept_offer` passes its stage check from the moment `claim` was called
  (`session.rs:151`), before there is an offer; the flow sorts it out.
* A stream that ends inside a message is called a remote cancel in
  `control.rs:87`; the flows report a failure.
* The app's history is loaded when its tab opens; a record made before overwrites
  what is stored (`transfer_history.dart:181-182`, `263-267`), and `load` replaces
  what was inserted while it waited (`229-260`). A sender's transfer is recorded from
  its first "served" event on, so a very short one never is; a cancel pressed while
  the flow completes is recorded as cancelled.

## 5. Proofs

All are for every value of the constants, from the assumptions of the modules
(`MailboxAssumption`, `RendezvousAssumption`, `RateLimiterAssumption`,
`SessionAssumption`, `ResumeAssumption`, `BridgeAssumption`, `WordCodeAssumption`,
`RvClientAssumption`, `MachineAssumption`, `TransferAssumption`): sizes, lifetimes,
windows and limits are positive naturals, bounds are naturals, the value for "none"
is none of the others, the requests of a transfer are finitely many. TLC evaluates
them in the runs, and each inductive invariant was model-checked before it was
proved. Every invariant and action property of a passing run is proved; liveness is
not.
`PROJECT.json` lists the theorems; lemmas go action by action.

`RendezvousProofs`. None of the safety properties is inductive: a purge keeps a
live ticket only because its clock reading is late and never early, a claim
marks the right posting only if entries and postings belong together. `Inv` adds

* `EntriesAreTheirPostings`: each entry is the posting it came from, claimed
  exactly if its ticket was handed out;
* `LivePostingsAreStored`: before its deadline a posting has its entry;
* `PromisesAreKept`: a promised expiry is no later than the stored one, also in
  a handler that has not stored it yet;
* `SweepIsLate`: the instant the cleanup task read is in the past.

`TypeCorrect`, `OneHandout`, `PlatesNotShared` and `PromiseKept` follow;
`HandoutsInTime` is an action property from the same invariant. `ClaimsCounted`: the
counter is the number of tickets handed out, or one less while a claim has flagged
its entry and not counted itself. A claim adds exactly one posting to those handed
out, because it was not among them before; and there is only one such claim at a
time, because it has the mutex (`HolderHolds`: whoever counts or spins has it).
`Refinement`
shows `Spec => ImplementsOneShot`: an allocation is a `Deposit`, a successful claim
a `HandOut`, a tick an `Advance` in which exactly the tickets whose deadline it
reaches lapse, and everything else, the sweep included, a stutter.

`RateLimiterProofs`. The invariant `Agree` says that the queue is the end of the
admissions, that what was pruned from it is at least a window old, and that the
admissions are in order and spread out. `PruneAgrees`, `AppendAgrees` and
`FullQueueJustifies` treat the three things `check` does; `LimitHolds`,
`RejectionsJustified` and `QueuesBounded` (a client's queue holds at most the limit
of instants, none of them in the future) follow. They rest on `PruneLeavesSuffix`: what the pruning
loop leaves is a suffix, found by the least-element principle.

`SessionProofs`, for every number of receivers and however long the queues get.
`PairInv` adds where a flow may be while it is or is not paired (`SenderPlaces`,
`ReceiverPlaces`), which gives `PairsOnlyRight`. A report can be wrong only by way of
a message, so `ReportInv` says of the messages what the reports will say:
`TrueOnTheWay` (a result or a decline that is under way is true, and stays so),
`ExportPlaces` (who is past exporting has exported). A connection that breaks keeps
a prefix of a queue, which carries no new message. `ReportsMatch` follows.
`HandsOver` is the refinement of `Handover`; `AnswerPlaces` says where the user's
answer is known, so that asking, agreeing and delivering happen once each and in
order, and everything before the offer is a stutter.

`ResumeProofs`. `Inv` adds to `RecordIsTrue` that the record in memory is as true
as the saved one and no shorter, that the files before `next` are settled
(something is there, and it is whole under overwrite), that the file being copied is in part and not
recorded, and that at the end every file is settled. `RecordTrue`, `NoneMissing`,
`OverwriteMakesWhole` and `ForeignUntouched` follow; a crash is harmless to the
invariant because what it says of the disk does not depend on the attempt.
`NoneMissing` does not say what a target holds: a part, somebody else's file or one
taken away after its export satisfy it; `OverwriteMakesWhole` says it, under overwrite.

`BridgeProofs`, for every number of app threads. `PhaseOfFlow` ties the phase to
the flow's place, so that a legal transition is always at hand; `CancelLast` says
that after a granted cancel nothing but the cancel is left to do;
`DecisionFollowed` that the flow is on the side of the decision that was taken;
`OverTogether` that phase and flow end together. `CancelHolds`, `DecidedOnce` and
`OverForGood` follow.

`RvClientProofs`, for every word list, number of senders, receivers and nameplates,
and queues of any length. None of its properties is inductive, because what a claim
will read is decided while it is still on its way. `Inv` follows a ticket along it:

* `PlaceInv`: how far a flow is tells whether it has a code or a ticket, and on
  which backend it is;
* `WireInv`: what each connection can carry (`OpensOnce`, `ClosesItsOwn`,
  `ClaimsAsAsked`, `ToldOnce`), and that every ticket under way to a receiver is one
  its code leads to and was not spent when the claim began (`AnswersAsAsked`);
* `StoreInv`: a stored ticket landed, is not spent and is under the address of its
  code and no other; the HTTP server keeps it there until it is spent. The nameplate
  of a ticket is known to the server before its sender has it, so `Plates` takes the
  answer that is still under way into account;
* `EndInv`: `ClearedBehind` (a sender that ended with nothing to blame has sent the
  clear after its ticket) and `MatesPlaces` (who is paired was waited for).

It gives `ReadsItsOwn`, `NotTooLate`, `KeptForTheWaiting`, `LeftoversHaveACause` and
`PairsKnowTheWords`, which no run lists: it was model-checked as a part of `Inv`. So
was, on its own, `ServesOneShot`, which `ServerIsOneShot` proves: under an http base
the slots implement `OneShot`, the box that `Rendezvous` implements too, there with a
clock under which tickets also lapse. `ValidatesTheDrawn` is about the operators of
`WordCode`: validate accepts what generate draws, and nothing else.

`MachineProofs`, for every number of processes, settings and commands. `CacheKept`
is inductive with `NobodyClears`: no one is clearing the store of a flow that met no
clearing when it opened it. Such a flow has the database under the store's name
open, so whoever comes later hangs; and a clearing that began earlier is one it
would have met.
The three about files (`FilesWhole`, `IdentityStays`, `SettingsKept`) are for
threads that are processes of their own (`SeparateProcesses`) and rest on inodes:
those still to be made have no name (`InodesFresh`), a temporary file is no other
file (`TmpsApart`), and a writer's inode is under its own temporary name
(`WritersOwn`), so a rename never publishes what someone still writes.

`TransferProofs`, for every number and size of requests, step and bus.
`AnswerDecides` rests on `FrameKept`: what the wire and the reader hold is the
answer, whole, unless it was torn or lost; so the body that is read is the answer,
and neither a remainder nor the end of the stream is met before it. `ShownClimbing` rests on `LinesClimb` and
`EventsClimb` (every line and event is at or below what was reported last, also
those still on the bus) and on `CounterAhead`, that the position only grows.
`ServedIsExact` needs that the updates under way tell of a request in order
(`ToldInOrder`: the offsets never fall back, nothing follows the end, and what an
aborted request accounts for is its last progress); then the counter is at any time
the sum of `Counted`, what the tasks have taken. The sum is the fold of
`FiniteSetsExt`, a function defined by itself on the subsets of the requests: that
it exists, and that it grows with one of its terms, goes by a smallest set for which
it would not (`SmallestSet`, `SumsExist`, `SumsChange`).

Only model-checked: every liveness property (`RequestsAnswered`,
`SweptUnlessFull`, `FlowsEnd`, `CommandsEnd`, `FinalSeen`, `CallsAnswered`,
`DisposeStops`), which need fairness and `ENABLED` and are out of the prover's
reach.

## 6. Not modelled, and why

* Group arithmetic, HKDF and HMAC of the pairing, and the word list: pure
  computation, taken by what it guarantees (`WordCode`).
* The import of a collection before anyone is connected (`transfer/send.rs`): one
  task, no other actor; it ends well or badly, which `Session` and `Bridge` have as
  a choice. Its path rules are string work.
* `status` and `health` of the rendezvous client: no flow depends on them.
* Deadlines at the rendezvous under the clients: `Rendezvous` has the clock,
  `RvClient` has none. A restart of the server empties the mailbox; nothing is
  promised about that, and nothing is persisted.
* Argument parsing, prompts, the terminal's bar, texts, environment overrides.
* The cancel watch of `core/session.rs`: nothing in production subscribes to it.
* The app's screens and history; the second is worth a module (section 4), beside
  an app whose tasks do not overlap in any other state.
* Generated glue, deployment files.

`PROJECT.json` lists each component with its status.

## 7. What could follow

* `History`: load, add and persist as interleaved futures with the event stream.
* Several sessions of the bridge with one data directory, joining `Bridge` and
  `Machine`.
