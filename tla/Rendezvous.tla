----------------------------- MODULE Rendezvous -----------------------------
(***************************************************************************)
(* The rendezvous server of crates/rendezvous/src/{lib,server}.rs: the     *)
(* request handlers and the cleanup task, over the mailbox and the         *)
(* limiters of Mailbox.  One process lifetime: nothing is persisted.       *)
(*                                                                         *)
(* A handler runs in two steps, because it locks twice: it counts the      *)
(* request and passes the limiter's mutex, then it works under the mutex   *)
(* of the mailbox.  Between the two the clock, the other handlers and the  *)
(* cleanup task move.  What a handler has read before its second lock is   *)
(* kept in handler[s].  Under the second lock it is one step, with two     *)
(* exceptions, which keep the mutex across steps: a claim that succeeded   *)
(* counts itself in a step of its own, as the counter is read without the  *)
(* mutex, and an allocation may draw nameplates while none is unused.      *)
(*                                                                         *)
(* posted is a history variable: one record per ticket stored.             *)
(***************************************************************************)
EXTENDS Mailbox, FiniteSets

CONSTANTS
  Clients,       \* client IP addresses
  Slots,         \* request handlers that run concurrently
  CreateLimit,   \* CREATE_LIMIT_PER_MINUTE
  AccessLimit,   \* ACCESS_LIMIT_PER_MINUTE
  Free,          \* the value of lock that names no holder
  MaxTime,       \* bound: the clock stops here
  MaxRequests    \* bound: requests served

ASSUME RendezvousAssumption ==
  /\ Slots # {}
  /\ Free \notin Slots
  /\ CreateLimit \in Nat \ {0}
  /\ AccessLimit \in Nat \ {0}
  /\ MaxTime \in Nat
  /\ MaxRequests \in Nat

VARIABLES
  now,                 \* Instant::now(), and the epoch clock
  pairs,
  create_limiter,
  access_limiter,
  allocate_total,
  claim_total,
  rate_limited_total,
  requests_total,
  handler,             \* each slot's request, between its two locks
  lock,                \* the mutex of pairs
  sweep,               \* the cleanup task: the instant it read, once awake
  posted

counters == <<allocate_total, claim_total, rate_limited_total, requests_total>>
limiters == <<create_limiter, access_limiter>>
vars == <<now, pairs, limiters, counters, handler, lock, sweep, posted>>

Idle == [op |-> "idle", plate |-> 0, promised |-> 0]

Handler ==
  [op : {"idle", "allocate", "spinning", "claim", "counting", "status"},
   plate : 0 .. NameplateMax,
   promised : Nat]

Asleep == [awake |-> FALSE, at |-> 0]

Posting ==
  [plate : Nameplates, since : Nat, promised : Nat, expires_at : Nat, handed : Nat]

Tickets == 1 .. Len(posted)

Init ==
  /\ now = 0
  /\ pairs = EmptyMailbox
  /\ create_limiter = [ip \in Clients |-> <<>>]
  /\ access_limiter = [ip \in Clients |-> <<>>]
  /\ allocate_total = 0
  /\ claim_total = 0
  /\ rate_limited_total = 0
  /\ requests_total = 0
  /\ handler = [s \in Slots |-> Idle]
  /\ lock = Free
  /\ sweep = Asleep
  /\ posted = <<>>

-----------------------------------------------------------------------------
(* First half of a handler: counters and limiter.                          *)

Accepts(s) ==
  /\ handler[s] = Idle
  /\ requests_total < MaxRequests

PromisedLateMutant(t) == t + TTL + 1

\* The expiry the answer will report, read before the mailbox is locked.
Promised(t) == t + TTL

ReceiveAllocate(s, ip, valid_ticket) ==
  LET admitted == Admits(create_limiter[ip], now, CreateLimit) IN
  /\ Accepts(s)
  /\ requests_total' = requests_total + 1
  /\ allocate_total' = allocate_total + 1
  /\ create_limiter' = [create_limiter EXCEPT ![ip] = Checked(@, now, CreateLimit)]
  /\ rate_limited_total' = IF admitted THEN rate_limited_total ELSE rate_limited_total + 1
  /\ handler' = IF admitted /\ valid_ticket
                THEN [handler EXCEPT ![s] =
                        [op |-> "allocate", plate |-> 0, promised |-> Promised(now)]]
                ELSE handler
  /\ UNCHANGED <<now, pairs, access_limiter, claim_total, lock, sweep, posted>>

ReceiveLookup(s, ip, op, raw) ==
  LET admitted == Admits(access_limiter[ip], now, AccessLimit) IN
  /\ Accepts(s)
  /\ requests_total' = requests_total + 1
  /\ access_limiter' = [access_limiter EXCEPT ![ip] = Checked(@, now, AccessLimit)]
  /\ rate_limited_total' = IF admitted THEN rate_limited_total ELSE rate_limited_total + 1
  /\ handler' = IF admitted /\ Parses(raw)
                THEN [handler EXCEPT ![s] = [op |-> op, plate |-> raw, promised |-> 0]]
                ELSE handler
  /\ UNCHANGED <<now, pairs, create_limiter, allocate_total, claim_total,
                 lock, sweep, posted>>

\* GET /health and GET /metrics: counted, neither limited nor blocking.
Probe ==
  /\ requests_total < MaxRequests
  /\ requests_total' = requests_total + 1
  /\ UNCHANGED <<now, pairs, limiters, allocate_total, claim_total,
                 rate_limited_total, handler, lock, sweep, posted>>

-----------------------------------------------------------------------------
(* Second half: under the mutex of pairs.                                  *)

Locks(s, op) ==
  /\ handler[s].op = op
  /\ lock = Free

Allocate(s) ==
  /\ Locks(s, "allocate")
  /\ \E p \in Unused(pairs) :
       /\ pairs' = Insert(pairs, p, Len(posted) + 1, now)
       /\ posted' = Append(posted,
            [plate |-> p, since |-> now, promised |-> handler[s].promised,
             expires_at |-> now + TTL, handed |-> 0])
  /\ handler' = [handler EXCEPT ![s] = Idle]
  /\ UNCHANGED <<now, limiters, counters, lock, sweep>>

\* With no nameplate unused the drawing loop never breaks, and keeps the mutex.
AllocateSpins(s) ==
  /\ Locks(s, "allocate")
  /\ Unused(pairs) = {}
  /\ handler' = [handler EXCEPT ![s].op = "spinning"]
  /\ lock' = s
  /\ UNCHANGED <<now, pairs, limiters, counters, sweep, posted>>

CountedAttemptsMutant(answer) == TRUE

\* Only a claim that answers a ticket is counted.
Counted(answer) == answer = "ticket"

\* The match on claim's result keeps the guard until the counter was bumped.
Claim(s) ==
  LET p == handler[s].plate
      answer == ClaimAnswer(pairs, p, now)
  IN
  /\ Locks(s, "claim")
  /\ IF answer = "ticket"
     THEN /\ pairs' = MarkClaimed(pairs, p)
          /\ posted' = [posted EXCEPT ![pairs[p].ticket].handed = @ + 1]
     ELSE UNCHANGED <<pairs, posted>>
  /\ IF Counted(answer)
     THEN handler' = [handler EXCEPT ![s].op = "counting"] /\ lock' = s
     ELSE handler' = [handler EXCEPT ![s] = Idle] /\ UNCHANGED lock
  /\ UNCHANGED <<now, limiters, counters, sweep>>

CountsClaim(s) ==
  /\ handler[s].op = "counting"
  /\ claim_total' = claim_total + 1
  /\ handler' = [handler EXCEPT ![s] = Idle]
  /\ lock' = Free
  /\ UNCHANGED <<now, pairs, limiters, allocate_total, rate_limited_total,
                 requests_total, sweep, posted>>

Status(s) ==
  /\ Locks(s, "status")
  /\ handler' = [handler EXCEPT ![s] = Idle]
  /\ UNCHANGED <<now, pairs, limiters, counters, lock, sweep, posted>>

-----------------------------------------------------------------------------
(* The cleanup task: it reads the clock, then waits for the mutex.  How     *)
(* long it sleeps (CLEANUP_INTERVAL) is left open.                          *)

SweepWakes ==
  /\ ~sweep.awake
  /\ sweep' = [awake |-> TRUE, at |-> now]
  /\ UNCHANGED <<now, pairs, limiters, counters, handler, lock, posted>>

SweepPurges ==
  /\ sweep.awake
  /\ lock = Free
  /\ pairs' = PurgeExpired(pairs, sweep.at)
  /\ sweep' = Asleep
  /\ UNCHANGED <<now, limiters, counters, handler, lock, posted>>

-----------------------------------------------------------------------------
(* Time.                                                                   *)

Tick ==
  /\ now < MaxTime
  /\ now' = now + 1
  /\ UNCHANGED <<pairs, limiters, counters, handler, lock, sweep, posted>>

Serve(s) ==
  Allocate(s) \/ AllocateSpins(s) \/ Claim(s) \/ CountsClaim(s) \/ Status(s)

Next ==
  \/ \E s \in Slots, ip \in Clients, valid_ticket \in BOOLEAN :
       ReceiveAllocate(s, ip, valid_ticket)
  \/ \E s \in Slots, ip \in Clients, op \in {"claim", "status"}, raw \in RawSegment :
       ReceiveLookup(s, ip, op, raw)
  \/ Probe
  \/ \E s \in Slots : Serve(s)
  \/ SweepWakes
  \/ SweepPurges
  \/ Tick

Spec == Init /\ [][Next]_vars

\* Every accepted request is run on by the executor, and so is the cleanup
\* task; clients and the clock owe nothing.
Fairness ==
  /\ \A s \in Slots : WF_vars(Serve(s))
  /\ WF_vars(SweepWakes)
  /\ WF_vars(SweepPurges)

FairSpec == Spec /\ Fairness

-----------------------------------------------------------------------------
(* Properties.                                                             *)

TypeOK ==
  /\ now \in 0 .. MaxTime
  /\ pairs \in [DOMAIN pairs -> Entry]
  /\ DOMAIN pairs \subseteq Nameplates
  /\ create_limiter \in [Clients -> Seq(Nat)]
  /\ access_limiter \in [Clients -> Seq(Nat)]
  /\ allocate_total \in Nat
  /\ claim_total \in Nat
  /\ rate_limited_total \in Nat
  /\ requests_total \in Nat
  /\ handler \in [Slots -> Handler]
  /\ lock \in Slots \cup {Free}
  /\ sweep \in [awake : BOOLEAN, at : Nat]
  /\ posted \in Seq(Posting)

\* Claims that overlap, and claims around the expiry or a sweep, never get the
\* same ticket twice (claim, mailbox.rs:144).
AtMostOneHandout == \A i \in Tickets : posted[i].handed <= 1

\* A ticket is handed out only to a claim that looks before its deadline
\* (mailbox.rs:149), whatever the cleanup task has or has not removed.
HandoutInTime ==
  [][\A i \in Tickets : posted'[i].handed # posted[i].handed
                         => now < posted[i].expires_at]_posted

\* Until the expiry its sender was told, a ticket is in the mailbox under its
\* nameplate: neither a claim, a purge with a clock read long ago, nor another
\* sender's allocation displaces it (lib.rs:204-212, server.rs:123-125).
KeptUntilPromised ==
  \A i \in Tickets : now < posted[i].promised =>
    /\ posted[i].plate \in DOMAIN pairs
    /\ pairs[posted[i].plate].ticket = i

\* A nameplate goes to a second sender only once the code of the first is dead,
\* so a code never leads to the wrong sender's ticket.
NoPlateShared ==
  \A i, j \in Tickets :
    i < j /\ posted[i].plate = posted[j].plate => posted[i].expires_at <= posted[j].since

\* What the mailbox and the ledger owe each other: every entry is the posting it
\* came from, with the claimed flag telling whether the ticket is out.
EntriesAreTheirPostings ==
  \A p \in DOMAIN pairs :
    LET e == pairs[p] IN
    /\ e.ticket \in Tickets
    /\ posted[e.ticket].plate = p
    /\ posted[e.ticket].expires_at = e.expires_at
    /\ e.claimed <=> posted[e.ticket].handed > 0

\* A posting within its lifetime still has its entry.
LivePostingsAreStored ==
  \A i \in Tickets : now < posted[i].expires_at =>
    /\ posted[i].plate \in DOMAIN pairs
    /\ pairs[posted[i].plate].ticket = i

\* Expiries are reported no later than they fall, also by requests under way.
PromisesAreKept ==
  /\ \A i \in Tickets : posted[i].promised <= posted[i].expires_at
  /\ \A s \in Slots : handler[s].promised <= now + TTL

\* The cleanup task's clock may be late, never early.
SweepIsLate == sweep.at <= now

Inv ==
  /\ TypeOK
  /\ EntriesAreTheirPostings
  /\ LivePostingsAreStored
  /\ PromisesAreKept
  /\ SweepIsLate
  /\ AtMostOneHandout
  /\ NoPlateShared

\* Whoever keeps the mutex from one step to the next.
HolderHolds ==
  \A s \in Slots : handler[s].op \in {"counting", "spinning"} <=> lock = s

\* The claim counter follows the tickets that are out: a scrape of /metrics, which
\* reads it without the mutex (lib.rs:98-114), finds it exact or, between the flag
\* and the count of one claim (mailbox.rs:155, lib.rs:245), one behind; never more
\* than one, as that claim still has the mutex, and never ahead.
ClaimTotalFollows ==
  LET out == Cardinality({i \in Tickets : posted[i].handed = 1}) IN
  claim_total = IF \E s \in Slots : handler[s].op = "counting" THEN out - 1 ELSE out

\* An allocation spins: it keeps the mutex and every nameplate is stored, so no
\* draw can end its loop (mailbox.rs:125).
Spinning ==
  /\ \E s \in Slots : handler[s].op = "spinning"
  /\ DOMAIN pairs = Nameplates

\* Every accepted request is answered, through both mutexes and whatever the
\* other requests and the cleanup do, unless an allocation spins (lib.rs:207).
RequestsAnswered ==
  \A s \in Slots : handler[s] # Idle ~> (handler[s] = Idle \/ Spinning)

\* The cleanup task removes every entry whose lifetime is over, with the same
\* exception (server.rs:119, mailbox.rs:182).
SweptUnlessFull ==
  \A p \in Nameplates : (p \in DOMAIN pairs /\ Expired(pairs[p], now))
                        ~> (p \notin DOMAIN pairs \/ Spinning)

\* The cleanup task gets to remove every entry whose lifetime is over, so the
\* nameplate becomes free again (server.rs:119).
ExpiredSwept ==
  \A p \in Nameplates : (p \in DOMAIN pairs /\ Expired(pairs[p], now))
                        ~> (p \notin DOMAIN pairs)

\* What became of ticket t, as the abstract mailbox sees it.
BoxOf(t) ==
  IF t \notin Tickets THEN "absent"
  ELSE IF posted[t].handed > 0 THEN "taken"
  ELSE IF \E p \in DOMAIN pairs : pairs[p].ticket = t /\ ~Expired(pairs[p], now) THEN "open"
  ELSE "lapsed"

\* The server implements the one-shot box: a claim that answers a ticket is a
\* HandOut, and a ticket is withdrawn only after the expiry its sender was told.
Abstract == INSTANCE OneShot WITH
  Tickets <- 1 .. MaxRequests,
  clock <- now,
  box <- [t \in 1 .. MaxRequests |-> BoxOf(t)],
  deadline <- [t \in 1 .. MaxRequests |-> IF t \in Tickets THEN posted[t].promised ELSE 0]

ImplementsOneShot == Abstract!Spec
=============================================================================
