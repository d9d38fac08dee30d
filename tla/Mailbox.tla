------------------------------ MODULE Mailbox ------------------------------
(***************************************************************************)
(* The two data structures of crates/rendezvous/src/mailbox.rs, as values: *)
(* the mailbox (nameplate -> entry) and the sliding-window rate limiter.   *)
(* Every operator is what one method does while its mutex is held; the     *)
(* handlers that call them are the actions of Rendezvous.  The operators  *)
(* named ...Mutant are what a plausible slip in the next definition would  *)
(* make of it; no specification uses them.                                 *)
(*                                                                         *)
(* A ticket is opaque to the server, so it is a number: the position of    *)
(* the allocation that stored it.  A raw path segment is a number too:     *)
(* what Nameplate::parse tells apart is only whether it names a nameplate. *)
(***************************************************************************)
EXTENDS Integers, Sequences

CONSTANTS
  NameplateMax,   \* 9999 in the code
  TTL,            \* 600 s: lifetime of an entry
  Window          \* 60 s: the limiter's sliding window

ASSUME MailboxAssumption ==
  /\ NameplateMax \in Nat \ {0}
  /\ TTL \in Nat \ {0}
  /\ Window \in Nat \ {0}

-----------------------------------------------------------------------------
(* Nameplates.                                                             *)

Nameplates == 1 .. NameplateMax

RawSegment == 0 .. NameplateMax + 1

ParsesUnboundedMutant(raw) == raw >= 1

\* Nameplate::parse: 0 stands for every segment that is no canonical number.
Parses(raw) == raw \in Nameplates

-----------------------------------------------------------------------------
(* The mailbox.                                                            *)

Entry == [ticket : Nat, expires_at : Nat, claimed : BOOLEAN]

EmptyMailbox == [p \in {} |-> [ticket |-> 0, expires_at |-> 0, claimed |-> FALSE]]

UnusedFromTwoMutant(pairs) == (2 .. NameplateMax) \ DOMAIN pairs

\* What allocate may draw.
Unused(pairs) == Nameplates \ DOMAIN pairs

ExpiredLateMutant(entry, t) == t > entry.expires_at

\* The deadline test that claim and status share.
Expired(entry, t) == t >= entry.expires_at

\* The insertion that ends allocate: the entry's life starts now.
Insert(pairs, p, ticket, t) ==
  [q \in DOMAIN pairs \cup {p} |->
     IF q = p THEN [ticket |-> ticket, expires_at |-> t + TTL, claimed |-> FALSE]
              ELSE pairs[q]]

ClaimAnswerRepeatableMutant(pairs, p, t) ==
  IF p \notin DOMAIN pairs THEN "not_found"
  ELSE IF Expired(pairs[p], t) THEN "expired" ELSE "ticket"

\* What claim answers: the expiry is looked at before the claimed flag.
ClaimAnswer(pairs, p, t) ==
  IF p \notin DOMAIN pairs THEN "not_found"
  ELSE IF Expired(pairs[p], t) THEN "expired"
  ELSE IF pairs[p].claimed THEN "not_found"
  ELSE "ticket"

MarkClaimed(pairs, p) == [pairs EXCEPT ![p].claimed = TRUE]

PurgeClaimedTooMutant(pairs, t) ==
  [p \in {q \in DOMAIN pairs : pairs[q].expires_at > t /\ ~pairs[q].claimed}
     |-> pairs[p]]

PurgeKeepsClaimedMutant(pairs, t) ==
  [p \in {q \in DOMAIN pairs : pairs[q].expires_at > t \/ pairs[q].claimed}
     |-> pairs[p]]

PurgeOneTickEarlyMutant(pairs, t) ==
  [p \in {q \in DOMAIN pairs : pairs[q].expires_at > t + 1} |-> pairs[p]]

\* purge_expired keeps exactly the entries whose deadline lies after t.
PurgeExpired(pairs, t) ==
  [p \in {q \in DOMAIN pairs : pairs[q].expires_at > t} |-> pairs[p]]

-----------------------------------------------------------------------------
(* The rate limiter: one queue of admission times per client.              *)

PruneEarlyMutant(queue, t) ==
  LET young == {i \in DOMAIN queue : t - queue[i] < Window - 1}
      first == CHOOSE i \in young : \A j \in young : i <= j
  IN  IF young = {} THEN <<>> ELSE SubSeq(queue, first, Len(queue))

\* The while loop of check: pop the front while it is at least Window old.
Prune(queue, t) ==
  LET young == {i \in DOMAIN queue : t - queue[i] < Window}
      first == CHOOSE i \in young : \A j \in young : i <= j
  IN  IF young = {} THEN <<>> ELSE SubSeq(queue, first, Len(queue))

Admits(queue, t, limit) == Len(Prune(queue, t)) < limit

CheckedRecordingRejectsMutant(queue, t, limit) == Append(Prune(queue, t), t)

CheckedStampsWindowEndMutant(queue, t, limit) ==
  IF Admits(queue, t, limit) THEN Append(Prune(queue, t), t + Window)
                             ELSE Prune(queue, t)

\* The queue check leaves behind; a rejected access is not recorded.
Checked(queue, t, limit) ==
  IF Admits(queue, t, limit) THEN Append(Prune(queue, t), t) ELSE Prune(queue, t)
=============================================================================
