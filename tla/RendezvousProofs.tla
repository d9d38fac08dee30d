-------------------------- MODULE RendezvousProofs --------------------------
(***************************************************************************)
(* The rendezvous server, for every number of nameplates, clients and      *)
(* concurrent handlers and every lifetime and limit: the inductive         *)
(* invariant Inv, the safety properties it implies, and the refinement of  *)
(* OneShot.                                                                *)
(***************************************************************************)
EXTENDS Rendezvous, SequenceTheorems, WellFoundedInduction, FiniteSetTheorems, TLAPS

\* Every nonempty set of naturals has a least element.
LEMMA LeastNatural ==
  ASSUME NEW T \in SUBSET Nat, T # {}
  PROVE  \E x \in T : \A y \in T : x <= y
<1> DEFINE Less == {pair \in Nat \X Nat : pair[1] < pair[2]}
<1>1. IsWellFoundedOn(Less, Nat)
  BY NatLessThanWellFounded DEF OpToRel
<1>2. \A x, y \in Nat : y < x => <<y, x>> \in Less
  OBVIOUS
<1> HIDE DEF Less
<1>3. PICK x \in T : \A y \in T : ~(<<y, x>> \in Less)
  BY <1>1, WFMin
<1>4. ASSUME NEW y \in T PROVE x <= y
  <2>1. ~(y < x)
    BY <1>2, <1>3
  <2> QED BY <2>1
<1> QED BY <1>4

\* A client's queue stays a sequence of instants when check prunes it.
LEMMA CheckedType ==
  ASSUME NEW S \in SUBSET Nat, NEW q \in Seq(S), NEW t \in S, NEW limit
  PROVE  Prune(q, t) \in Seq(S) /\ Checked(q, t, limit) \in Seq(S)
<1> DEFINE young == {i \in DOMAIN q : t - q[i] < Window}
           first == CHOOSE i \in young : \A j \in young : i <= j
<1>0. Len(q) \in Nat /\ DOMAIN q = 1 .. Len(q) /\ \A i \in 1 .. Len(q) : q[i] \in S
  BY ElementOfSeq, LenProperties
<1>1. CASE young = {}
  BY <1>1 DEF Prune, Checked
<1>2. CASE young # {}
  <2>1. young \in SUBSET Nat
    BY <1>0
  <2>2. first \in young
    BY <1>2, <2>1, LeastNatural
  <2>3. Prune(q, t) = SubSeq(q, first, Len(q)) /\ first \in 1 .. Len(q)
    BY <1>0, <1>2, <2>2 DEF Prune
  <2> HIDE DEF young, first
  <2>4. Prune(q, t) \in Seq(S)
    BY <1>0, <2>3, SubSeqProperties
  <2> QED BY <2>4, AppendProperties DEF Checked
<1> QED BY <1>1, <1>2

\* What the assumptions on the constants give every proof below.
LEMMA ConstantFacts ==
  /\ NameplateMax \in Nat /\ TTL \in Nat /\ TTL > 0
  /\ MaxTime \in Nat
  /\ Free \notin Slots
  /\ Idle \in Handler
  /\ Asleep \in [awake : BOOLEAN, at : Nat]
BY MailboxAssumption, RendezvousAssumption DEF Idle, Handler, Asleep

\* Every ticket's record is a posting.
LEMMA PostingFacts ==
  ASSUME Inv
  PROVE  /\ Len(posted) \in Nat
         /\ \A i \in Tickets : posted[i] \in Posting
BY ElementOfSeq, LenProperties DEF Inv, TypeOK, Tickets

\* A handler that becomes idle, or takes on a request whose promise the clock
\* covers, keeps what the invariant says of handlers.
LEMMA HandlerUpdate ==
  ASSUME Inv, NEW s \in Slots, NEW request \in Handler, request.promised <= now + TTL,
         handler' = handler \/ handler' = [handler EXCEPT ![s] = request]
  PROVE  /\ handler' \in [Slots -> Handler]
         /\ \A r \in Slots : handler'[r].promised <= now + TTL
<1>1. handler \in [Slots -> Handler] /\ \A r \in Slots : handler[r].promised <= now + TTL
  BY DEF Inv, TypeOK, PromisesAreKept
<1>2. CASE handler' = handler
  BY <1>1, <1>2
<1>3. CASE handler' = [handler EXCEPT ![s] = request]
  BY <1>1, <1>3
<1> QED BY <1>2, <1>3

LEMMA InvInit == Init => Inv
<1> SUFFICES ASSUME Init PROVE Inv
  OBVIOUS
<1>1. Len(posted) = 0 /\ posted \in Seq(Posting)
  BY EmptySeq DEF Init
<1>2. Tickets = {}
  BY <1>1 DEF Tickets
<1>3. DOMAIN pairs = {}
  BY DEF Init, EmptyMailbox
<1>4. TypeOK
  <2>1. pairs \in [DOMAIN pairs -> Entry]
    BY <1>3 DEF Init, EmptyMailbox
  <2>2. <<>> \in Seq(Nat)
    BY EmptySeq
  <2> QED BY <1>1, <1>3, <2>1, <2>2, ConstantFacts DEF Init, TypeOK
<1>5. PromisesAreKept
  BY <1>2, ConstantFacts DEF PromisesAreKept, Init, Idle
<1> QED
  BY <1>2, <1>3, <1>4, <1>5 DEF Inv, EntriesAreTheirPostings, LivePostingsAreStored,
     SweepIsLate, AtMostOneHandout, NoPlateShared, Init, Asleep

-----------------------------------------------------------------------------
(* The steps that touch neither the mailbox nor the ledger.                *)

\* The invariant survives a step that leaves pairs and posted alone, moves the
\* clock forward and takes no promise that the clock does not cover.
LEMMA MailboxUntouched ==
  ASSUME Inv, TypeOK', UNCHANGED <<pairs, posted>>, now' >= now,
         \A s \in Slots : handler'[s].promised <= now' + TTL,
         sweep'.at <= now'
  PROVE  Inv'
<1>1. now \in Nat /\ now' \in Nat
  BY ConstantFacts DEF Inv, TypeOK
<1>2. EntriesAreTheirPostings' /\ AtMostOneHandout' /\ NoPlateShared'
  BY DEF Inv, EntriesAreTheirPostings, AtMostOneHandout, NoPlateShared, Tickets
<1>3. LivePostingsAreStored'
  <2> SUFFICES ASSUME NEW i \in Tickets, now' < posted[i].expires_at
               PROVE  posted[i].plate \in DOMAIN pairs /\ pairs[posted[i].plate].ticket = i
    BY DEF LivePostingsAreStored, Tickets
  <2>1. posted[i].expires_at \in Nat
    BY PostingFacts DEF Posting
  <2> QED BY <1>1, <2>1 DEF Inv, LivePostingsAreStored
<1>4. PromisesAreKept'
  BY DEF Inv, PromisesAreKept, Tickets
<1> QED BY <1>2, <1>3, <1>4 DEF Inv, SweepIsLate

LEMMA ReceiveAllocateInv ==
  ASSUME Inv, NEW s \in Slots, NEW ip \in Clients, NEW valid_ticket \in BOOLEAN,
         ReceiveAllocate(s, ip, valid_ticket)
  PROVE  Inv'
<1>1. now \in Nat
  BY ConstantFacts DEF Inv, TypeOK
<1>2. handler' \in [Slots -> Handler] /\ \A r \in Slots : handler'[r].promised <= now + TTL
  <2> DEFINE request == [op |-> "allocate", plate |-> 0, promised |-> Promised(now)]
  <2>1. request \in Handler /\ request.promised <= now + TTL
    BY <1>1, ConstantFacts DEF Promised, Handler
  <2>2. handler' = handler \/ handler' = [handler EXCEPT ![s] = request]
    BY DEF ReceiveAllocate
  <2> QED BY <2>1, <2>2, HandlerUpdate
<1>3. create_limiter' \in [Clients -> Seq(Nat)]
  BY <1>1, CheckedType DEF Inv, TypeOK, ReceiveAllocate
<1>4. TypeOK'
  BY SMTT(40), <1>2, <1>3 DEF Inv, TypeOK, ReceiveAllocate
<1> QED
  BY <1>1, <1>2, <1>4, MailboxUntouched DEF Inv, SweepIsLate, ReceiveAllocate

LEMMA ReceiveLookupInv ==
  ASSUME Inv, NEW s \in Slots, NEW ip \in Clients, NEW op \in {"claim", "status"},
         NEW raw \in RawSegment, ReceiveLookup(s, ip, op, raw)
  PROVE  Inv'
<1>1. now \in Nat
  BY ConstantFacts DEF Inv, TypeOK
<1>2. handler' \in [Slots -> Handler] /\ \A r \in Slots : handler'[r].promised <= now + TTL
  <2> DEFINE request == [op |-> op, plate |-> raw, promised |-> 0]
  <2>1. CASE ~Parses(raw)
    BY <1>1, <2>1, HandlerUpdate, ConstantFacts DEF ReceiveLookup, Inv, TypeOK, PromisesAreKept
  <2>2. CASE Parses(raw)
    <3>1. request \in Handler /\ request.promised <= now + TTL
      BY <1>1, <2>2, ConstantFacts DEF Parses, Nameplates, Handler
    <3>2. handler' = handler \/ handler' = [handler EXCEPT ![s] = request]
      BY DEF ReceiveLookup
    <3> QED BY <3>1, <3>2, HandlerUpdate
  <2> QED BY <2>1, <2>2
<1>3. access_limiter' \in [Clients -> Seq(Nat)]
  BY <1>1, CheckedType DEF Inv, TypeOK, ReceiveLookup
<1>4. TypeOK'
  BY SMTT(40), <1>2, <1>3 DEF Inv, TypeOK, ReceiveLookup
<1> QED
  BY <1>1, <1>2, <1>4, MailboxUntouched DEF Inv, SweepIsLate, ReceiveLookup

-----------------------------------------------------------------------------
(* The steps under the mutex.                                              *)

LEMMA AllocateInv ==
  ASSUME Inv, NEW s \in Slots, Allocate(s)
  PROVE  Inv'
<1> DEFINE i == Len(posted) + 1
<1>1. PICK p \in Unused(pairs) :
        /\ pairs' = Insert(pairs, p, i, now)
        /\ posted' = Append(posted,
             [plate |-> p, since |-> now, promised |-> handler[s].promised,
              expires_at |-> now + TTL, handed |-> 0])
  BY DEF Allocate
<1> DEFINE new == [plate |-> p, since |-> now, promised |-> handler[s].promised,
                   expires_at |-> now + TTL, handed |-> 0]
<1>2. /\ now \in Nat
      /\ p \in Nameplates /\ p \notin DOMAIN pairs
      /\ handler \in [Slots -> Handler] /\ handler[s].promised \in Nat
      /\ handler[s].promised <= now + TTL
      /\ posted \in Seq(Posting) /\ Len(posted) \in Nat
      /\ \A j \in Tickets : posted[j] \in Posting
  <2>1. /\ now \in Nat /\ posted \in Seq(Posting) /\ handler \in [Slots -> Handler]
    BY ConstantFacts DEF Inv, TypeOK
  <2>2. /\ Len(posted) \in Nat
        /\ \A j \in Tickets : posted[j] \in Posting
    BY <2>1, PostingFacts
  <2>3. handler[s].promised \in Nat
    BY <2>1 DEF Handler
  <2>4. p \in Nameplates /\ p \notin DOMAIN pairs
    BY DEF Unused
  <2>5. handler[s].promised <= now + TTL
    BY DEF Inv, PromisesAreKept
  <2> QED BY <2>1, <2>2, <2>3, <2>4, <2>5
<1>3. new \in Posting
  BY <1>2, ConstantFacts DEF Posting
<1>4. /\ posted' \in Seq(Posting) /\ Len(posted') = i
      /\ Tickets' = Tickets \cup {i} /\ i \notin Tickets
      /\ posted'[i] = new
      /\ \A j \in Tickets : posted'[j] = posted[j]
  BY <1>1, <1>2, <1>3, AppendProperties DEF Tickets
<1>5. /\ DOMAIN pairs' = DOMAIN pairs \cup {p}
      /\ pairs'[p] = [ticket |-> i, expires_at |-> now + TTL, claimed |-> FALSE]
      /\ \A q \in DOMAIN pairs : pairs'[q] = pairs[q]
      /\ pairs' \in [DOMAIN pairs' -> Entry]
  BY <1>1, <1>2, ConstantFacts DEF Insert, Inv, TypeOK, Entry
<1> HIDE DEF i
<1>6. TypeOK'
  BY <1>2, <1>4, <1>5, ConstantFacts DEF Inv, TypeOK, Allocate, counters, limiters, Handler
<1>7. EntriesAreTheirPostings'
  <2> SUFFICES ASSUME NEW q \in DOMAIN pairs'
               PROVE  /\ pairs'[q].ticket \in Tickets'
                      /\ posted'[pairs'[q].ticket].plate = q
                      /\ posted'[pairs'[q].ticket].expires_at = pairs'[q].expires_at
                      /\ pairs'[q].claimed <=> posted'[pairs'[q].ticket].handed > 0
    BY DEF EntriesAreTheirPostings
  <2>1. CASE q = p
    BY <1>2, <1>4, <1>5, <2>1
  <2>2. CASE q \in DOMAIN pairs
    BY <1>4, <1>5, <2>2 DEF Inv, EntriesAreTheirPostings
  <2> QED BY <1>5, <2>1, <2>2
<1>8. LivePostingsAreStored'
  <2> SUFFICES ASSUME NEW j \in Tickets', now' < posted'[j].expires_at
               PROVE  /\ posted'[j].plate \in DOMAIN pairs'
                      /\ pairs'[posted'[j].plate].ticket = j
    BY DEF LivePostingsAreStored
  <2>1. CASE j = i
    BY <1>4, <1>5, <2>1
  <2>2. CASE j \in Tickets
    <3>1. posted'[j] = posted[j] /\ now < posted[j].expires_at
      BY <1>4, <2>2 DEF Allocate
    <3>2. posted[j].plate \in DOMAIN pairs /\ pairs[posted[j].plate].ticket = j
      BY <2>2, <3>1 DEF Inv, LivePostingsAreStored
    <3> QED BY <1>5, <3>1, <3>2
  <2> QED BY <1>4, <2>1, <2>2
<1>9. PromisesAreKept'
  <2>1. \A j \in Tickets' : posted'[j].promised <= posted'[j].expires_at
    BY <1>2, <1>4 DEF Inv, PromisesAreKept
  <2>2. \A r \in Slots : handler'[r].promised <= now' + TTL
    BY <1>2, ConstantFacts DEF Inv, PromisesAreKept, Allocate, Idle
  <2> QED BY <2>1, <2>2 DEF PromisesAreKept
<1>10. AtMostOneHandout'
  BY <1>4 DEF Inv, AtMostOneHandout
<1>11. NoPlateShared'
  <2> SUFFICES ASSUME NEW j \in Tickets', NEW k \in Tickets', j < k,
                      posted'[j].plate = posted'[k].plate
               PROVE  posted'[j].expires_at <= posted'[k].since
    BY DEF NoPlateShared
  <2>1. j \in Tickets
    BY <1>2, <1>4 DEF i, Tickets
  <2>2. CASE k \in Tickets
    BY <1>4, <2>1, <2>2 DEF Inv, NoPlateShared
  <2>3. CASE k = i
    <3>1. posted[j].plate = p /\ posted'[k].since = now
      BY <1>4, <2>1, <2>3
    <3>2. ~(now < posted[j].expires_at)
      BY <1>2, <2>1, <3>1 DEF Inv, LivePostingsAreStored
    <3>3. posted[j].expires_at \in Nat
      BY <1>2, <2>1 DEF Posting
    <3> QED BY <1>2, <1>4, <2>1, <3>1, <3>2, <3>3
  <2> QED BY <1>4, <2>2, <2>3
<1>12. SweepIsLate'
  BY DEF Inv, SweepIsLate, Allocate
<1> QED
  BY <1>6, <1>7, <1>8, <1>9, <1>10, <1>11, <1>12 DEF Inv

\* An allocation that spins only changes its own handler and the lock.
LEMMA AllocateSpinsInv ==
  ASSUME Inv, NEW s \in Slots, AllocateSpins(s)
  PROVE  Inv'
<1>1. now \in Nat /\ handler \in [Slots -> Handler]
  BY ConstantFacts DEF Inv, TypeOK
<1>2. [handler[s] EXCEPT !.op = "spinning"] \in Handler
  BY <1>1 DEF Handler
<1>3. [handler[s] EXCEPT !.op = "spinning"].promised <= now + TTL
  BY <1>1 DEF Inv, PromisesAreKept, Handler
<1>4. /\ handler' \in [Slots -> Handler]
      /\ \A r \in Slots : handler'[r].promised <= now + TTL
  BY <1>2, <1>3, HandlerUpdate DEF AllocateSpins
<1>5. TypeOK'
  BY <1>4 DEF Inv, TypeOK, AllocateSpins, counters, limiters
<1> QED
  BY <1>1, <1>4, <1>5, MailboxUntouched DEF Inv, SweepIsLate, AllocateSpins

LEMMA ClaimInv ==
  ASSUME Inv, NEW s \in Slots, Claim(s)
  PROVE  Inv'
<1> DEFINE p == handler[s].plate
           i == pairs[p].ticket
<1>1. /\ now \in Nat
      /\ handler' \in [Slots -> Handler]
      /\ \A r \in Slots : handler'[r].promised <= now + TTL
  <2>1. now \in Nat /\ handler \in [Slots -> Handler]
    BY ConstantFacts DEF Inv, TypeOK
  <2>2. Idle \in Handler /\ Idle.promised <= now + TTL
    BY <2>1, ConstantFacts DEF Idle
  <2>3. /\ [handler[s] EXCEPT !.op = "counting"] \in Handler
        /\ [handler[s] EXCEPT !.op = "counting"].promised <= now + TTL
    BY <2>1 DEF Handler, Inv, PromisesAreKept
  <2>4. \/ handler' = [handler EXCEPT ![s] = [handler[s] EXCEPT !.op = "counting"]]
        \/ handler' = [handler EXCEPT ![s] = Idle]
    BY DEF Claim
  <2> QED BY <2>1, <2>2, <2>3, <2>4, HandlerUpdate
<1>2. lock' \in Slots \cup {Free}
  BY DEF Inv, TypeOK, Claim
<1>3. CASE UNCHANGED <<pairs, posted>>
  <2>1. TypeOK'
    BY <1>1, <1>2, <1>3 DEF Inv, TypeOK, Claim, counters, limiters
  <2> QED BY <1>1, <1>3, <2>1, MailboxUntouched DEF Inv, SweepIsLate, Claim
<1>4. CASE ClaimAnswer(pairs, p, now) = "ticket"
  <2>1. /\ p \in DOMAIN pairs /\ ~pairs[p].claimed /\ pairs[p].ticket = i
        /\ pairs' = MarkClaimed(pairs, p)
        /\ posted' = [posted EXCEPT ![i].handed = @ + 1]
    BY <1>4 DEF Claim, ClaimAnswer
  <2>2. /\ i \in Tickets /\ posted[i] \in Posting
        /\ posted[i].plate = p /\ posted[i].handed = 0
    BY SMTT(40), <2>1, PostingFacts DEF Inv, EntriesAreTheirPostings, Posting
  <2> HIDE DEF p, i
  <2>3. /\ posted' \in Seq(Posting) /\ Tickets' = Tickets
        /\ posted'[i] = [posted[i] EXCEPT !.handed = 1]
        /\ \A j \in Tickets : j # i => posted'[j] = posted[j]
    <3> DEFINE new == [posted[i] EXCEPT !.handed = 1]
    <3>1. new \in Posting
      BY <2>2 DEF Posting
    <3>2. posted' = [posted EXCEPT ![i] = new]
      BY <2>1, <2>2
    <3>3. posted \in Seq(Posting) /\ i \in 1 .. Len(posted)
      BY <2>2 DEF Inv, TypeOK, Tickets
    <3> HIDE DEF new
    <3>4. /\ posted' \in Seq(Posting) /\ Len(posted') = Len(posted)
          /\ \A j \in 1 .. Len(posted) : posted'[j] = IF j = i THEN new ELSE posted[j]
      BY <3>1, <3>2, <3>3, ExceptSeq
    <3>5. posted'[i] = new
      BY <3>3, <3>4
    <3> QED BY <3>4, <3>5 DEF Tickets, new
  <2>4. \A j \in Tickets :
          /\ posted'[j].plate = posted[j].plate
          /\ posted'[j].since = posted[j].since
          /\ posted'[j].promised = posted[j].promised
          /\ posted'[j].expires_at = posted[j].expires_at
    BY <2>2, <2>3 DEF Posting
  <2>5. /\ DOMAIN pairs' = DOMAIN pairs
        /\ pairs' \in [DOMAIN pairs' -> Entry]
        /\ pairs'[p].claimed
        /\ \A q \in DOMAIN pairs :
             /\ pairs'[q].ticket = pairs[q].ticket
             /\ pairs'[q].expires_at = pairs[q].expires_at
             /\ q # p => pairs'[q] = pairs[q]
    BY <2>1 DEF MarkClaimed, Inv, TypeOK, Entry
  <2>6. TypeOK'
    BY <1>1, <1>2, <2>3, <2>5 DEF Inv, TypeOK, Claim, counters, limiters
  <2>7. EntriesAreTheirPostings'
    <3> SUFFICES ASSUME NEW q \in DOMAIN pairs'
                 PROVE  /\ pairs'[q].ticket \in Tickets'
                        /\ posted'[pairs'[q].ticket].plate = q
                        /\ posted'[pairs'[q].ticket].expires_at = pairs'[q].expires_at
                        /\ pairs'[q].claimed <=> posted'[pairs'[q].ticket].handed > 0
      BY DEF EntriesAreTheirPostings
    <3>1. CASE q = p
      <4>1. pairs'[q].ticket = i /\ pairs'[q].expires_at = posted[i].expires_at
        BY <2>1, <2>5, <3>1 DEF Inv, EntriesAreTheirPostings
      <4>2. posted'[i].handed = 1
        BY <2>2, <2>3 DEF Posting
      <4>3. posted'[i].plate = q /\ posted'[i].expires_at = posted[i].expires_at
        BY <2>2, <2>4, <3>1
      <4>4. pairs'[q].claimed /\ posted'[i].handed > 0
        BY <2>5, <3>1, <4>2
      <4> QED BY <2>2, <2>3, <4>1, <4>3, <4>4
    <3>2. CASE q # p
      <4>1. pairs[q].ticket # i
        BY <2>2, <2>5, <3>2 DEF Inv, EntriesAreTheirPostings
      <4>2. pairs'[q] = pairs[q] /\ q \in DOMAIN pairs
        BY <2>5, <3>2
      <4> QED BY <2>3, <4>1, <4>2 DEF Inv, EntriesAreTheirPostings
    <3> QED BY <3>1, <3>2
  <2>8. LivePostingsAreStored'
    <3> SUFFICES ASSUME NEW j \in Tickets, now < posted[j].expires_at
                 PROVE  /\ posted[j].plate \in DOMAIN pairs'
                        /\ pairs'[posted[j].plate].ticket = j
      BY <2>3, <2>4 DEF LivePostingsAreStored, Claim
    <3> QED BY <2>5 DEF Inv, LivePostingsAreStored
  <2>9. PromisesAreKept'
    BY <1>1, <2>3, <2>4 DEF Inv, PromisesAreKept, Claim
  <2>10. AtMostOneHandout'
    <3>1. posted'[i].handed = 1
      BY <2>2, <2>3 DEF Posting
    <3>2. \A j \in Tickets : j # i => posted'[j].handed <= 1
      BY <2>3 DEF Inv, AtMostOneHandout
    <3>3. \A j \in Tickets : posted'[j].handed <= 1
      <4> TAKE j \in Tickets
      <4>1. CASE j = i
        BY <3>1, <4>1
      <4>2. CASE j # i
        BY <3>2, <4>2
      <4> QED BY <4>1, <4>2
    <3> QED BY <2>3, <3>3 DEF AtMostOneHandout
  <2>11. NoPlateShared'
    BY <2>3, <2>4 DEF Inv, NoPlateShared
  <2>12. SweepIsLate'
    BY DEF Inv, SweepIsLate, Claim
  <2> QED BY <2>6, <2>7, <2>8, <2>9, <2>10, <2>11, <2>12 DEF Inv
<1> QED BY <1>3, <1>4 DEF Claim

LEMMA SweepPurgesInv ==
  ASSUME Inv, SweepPurges
  PROVE  Inv'
<1>1. /\ now \in Nat /\ sweep.at \in Nat /\ sweep.at <= now
      /\ \A p \in DOMAIN pairs : pairs[p] \in Entry
  BY ConstantFacts DEF Inv, TypeOK, SweepIsLate
<1>2. /\ DOMAIN pairs' = {q \in DOMAIN pairs : pairs[q].expires_at > sweep.at}
      /\ \A q \in DOMAIN pairs' : pairs'[q] = pairs[q]
      /\ pairs' \in [DOMAIN pairs' -> Entry]
  BY DEF SweepPurges, PurgeExpired, Inv, TypeOK
<1>3. TypeOK'
  BY <1>2, ConstantFacts DEF Inv, TypeOK, SweepPurges, counters, limiters
<1>4. EntriesAreTheirPostings'
  BY <1>2 DEF Inv, EntriesAreTheirPostings, Tickets, SweepPurges
<1>5. LivePostingsAreStored'
  <2> SUFFICES ASSUME NEW j \in Tickets, now < posted[j].expires_at
               PROVE  /\ posted[j].plate \in DOMAIN pairs'
                      /\ pairs'[posted[j].plate].ticket = j
    BY DEF LivePostingsAreStored, Tickets, SweepPurges
  <2>1. /\ posted[j].plate \in DOMAIN pairs
        /\ pairs[posted[j].plate].ticket = j
    BY DEF Inv, LivePostingsAreStored
  <2>2. pairs[posted[j].plate].expires_at = posted[j].expires_at
    BY <2>1 DEF Inv, EntriesAreTheirPostings
  <2>3. posted[j].expires_at > sweep.at
    BY <1>1, PostingFacts DEF Posting
  <2> QED BY <1>2, <2>1, <2>2, <2>3
<1>6. PromisesAreKept' /\ AtMostOneHandout' /\ NoPlateShared'
  BY DEF Inv, PromisesAreKept, AtMostOneHandout, NoPlateShared, Tickets, SweepPurges
<1>7. SweepIsLate'
  BY <1>1 DEF SweepIsLate, SweepPurges, Asleep
<1> QED BY <1>3, <1>4, <1>5, <1>6, <1>7 DEF Inv

\* The steps that only move a counter, a handler, the cleanup task or the clock.
LEMMA OtherStepsInv ==
  ASSUME Inv,
         \/ \E s \in Slots : Status(s) \/ CountsClaim(s)
         \/ Probe \/ SweepWakes \/ Tick \/ UNCHANGED vars
  PROVE  Inv'
<1>1. /\ now \in Nat /\ now' \in Nat /\ now' >= now
      /\ UNCHANGED <<pairs, posted>>
  BY ConstantFacts DEF Inv, TypeOK, Status, CountsClaim, Probe, SweepWakes, Tick, vars
<1>2. /\ handler' \in [Slots -> Handler]
      /\ \A r \in Slots : handler'[r].promised <= now + TTL
  <2>1. Idle \in Handler /\ Idle.promised <= now + TTL
    BY <1>1, ConstantFacts DEF Idle
  <2>2. handler' = handler \/ \E s \in Slots : handler' = [handler EXCEPT ![s] = Idle]
    BY DEF Status, CountsClaim, Probe, SweepWakes, Tick, vars
  <2>3. CASE handler' = handler
    BY <2>3 DEF Inv, TypeOK, PromisesAreKept
  <2>4. CASE \E s \in Slots : handler' = [handler EXCEPT ![s] = Idle]
    BY <2>1, <2>4, HandlerUpdate
  <2> QED BY <2>2, <2>3, <2>4
<1>3. sweep' \in [awake : BOOLEAN, at : Nat] /\ sweep'.at <= now'
  <2>1. sweep \in [awake : BOOLEAN, at : Nat] /\ sweep.at <= now
    BY DEF Inv, TypeOK, SweepIsLate
  <2>2. CASE sweep' = sweep
    BY <1>1, <2>1, <2>2
  <2>3. CASE sweep' = [awake |-> TRUE, at |-> now] /\ now' = now
    BY <1>1, <2>3
  <2> QED BY <2>2, <2>3 DEF Status, CountsClaim, Probe, SweepWakes, Tick, vars
<1>4. TypeOK'
  BY SMTT(40), <1>2, <1>3, ConstantFacts
     DEF Inv, TypeOK, Status, CountsClaim, Probe, SweepWakes, Tick, vars, counters, limiters
<1>5. \A r \in Slots : handler'[r].promised <= now' + TTL
  BY <1>1, <1>2, ConstantFacts DEF Handler
<1> QED BY <1>1, <1>3, <1>4, <1>5, MailboxUntouched

LEMMA InvNext == Inv /\ [Next]_vars => Inv'
<1> SUFFICES ASSUME Inv, [Next]_vars PROVE Inv'
  OBVIOUS
<1>1. ASSUME NEW s \in Slots, NEW ip \in Clients, NEW valid_ticket \in BOOLEAN,
             ReceiveAllocate(s, ip, valid_ticket)
      PROVE  Inv'
  BY <1>1, ReceiveAllocateInv
<1>2. ASSUME NEW s \in Slots, NEW ip \in Clients, NEW op \in {"claim", "status"},
             NEW raw \in RawSegment, ReceiveLookup(s, ip, op, raw)
      PROVE  Inv'
  BY <1>2, ReceiveLookupInv
<1>3. ASSUME NEW s \in Slots, Serve(s)
      PROVE  Inv'
  BY <1>3, AllocateInv, AllocateSpinsInv, ClaimInv, OtherStepsInv DEF Serve
<1>4. CASE SweepPurges
  BY <1>4, SweepPurgesInv
<1>5. CASE Probe \/ SweepWakes \/ Tick \/ UNCHANGED vars
  BY <1>5, OtherStepsInv
<1> QED BY <1>1, <1>2, <1>3, <1>4, <1>5 DEF Next

\* The inductive invariant holds of every behaviour of the server.
THEOREM Invariance == Spec => []Inv
<1> QED BY InvInit, InvNext, PTL DEF Spec

-----------------------------------------------------------------------------
(* What the invariant gives.                                               *)

\* The state of the server has its type.
THEOREM TypeCorrect == Spec => []TypeOK
<1> QED BY Invariance, PTL DEF Inv

\* No ticket is handed out twice, however the claims of concurrent handlers, the
\* cleanup task and the clock interleave.
THEOREM OneHandout == Spec => []AtMostOneHandout
<1> QED BY Invariance, PTL DEF Inv

\* A nameplate is given to a second ticket only after the first one's lifetime.
THEOREM PlatesNotShared == Spec => []NoPlateShared
<1> QED BY Invariance, PTL DEF Inv

\* Until the expiry the sender was told, its ticket is stored under its nameplate.
THEOREM PromiseKept == Spec => []KeptUntilPromised
<1>1. Inv => KeptUntilPromised
  <2> SUFFICES ASSUME Inv, NEW i \in Tickets, now < posted[i].promised
               PROVE  /\ posted[i].plate \in DOMAIN pairs
                      /\ pairs[posted[i].plate].ticket = i
    BY DEF KeptUntilPromised
  <2>1. now \in Nat /\ posted[i].promised \in Nat /\ posted[i].expires_at \in Nat
    BY SMTT(40), PostingFacts, ConstantFacts DEF Inv, TypeOK, Posting
  <2>2. now < posted[i].expires_at
    BY <2>1 DEF Inv, PromisesAreKept
  <2> QED BY <2>2 DEF Inv, LivePostingsAreStored
<1> QED BY <1>1, Invariance, PTL

\* Only a claim hands out a ticket, and it looks at the deadline first.
LEMMA ClaimLooksAtDeadline ==
  ASSUME Inv, [Next]_vars, NEW i \in Tickets, posted'[i].handed # posted[i].handed
  PROVE  now < posted[i].expires_at
<1>1. /\ posted \in Seq(Posting) /\ now \in Nat
      /\ posted[i] \in Posting
  BY PostingFacts, ConstantFacts DEF Inv, TypeOK
<1>2. ASSUME NEW s \in Slots, Allocate(s) PROVE FALSE
  <2>1. PICK e : posted' = Append(posted, e)
    BY <1>2 DEF Allocate
  <2>2. posted'[i] = posted[i]
    BY <1>1, <2>1 DEF Tickets
  <2> QED BY <2>2
<1>3. PICK s \in Slots : Claim(s) /\ posted' # posted
  BY <1>2 DEF Next, Serve, ReceiveAllocate, ReceiveLookup, Probe, AllocateSpins, CountsClaim,
     Status, SweepWakes, SweepPurges, Tick, vars
<1> DEFINE p == handler[s].plate
<1>4. /\ p \in DOMAIN pairs /\ ~Expired(pairs[p], now)
      /\ posted' = [posted EXCEPT ![pairs[p].ticket].handed = @ + 1]
  BY <1>3 DEF Claim, ClaimAnswer
<1> HIDE DEF p
<1>5. pairs[p].ticket = i
  BY <1>1, <1>4 DEF Tickets
<1>6. posted[i].expires_at = pairs[p].expires_at
  BY <1>4, <1>5 DEF Inv, EntriesAreTheirPostings
<1>7. posted[i].expires_at \in Nat
  BY <1>1 DEF Posting
<1>8. ~(now >= posted[i].expires_at)
  BY <1>4, <1>6 DEF Expired
<1> QED BY <1>1, <1>7, <1>8

\* A handout never comes after the ticket's deadline.
THEOREM HandoutsInTime == Spec => HandoutInTime
<1>1. Inv /\ [Next]_vars =>
        [\A i \in Tickets : posted'[i].handed # posted[i].handed
                            => now < posted[i].expires_at]_posted
  BY ClaimLooksAtDeadline
<1> QED BY <1>1, Invariance, PTL DEF Spec, HandoutInTime

-----------------------------------------------------------------------------
(* The server implements the one-shot box.                                 *)

\* What has become of a stored ticket, told from the ledger and the clock alone.
BoxInLedger(t) ==
  IF posted[t].handed > 0 THEN "taken"
  ELSE IF now < posted[t].expires_at THEN "open"
  ELSE "lapsed"

BoxesAgree == \A t \in Tickets : BoxOf(t) = BoxInLedger(t)

\* Under the invariant a stored ticket is open exactly while it is neither out
\* nor past its deadline.
LEMMA BoxOfPosted == Inv => BoxesAgree
<1> SUFFICES ASSUME Inv, NEW t \in Tickets PROVE BoxOf(t) = BoxInLedger(t)
  BY DEF BoxesAgree
<1>1. now \in Nat /\ posted[t].expires_at \in Nat
  BY PostingFacts, ConstantFacts DEF Inv, TypeOK, Posting
<1>2. (\E p \in DOMAIN pairs : pairs[p].ticket = t /\ ~Expired(pairs[p], now))
        <=> now < posted[t].expires_at
  <2>1. ASSUME NEW p \in DOMAIN pairs, pairs[p].ticket = t, ~Expired(pairs[p], now)
        PROVE  now < posted[t].expires_at
    BY <1>1, <2>1 DEF Inv, EntriesAreTheirPostings, Expired
  <2>2. ASSUME now < posted[t].expires_at
        PROVE  \E p \in DOMAIN pairs : pairs[p].ticket = t /\ ~Expired(pairs[p], now)
    <3> DEFINE p == posted[t].plate
    <3>1. p \in DOMAIN pairs /\ pairs[p].ticket = t
      BY <2>2 DEF Inv, LivePostingsAreStored
    <3>2. pairs[p].expires_at = posted[t].expires_at
      BY <3>1 DEF Inv, EntriesAreTheirPostings
    <3>3. ~Expired(pairs[p], now)
      BY <1>1, <2>2, <3>2 DEF Expired
    <3> QED BY <3>1, <3>3
  <2> QED BY <2>1, <2>2
<1> QED BY <1>2 DEF BoxOf, BoxInLedger

\* The same after a step.
LEMMA BoxOfPostedNext == Inv' => BoxesAgree'
BY BoxOfPosted, PTL

\* A step that leaves the ledger and the clock alone is invisible to the box.
LEMMA StutterStep ==
  ASSUME Inv, Inv', UNCHANGED <<posted, now>>
  PROVE  UNCHANGED Abstract!vars
<1>1. Tickets' = Tickets
  BY DEF Tickets
<1>2. ASSUME NEW t \in 1 .. MaxRequests PROVE BoxOf(t)' = BoxOf(t)
  <2>1. CASE t \in Tickets
    BY <1>1, <2>1, BoxOfPosted, BoxOfPostedNext DEF BoxesAgree, BoxInLedger
  <2>2. CASE t \notin Tickets
    BY <1>1, <2>2 DEF BoxOf
  <2> QED BY <2>1, <2>2
<1> QED BY <1>1, <1>2 DEF Abstract!vars

\* An allocation deposits its ticket, with the expiry its sender will be told.
LEMMA AllocateDeposits ==
  ASSUME Inv, Inv', NEW s \in Slots, Allocate(s)
  PROVE  [Abstract!Next]_(Abstract!vars)
<1> DEFINE all == 1 .. MaxRequests
           box == [t \in all |-> BoxOf(t)]
           deadline == [t \in all |-> IF t \in Tickets THEN posted[t].promised ELSE 0]
<1>1. PICK p \in Nameplates :
        posted' = Append(posted,
             [plate |-> p, since |-> now, promised |-> handler[s].promised,
              expires_at |-> now + TTL, handed |-> 0])
  BY DEF Allocate, Unused
<1> DEFINE new == [plate |-> p, since |-> now, promised |-> handler[s].promised,
                   expires_at |-> now + TTL, handed |-> 0]
<1>0. PICK i : i = Len(posted) + 1
  OBVIOUS
<1>2. /\ now \in Nat /\ now' = now /\ handler[s].promised \in Nat
      /\ posted \in Seq(Posting) /\ Len(posted) \in Nat
  <2>1. now \in Nat /\ handler \in [Slots -> Handler] /\ posted \in Seq(Posting)
    BY ConstantFacts DEF Inv, TypeOK
  <2>2. handler[s].promised \in Nat
    BY <2>1 DEF Handler
  <2> QED BY <2>1, <2>2, PostingFacts DEF Allocate
<1>3. new \in Posting
  BY <1>2, ConstantFacts DEF Posting
<1>4. /\ Tickets' = Tickets \cup {i} /\ i \notin Tickets
      /\ posted'[i] = new
      /\ \A t \in Tickets : posted'[t] = posted[t]
  BY <1>0, <1>1, <1>2, <1>3, AppendProperties DEF Tickets
<1> HIDE DEF new
<1>5. \A t \in Tickets : BoxOf(t)' = BoxOf(t)
  BY <1>2, <1>4, BoxOfPosted, BoxOfPostedNext DEF BoxesAgree, BoxInLedger
<1>6. BoxOf(i) = "absent" /\ BoxOf(i)' = "open"
  <2>1. BoxOf(i) = "absent"
    BY <1>4 DEF BoxOf
  <2>2. posted'[i].handed = 0 /\ posted'[i].expires_at = now + TTL
    BY <1>4 DEF new
  <2>3. now' < now + TTL
    BY <1>2, ConstantFacts
  <2>4. BoxInLedger(i)' = "open"
    BY <1>2, <2>2, <2>3, ConstantFacts DEF BoxInLedger
  <2> QED BY <1>4, <2>1, <2>4, BoxOfPostedNext DEF BoxesAgree
<1>7. \A t : t \notin Tickets /\ t # i => BoxOf(t) = "absent" /\ BoxOf(t)' = "absent"
  BY <1>4 DEF BoxOf
<1>8. posted'[i].promised \in Nat
  BY <1>2, <1>4 DEF new
<1>9. CASE i \in all
  <2>1. box' = [box EXCEPT ![i] = "open"]
    <3>1. \A t \in all : BoxOf(t)' = IF t = i THEN "open" ELSE BoxOf(t)
      BY <1>5, <1>6, <1>7
    <3> QED BY <1>9, <3>1
  <2>2. deadline' = [deadline EXCEPT ![i] = deadline'[i]] /\ deadline'[i] \in Nat
    BY <1>4, <1>8, <1>9
  <2>3. Abstract!Deposit(i)
    BY <1>2, <1>6, <1>9, <2>1, <2>2 DEF Abstract!Deposit
  <2> QED BY <1>9, <2>3 DEF Abstract!Next
<1>10. CASE i \notin all
  <2>1. box' = box /\ deadline' = deadline
    BY <1>4, <1>5, <1>7, <1>10
  <2> QED BY <1>2, <2>1 DEF Abstract!vars
<1> QED BY <1>9, <1>10

\* A claim that answers a ticket hands out an open box; any other is invisible.
LEMMA ClaimHandsOut ==
  ASSUME Inv, Inv', NEW s \in Slots, Claim(s)
  PROVE  [Abstract!Next]_(Abstract!vars)
<1> DEFINE all == 1 .. MaxRequests
           box == [t \in all |-> BoxOf(t)]
           deadline == [t \in all |-> IF t \in Tickets THEN posted[t].promised ELSE 0]
<1>0. now' = now
  BY DEF Claim
<1>1. CASE posted' = posted
  BY <1>0, <1>1, StutterStep
<1>2. CASE posted' # posted
  <2>1. PICK p \in DOMAIN pairs :
          /\ ~Expired(pairs[p], now) /\ ~pairs[p].claimed
          /\ posted' = [posted EXCEPT ![pairs[p].ticket].handed = @ + 1]
    BY <1>2 DEF Claim, ClaimAnswer
  <2>2. PICK i : i = pairs[p].ticket
    OBVIOUS
  <2>3. /\ i \in Tickets
        /\ posted[i].expires_at = pairs[p].expires_at
        /\ ~(posted[i].handed > 0)
    BY <2>1, <2>2 DEF Inv, EntriesAreTheirPostings
  <2>4. posted \in Seq(Posting) /\ posted[i] \in Posting /\ now \in Nat
    BY SMTT(40), <2>3, PostingFacts, ConstantFacts DEF Inv, TypeOK
  <2>5. posted[i].handed = 0 /\ posted[i].expires_at \in Nat
    BY <2>3, <2>4 DEF Posting
  <2>6. /\ Tickets' = Tickets
        /\ posted'[i].handed = 1
        /\ \A t \in Tickets : posted'[t].promised = posted[t].promised
        /\ \A t \in Tickets \ {i} : posted'[t] = posted[t]
    BY SMTT(40), <2>1, <2>2, <2>3, <2>4, <2>5 DEF Tickets, Posting
  <2>7. BoxOf(i) = "open" /\ BoxOf(i)' = "taken"
    <3>1. now < posted[i].expires_at
      BY <2>1, <2>3, <2>4, <2>5 DEF Expired
    <3>2. BoxInLedger(i) = "open"
      BY <2>3, <3>1 DEF BoxInLedger
    <3>3. BoxInLedger(i)' = "taken"
      BY <2>6 DEF BoxInLedger
    <3> QED BY <2>3, <2>6, <3>2, <3>3, BoxOfPosted, BoxOfPostedNext DEF BoxesAgree
  <2>8. \A t : t # i => BoxOf(t)' = BoxOf(t)
    <3>1. ASSUME NEW t \in Tickets, t # i PROVE BoxOf(t)' = BoxOf(t)
      BY <1>0, <2>6, <3>1, BoxOfPosted, BoxOfPostedNext DEF BoxesAgree, BoxInLedger
    <3>2. ASSUME NEW t, t \notin Tickets PROVE BoxOf(t)' = BoxOf(t)
      BY <2>6, <3>2 DEF BoxOf
    <3> QED BY <3>1, <3>2
  <2>9. deadline' = deadline
    BY <2>6
  <2>10. CASE i \in all
    <3>1. box' = [box EXCEPT ![i] = "taken"]
      BY <2>7, <2>8, <2>10
    <3>2. Abstract!HandOut(i)
      BY <1>0, <2>7, <2>9, <2>10, <3>1 DEF Abstract!HandOut
    <3> QED BY <2>10, <3>2 DEF Abstract!Next
  <2>11. CASE i \notin all
    <3>1. box' = box
      BY <2>8, <2>11
    <3> QED BY <1>0, <2>9, <3>1 DEF Abstract!vars
  <2> QED BY <2>10, <2>11
<1> QED BY <1>1, <1>2

\* A tick lets boxes lapse, none before the expiry its sender was told.
LEMMA TickAdvances ==
  ASSUME Inv, Inv', Tick
  PROVE  Abstract!Next
<1> DEFINE all == 1 .. MaxRequests
           box == [t \in all |-> BoxOf(t)]
           deadline == [t \in all |-> IF t \in Tickets THEN posted[t].promised ELSE 0]
<1>1. now' = now + 1 /\ posted' = posted /\ Tickets' = Tickets
  BY DEF Tick, Tickets
<1>2. now \in Nat
  BY ConstantFacts DEF Inv, TypeOK
<1>3. deadline' = deadline
  BY <1>1
<1>4. ASSUME NEW t \in all
      PROVE  \/ BoxOf(t)' = BoxOf(t)
             \/ /\ BoxOf(t) = "open" /\ BoxOf(t)' = "lapsed"
                /\ deadline[t] <= now'
  <2>1. CASE t \notin Tickets
    BY <1>1, <2>1 DEF BoxOf
  <2>2. CASE t \in Tickets
    <3>1. BoxOf(t) = BoxInLedger(t) /\ BoxOf(t)' = BoxInLedger(t)'
      BY <1>1, <2>2, BoxOfPosted, BoxOfPostedNext DEF BoxesAgree
    <3>2. posted[t].promised \in Nat /\ posted[t].expires_at \in Nat
          /\ posted[t].promised <= posted[t].expires_at
      BY <2>2, PostingFacts DEF Inv, TypeOK, Posting, PromisesAreKept
    <3> QED BY <1>1, <1>2, <2>2, <3>1, <3>2 DEF BoxInLedger
  <2> QED BY <2>1, <2>2
<1>5. \A t \in all : box'[t] = box[t] \/ Abstract!Lapses(t)
  BY <1>4 DEF Abstract!Lapses
<1>6. Abstract!Advance
  BY <1>1, <1>3, <1>5 DEF Abstract!Advance
<1> QED BY <1>6 DEF Abstract!Next

\* Every step of the server is a step of the box or none.
LEMMA NextMaps == Inv /\ Inv' /\ [Next]_vars => [Abstract!Next]_(Abstract!vars)
<1> SUFFICES ASSUME Inv, Inv', [Next]_vars PROVE [Abstract!Next]_(Abstract!vars)
  OBVIOUS
<1>1. CASE \E s \in Slots : Allocate(s)
  BY <1>1, AllocateDeposits
<1>2. CASE \E s \in Slots : Claim(s)
  BY <1>2, ClaimHandsOut
<1>3. CASE Tick
  BY <1>3, TickAdvances
<1>4. CASE UNCHANGED <<posted, now>>
  BY <1>4, StutterStep
<1> QED BY <1>1, <1>2, <1>3, <1>4
        DEF Next, Serve, ReceiveAllocate, ReceiveLookup, Probe, AllocateSpins, CountsClaim,
            Status, SweepWakes, SweepPurges, vars

\* At first no ticket is anywhere.
LEMMA InitMaps == Init => Abstract!Init
<1> SUFFICES ASSUME Init PROVE Abstract!Init
  OBVIOUS
<1>1. Tickets = {} /\ now = 0
  BY DEF Init, Tickets
<1> QED BY <1>1 DEF Abstract!Init, BoxOf

\* Nameplates, limiters, overlapping requests and the cleanup task are invisible:
\* the server is a one-shot box.
THEOREM Refinement == Spec => ImplementsOneShot
<1>1. Init => Abstract!Init
  BY InitMaps
<1>2. Inv /\ Inv' /\ [Next]_vars => [Abstract!Next]_(Abstract!vars)
  BY NextMaps
<1> QED BY <1>1, <1>2, Invariance, PTL DEF Spec, ImplementsOneShot, Abstract!Spec

-----------------------------------------------------------------------------
(* The claim counter.                                                      *)

\* The tickets that were handed out.
Out == {i \in Tickets : posted[i].handed = 1}

LEMMA OutIsFinite ==
  ASSUME Inv
  PROVE  IsFiniteSet(Out) /\ Cardinality(Out) \in Nat
<1>1. IsFiniteSet(1 .. Len(posted))
  BY PostingFacts, FS_Interval
<1> QED BY <1>1, FS_Subset, FS_CardinalityType DEF Out, Tickets

\* Whether a claim is between its flag and its count, as slot s has it.
CountingAt(s) == handler[s].op = "counting"

\* Who keeps the mutex between steps is known from what the handlers do.
LEMMA HolderInit == Init => HolderHolds
BY ConstantFacts DEF Init, Idle, HolderHolds

LEMMA HolderNext == Inv /\ HolderHolds /\ [Next]_vars => HolderHolds'
<1> SUFFICES ASSUME Inv, HolderHolds, [Next]_vars PROVE HolderHolds'
  OBVIOUS
<1>0. handler \in [Slots -> Handler] /\ Free \notin Slots
  BY ConstantFacts DEF Inv, TypeOK
<1>1. ASSUME NEW s \in Slots, NEW request, handler[s].op \notin {"counting", "spinning"},
             request.op \notin {"counting", "spinning"},
             handler' = handler \/ handler' = [handler EXCEPT ![s] = request], lock' = lock
      PROVE  HolderHolds'
  BY <1>0, <1>1 DEF HolderHolds
<1>2. ASSUME NEW s \in Slots, NEW ip \in Clients, NEW valid_ticket \in BOOLEAN,
             ReceiveAllocate(s, ip, valid_ticket)
      PROVE  HolderHolds'
  <2> DEFINE request == [op |-> "allocate", plate |-> 0, promised |-> Promised(now)]
  <2>1. handler[s].op = "idle" /\ request.op = "allocate" /\ lock' = lock
    BY <1>2 DEF ReceiveAllocate, Accepts, Idle
  <2>2. handler' = handler \/ handler' = [handler EXCEPT ![s] = request]
    BY <1>2 DEF ReceiveAllocate
  <2> QED BY <1>1, <2>1, <2>2
<1>3. ASSUME NEW s \in Slots, NEW ip \in Clients, NEW op \in {"claim", "status"},
             NEW raw \in RawSegment, ReceiveLookup(s, ip, op, raw)
      PROVE  HolderHolds'
  <2> DEFINE request == [op |-> op, plate |-> raw, promised |-> 0]
  <2>1. handler[s].op = "idle" /\ request.op \in {"claim", "status"} /\ lock' = lock
    BY <1>3 DEF ReceiveLookup, Accepts, Idle
  <2>2. handler' = handler \/ handler' = [handler EXCEPT ![s] = request]
    BY <1>3 DEF ReceiveLookup
  <2> QED BY <1>1, <2>1, <2>2
<1>4. ASSUME NEW s \in Slots, Allocate(s) \/ Status(s) PROVE HolderHolds'
  <2>1. handler[s].op \in {"allocate", "status"} /\ lock' = lock
        /\ handler' = [handler EXCEPT ![s] = Idle]
    BY <1>4 DEF Allocate, Status, Locks
  <2>2. Idle.op = "idle"
    BY DEF Idle
  <2> QED BY <1>1, <2>1, <2>2
<1>5. ASSUME NEW s \in Slots, AllocateSpins(s) PROVE HolderHolds'
  <2>1. /\ handler' = [handler EXCEPT ![s] = [handler[s] EXCEPT !.op = "spinning"]]
        /\ lock = Free /\ lock' = s
    BY <1>5 DEF AllocateSpins, Locks
  <2>2. handler'[s].op = "spinning"
    BY <1>0, <2>1 DEF Handler
  <2> QED BY <1>0, <2>1, <2>2 DEF HolderHolds
<1>6. ASSUME NEW s \in Slots, Claim(s) PROVE HolderHolds'
  <2>1. CASE handler' = [handler EXCEPT ![s] = Idle] /\ lock' = lock
    <3>1. handler[s].op = "claim"
      BY <1>6 DEF Claim, Locks
    <3>2. Idle.op = "idle"
      BY DEF Idle
    <3> QED BY <1>1, <2>1, <3>1, <3>2
  <2>2. CASE handler' = [handler EXCEPT ![s].op = "counting"] /\ lock' = s
    <3>1. lock = Free /\ handler'[s].op = "counting"
      BY <1>0, <1>6, <2>2 DEF Claim, Locks, Handler
    <3> QED BY <1>0, <2>2, <3>1 DEF HolderHolds
  <2> QED BY <1>6, <2>1, <2>2 DEF Claim
<1>7. ASSUME NEW s \in Slots, CountsClaim(s) PROVE HolderHolds'
  <2>1. handler[s].op = "counting" /\ handler' = [handler EXCEPT ![s] = Idle] /\ lock' = Free
    BY <1>7 DEF CountsClaim
  <2>2. lock = s
    BY <2>1 DEF HolderHolds
  <2> QED BY <1>0, <2>1, <2>2 DEF HolderHolds, Idle
<1>8. CASE UNCHANGED <<handler, lock>>
  BY <1>8 DEF HolderHolds
<1> QED BY <1>2, <1>3, <1>4, <1>5, <1>6, <1>7, <1>8
        DEF Next, Serve, Probe, SweepWakes, SweepPurges, Tick, vars

\* Under a free mutex nobody is counting.
LEMMA FreeNobodyCounts ==
  ASSUME HolderHolds, lock = Free
  PROVE  ~\E s \in Slots : CountingAt(s)
BY ConstantFacts DEF HolderHolds, CountingAt

\* A step that hands nothing out, counts nothing and leaves the counting alone.
LEMMA CountUntouched ==
  ASSUME ClaimTotalFollows, Out' = Out, claim_total' = claim_total,
         \A s \in Slots : CountingAt(s)' <=> CountingAt(s)
  PROVE  ClaimTotalFollows'
BY DEF ClaimTotalFollows, CountingAt, Out

LEMMA AllocateCounts ==
  ASSUME Inv, Inv', ClaimTotalFollows, NEW s \in Slots, Allocate(s)
  PROVE  ClaimTotalFollows'
<1>1. PICK new : posted' = Append(posted, new) /\ new.handed = 0
  BY DEF Allocate
<1>2. posted \in Seq(Posting) /\ posted' \in Seq(Posting)
  BY DEF Inv, TypeOK
<1>3. /\ Len(posted') = Len(posted) + 1 /\ Len(posted) \in Nat
      /\ \A i \in 1 .. Len(posted) : posted'[i] = posted[i]
      /\ posted'[Len(posted) + 1] = new
  BY <1>1, <1>2, PostingFacts
<1>4. Tickets' = Tickets \cup {Len(posted) + 1} /\ Tickets = 1 .. Len(posted)
  BY <1>3 DEF Tickets
<1>5. Out' = Out /\ claim_total' = claim_total
  BY <1>1, <1>3, <1>4 DEF Out, Allocate, counters
<1>6. \A r \in Slots : CountingAt(r)' <=> CountingAt(r)
  <2>1. handler \in [Slots -> Handler] /\ handler' = [handler EXCEPT ![s] = Idle]
        /\ handler[s].op = "allocate"
    BY DEF Inv, TypeOK, Allocate, Locks
  <2> QED BY <2>1 DEF CountingAt, Idle
<1> QED BY <1>5, <1>6, CountUntouched

LEMMA ClaimCounts ==
  ASSUME Inv, Inv', HolderHolds, ClaimTotalFollows, NEW s \in Slots, Claim(s)
  PROVE  ClaimTotalFollows'
<1> DEFINE p == handler[s].plate
<1>0. ~(\E r \in Slots : CountingAt(r)) /\ claim_total' = claim_total
  BY FreeNobodyCounts DEF Claim, Locks, counters
<1>1. handler \in [Slots -> Handler]
  BY DEF Inv, TypeOK
<1>2. CASE ClaimAnswer(pairs, p, now) # "ticket"
  <2>1. posted' = posted /\ handler' = [handler EXCEPT ![s] = Idle]
    BY <1>2 DEF Claim, Counted
  <2>2. \A r \in Slots : CountingAt(r)' <=> CountingAt(r)
    BY <1>0, <1>1, <2>1 DEF CountingAt, Idle
  <2>3. Out' = Out
    BY <2>1 DEF Out, Tickets
  <2> QED BY <1>0, <2>2, <2>3, CountUntouched
<1>3. CASE ClaimAnswer(pairs, p, now) = "ticket"
  <2>1. PICK i : i = pairs[p].ticket
    OBVIOUS
  <2>2. /\ p \in DOMAIN pairs /\ ~pairs[p].claimed
        /\ posted' = [posted EXCEPT ![i].handed = @ + 1]
        /\ handler' = [handler EXCEPT ![s].op = "counting"]
    BY <1>3, <2>1 DEF Claim, ClaimAnswer, Counted
  <2>3. i \in Tickets /\ ~(posted[i].handed > 0)
    BY <2>1, <2>2 DEF Inv, EntriesAreTheirPostings
  <2>4. posted \in Seq(Posting) /\ posted[i] \in Posting
    BY <2>3, PostingFacts DEF Inv, TypeOK
  <2>5. posted[i].handed = 0
    BY <2>3, <2>4 DEF Posting
  <2>6. /\ Tickets' = Tickets /\ posted'[i].handed = 1
        /\ \A t \in Tickets \ {i} : posted'[t] = posted[t]
    BY SMTT(40), <2>2, <2>3, <2>4, <2>5 DEF Tickets, Posting
  <2>7. Out' = Out \cup {i} /\ i \notin Out
    BY <2>3, <2>5, <2>6 DEF Out
  <2>8. Cardinality(Out') = Cardinality(Out) + 1
    BY <2>7, OutIsFinite, FS_AddElement
  <2>9. handler'[s].op = "counting"
    BY <1>1, <2>2 DEF Handler
  <2>10. claim_total = Cardinality(Out)
    BY <1>0 DEF ClaimTotalFollows, CountingAt, Out
  <2>11. Cardinality(Out) \in Nat
    BY OutIsFinite
  <2>12. claim_total' = Cardinality(Out') - 1
    BY <1>0, <2>8, <2>10, <2>11
  <2> QED BY <2>9, <2>12 DEF ClaimTotalFollows, Out
<1> QED BY <1>2, <1>3

LEMMA CountsClaimCounts ==
  ASSUME Inv, HolderHolds', ClaimTotalFollows, NEW s \in Slots, CountsClaim(s)
  PROVE  ClaimTotalFollows'
<1>1. CountingAt(s) /\ claim_total' = claim_total + 1 /\ lock' = Free /\ Out' = Out
  BY DEF CountsClaim, CountingAt, Out, Tickets
<1>2. claim_total = Cardinality(Out) - 1 /\ Cardinality(Out) \in Nat
  BY <1>1, OutIsFinite DEF ClaimTotalFollows, CountingAt, Out
<1>3. claim_total' = Cardinality(Out')
  BY <1>1, <1>2
<1>4. ~\E r \in Slots : handler'[r].op = "counting"
  BY <1>1, ConstantFacts DEF HolderHolds
<1> QED BY <1>3, <1>4 DEF ClaimTotalFollows, Out

LEMMA OthersCount ==
  ASSUME Inv, ClaimTotalFollows, [Next]_vars,
         ~\E s \in Slots : Allocate(s) \/ Claim(s) \/ CountsClaim(s)
  PROVE  ClaimTotalFollows'
<1>0. handler \in [Slots -> Handler]
  BY DEF Inv, TypeOK
<1>1. Out' = Out /\ claim_total' = claim_total
  <2>1. UNCHANGED <<posted, claim_total>>
    BY DEF Next, Serve, ReceiveAllocate, ReceiveLookup, Probe, AllocateSpins, Status,
           SweepWakes, SweepPurges, Tick, counters, vars
  <2> QED BY <2>1 DEF Out, Tickets
<1>2. ASSUME NEW s \in Slots, NEW request, ~CountingAt(s), request.op # "counting",
             handler' = handler \/ handler' = [handler EXCEPT ![s] = request]
      PROVE  \A r \in Slots : CountingAt(r)' <=> CountingAt(r)
  BY <1>0, <1>2 DEF CountingAt
<1>3. ASSUME NEW s \in Slots, NEW ip \in Clients, NEW valid_ticket \in BOOLEAN,
             ReceiveAllocate(s, ip, valid_ticket)
      PROVE  \A r \in Slots : CountingAt(r)' <=> CountingAt(r)
  <2> DEFINE request == [op |-> "allocate", plate |-> 0, promised |-> Promised(now)]
  <2>1. ~CountingAt(s) /\ request.op = "allocate"
    BY <1>3 DEF ReceiveAllocate, Accepts, Idle, CountingAt
  <2>2. handler' = handler \/ handler' = [handler EXCEPT ![s] = request]
    BY <1>3 DEF ReceiveAllocate
  <2> QED BY <1>2, <2>1, <2>2
<1>4. ASSUME NEW s \in Slots, NEW ip \in Clients, NEW op \in {"claim", "status"},
             NEW raw \in RawSegment, ReceiveLookup(s, ip, op, raw)
      PROVE  \A r \in Slots : CountingAt(r)' <=> CountingAt(r)
  <2> DEFINE request == [op |-> op, plate |-> raw, promised |-> 0]
  <2>1. ~CountingAt(s) /\ request.op \in {"claim", "status"}
    BY <1>4 DEF ReceiveLookup, Accepts, Idle, CountingAt
  <2>2. handler' = handler \/ handler' = [handler EXCEPT ![s] = request]
    BY <1>4 DEF ReceiveLookup
  <2> QED BY <1>2, <2>1, <2>2
<1>5. ASSUME NEW s \in Slots, AllocateSpins(s) \/ Status(s)
      PROVE  \A r \in Slots : CountingAt(r)' <=> CountingAt(r)
  <2>1. ~CountingAt(s)
    BY <1>5 DEF AllocateSpins, Status, Locks, CountingAt
  <2>2. CASE handler' = [handler EXCEPT ![s] = Idle]
    <3>1. Idle.op # "counting"
      BY DEF Idle
    <3> QED BY <1>2, <2>1, <2>2, <3>1
  <2>3. CASE handler' = [handler EXCEPT ![s] = [handler[s] EXCEPT !.op = "spinning"]]
    <3>1. [handler[s] EXCEPT !.op = "spinning"].op = "spinning"
      BY <1>0 DEF Handler
    <3> QED BY <1>2, <2>1, <2>3, <3>1
  <2> QED BY <1>5, <2>2, <2>3 DEF AllocateSpins, Status
<1>6. CASE handler' = handler
  BY <1>1, <1>6, CountUntouched DEF CountingAt
<1>7. \/ \A r \in Slots : CountingAt(r)' <=> CountingAt(r)
      \/ handler' = handler
  BY <1>3, <1>4, <1>5 DEF Next, Serve, Probe, SweepWakes, SweepPurges, Tick, vars
<1> QED BY <1>1, <1>6, <1>7, CountUntouched

\* The claim counter that /metrics reads without the mutex (lib.rs:98-114) is the
\* number of tickets handed out, or one less while the claim that has just flagged
\* its entry, and keeps the mutex, has not counted itself yet.
THEOREM ClaimsCounted == Spec => []ClaimTotalFollows
<1>1. Init => ClaimTotalFollows
  <2> SUFFICES ASSUME Init PROVE ClaimTotalFollows
    OBVIOUS
  <2>1. Tickets = {}
    BY DEF Init, Tickets
  <2>2. {i \in Tickets : posted[i].handed = 1} = {}
    BY <2>1
  <2>3. ~\E s \in Slots : handler[s].op = "counting"
    BY DEF Init, Idle
  <2> QED BY <2>2, <2>3, FS_EmptySet DEF Init, ClaimTotalFollows
<1>2. Inv /\ Inv' /\ HolderHolds /\ HolderHolds' /\ ClaimTotalFollows /\ [Next]_vars
        => ClaimTotalFollows'
  BY AllocateCounts, ClaimCounts, CountsClaimCounts, OthersCount
<1>3. Spec => []HolderHolds
  BY HolderInit, HolderNext, Invariance, PTL DEF Spec
<1> QED BY <1>1, <1>2, <1>3, Invariance, PTL DEF Spec
=============================================================================
