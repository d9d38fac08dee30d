------------------------- MODULE RateLimiterProofs -------------------------
(***************************************************************************)
(* The rate limiter, for every window, limit and number of clients: the    *)
(* queue of a client and its admissions agree, so no window holds more     *)
(* than Limit of them and every rejection is justified.                    *)
(***************************************************************************)
EXTENDS RateLimiter, SequenceTheorems, WellFoundedInduction, FiniteSetTheorems, TLAPS

-----------------------------------------------------------------------------
(* What check does to a queue.                                             *)

\* Every nonempty set of naturals has a least element.
LEMMA LeastNatural ==
  ASSUME NEW T \in SUBSET Nat, T # {}
  PROVE  \E x \in T : \A y \in T : x <= y
<1> DEFINE Less == {pair \in Nat \X Nat : pair[1] < pair[2]}
<1>1. IsWellFoundedOn(Less, Nat)
  BY NatLessThanWellFounded DEF OpToRel
<1>2. \A x, y \in Nat : y < x => <<y, x>> \in Less
  OBVIOUS
<1> HIDE DEF Less
<1>3. PICK x \in T : \A y \in T : ~(<<y, x>> \in Less)
  BY <1>1, WFMin
<1>4. ASSUME NEW y \in T PROVE x <= y
  <2>1. ~(y < x)
    BY <1>2, <1>3
  <2> QED BY <2>1
<1> QED BY <1>4

\* What the pruning loop of check leaves: a suffix of the queue that begins at
\* the first young access; everything it dropped was at least a window old.
LEMMA PruneLeavesSuffix ==
  ASSUME NEW q \in Seq(Nat), NEW t \in Nat
  PROVE  \E k \in 1 .. Len(q) + 1 :
           /\ Prune(q, t) = SubSeq(q, k, Len(q))
           /\ \A i \in 1 .. k - 1 : t - q[i] >= Window
           /\ k <= Len(q) => t - q[k] < Window
<1> DEFINE young == {i \in DOMAIN q : t - q[i] < Window}
           first == CHOOSE i \in young : \A j \in young : i <= j
<1>0. /\ Len(q) \in Nat
      /\ DOMAIN q = 1 .. Len(q)
      /\ \A i \in 1 .. Len(q) : q[i] \in Nat
      /\ Window \in Nat
  BY ElementOfSeq, LenProperties, MailboxAssumption
<1>a. \A i \in 1 .. Len(q) : i \notin young => t - q[i] >= Window
  <2> TAKE i \in 1 .. Len(q)
  <2>1. q[i] \in Nat /\ t - q[i] \in Int
    BY <1>0
  <2>2. i \in young <=> t - q[i] < Window
    BY <1>0
  <2> HIDE DEF young
  <2> QED BY <1>0, <2>1, <2>2
<1>1. CASE young = {}
  <2>1. Prune(q, t) = <<>>
    BY <1>1 DEF Prune
  <2>2. SubSeq(q, Len(q) + 1, Len(q)) = <<>>
    BY <1>0, SubSeqEmpty
  <2>3. \A i \in 1 .. Len(q) : t - q[i] >= Window
    BY <1>a, <1>1
  <2> WITNESS Len(q) + 1 \in 1 .. Len(q) + 1
  <2> QED BY <1>0, <2>1, <2>2, <2>3
<1>2. CASE young # {}
  <2>1. young \in SUBSET Nat
    BY <1>0
  <2>2. \E i \in young : \A j \in young : i <= j
    BY <1>2, <2>1, LeastNatural
  <2>3. first \in young /\ \A j \in young : first <= j
    BY <2>2
  <2>4. Prune(q, t) = SubSeq(q, first, Len(q))
    BY <1>2 DEF Prune
  <2>5. first \in 1 .. Len(q) /\ t - q[first] < Window
    BY <1>0, <2>3
  <2> HIDE DEF young, first
  <2>6. \A i \in 1 .. first - 1 : t - q[i] >= Window
    <3> TAKE i \in 1 .. first - 1
    <3>1. i \in 1 .. Len(q) /\ ~(first <= i)
      BY <1>0, <2>5
    <3> QED BY <1>a, <2>3, <3>1
  <2>7. first \in 1 .. Len(q) + 1
    BY <1>0, <2>5
  <2> WITNESS first \in 1 .. Len(q) + 1
  <2> QED BY <2>4, <2>5, <2>6
<1> QED BY <1>1, <1>2

\* The queue stays a sequence of instants.
LEMMA CheckedType ==
  ASSUME NEW S \in SUBSET Nat, NEW q \in Seq(S), NEW t \in S, NEW limit
  PROVE  Prune(q, t) \in Seq(S) /\ Checked(q, t, limit) \in Seq(S)
<1>1. q \in Seq(Nat) /\ t \in Nat
  BY SeqMonotonic
<1>2. PICK k \in 1 .. Len(q) + 1 : Prune(q, t) = SubSeq(q, k, Len(q))
  BY <1>1, PruneLeavesSuffix
<1>3. \A i \in k .. Len(q) : q[i] \in S
  BY ElementOfSeq
<1>4. Prune(q, t) \in Seq(S)
  BY <1>2, <1>3, LenProperties, SubSeqProperties
<1> QED BY <1>4, AppendProperties DEF Checked

-----------------------------------------------------------------------------
(* The clients.                                                            *)

Instant == 0 .. MaxTime

LEMMA ConstantFacts ==
  /\ Limit \in Nat /\ Limit > 0 /\ Window \in Nat /\ Window > 0
  /\ MaxTime \in Nat
  /\ Instant \in SUBSET Nat
BY MailboxAssumption, RateLimiterAssumption DEF Instant

\* Elements of the sequences are instants, their lengths are naturals.
LEMMA SeqFacts ==
  ASSUME NEW q \in Seq(Instant)
  PROVE  /\ Len(q) \in Nat
         /\ DOMAIN q = 1 .. Len(q)
         /\ \A i \in 1 .. Len(q) : q[i] \in Nat /\ q[i] \in Instant
BY ElementOfSeq, LenProperties, ConstantFacts

\* Pruning keeps the agreement: it only moves where the queue begins.
LEMMA PruneAgrees ==
  ASSUME NEW q \in Seq(Instant), NEW a \in Seq(Instant), NEW t \in Instant, Agree(q, a, t)
  PROVE  /\ Prune(q, t) \in Seq(Instant)
         /\ Agree(Prune(q, t), a, t)
         /\ \A i \in 1 .. Len(Prune(q, t)) : t - Prune(q, t)[i] < Window
<1>0. Prune(q, t) \in Seq(Instant)
  BY CheckedType, ConstantFacts
<1>1. q \in Seq(Nat) /\ t \in Nat
  BY ConstantFacts, SeqMonotonic
<1>2. PICK k \in 1 .. Len(q) + 1 :
        /\ Prune(q, t) = SubSeq(q, k, Len(q))
        /\ \A i \in 1 .. k - 1 : t - q[i] >= Window
        /\ k <= Len(q) => t - q[k] < Window
  BY <1>1, PruneLeavesSuffix
<1> DEFINE p == Prune(q, t)
           d == Len(a) - Len(q)
<1>3. Len(p) = Len(q) - k + 1 /\ \A i \in 1 .. Len(q) - k + 1 : p[i] = q[k + i - 1]
  <2>1. \A i \in k .. Len(q) : q[i] \in Instant
    BY SeqFacts
  <2> QED BY <1>2, <2>1, SeqFacts, SubSeqProperties
<1> HIDE DEF p
<1>4. /\ d \in Nat /\ Len(a) - Len(p) = d + k - 1
      /\ Len(p) <= Len(a) /\ Len(p) <= Limit
  BY <1>2, <1>3, SeqFacts, ConstantFacts DEF Agree
<1>5. \A i \in 1 .. Len(p) : p[i] = a[Len(a) - Len(p) + i]
  <2> TAKE i \in 1 .. Len(p)
  <2>1. p[i] = q[k + i - 1] /\ k + i - 1 \in 1 .. Len(q)
    BY <1>2, <1>3, SeqFacts
  <2>2. q[k + i - 1] = a[d + (k + i - 1)]
    BY <2>1 DEF Agree
  <2>3. d + (k + i - 1) = Len(a) - Len(p) + i
    BY <1>2, <1>3, <1>4, SeqFacts
  <2> QED BY <2>1, <2>2, <2>3
<1>6. \A i \in 1 .. Len(a) - Len(p) : t - a[i] >= Window
  <2> TAKE i \in 1 .. Len(a) - Len(p)
  <2>1. CASE i <= d
    BY <1>4, <2>1 DEF Agree
  <2>2. CASE i > d
    <3>1. i - d \in 1 .. k - 1 /\ i - d \in 1 .. Len(q) /\ d + (i - d) = i
      BY <1>2, <1>4, <2>2, SeqFacts
    <3>2. q[i - d] = a[d + (i - d)]
      BY <3>1 DEF Agree
    <3> QED BY <1>2, <3>1, <3>2
  <2> QED BY <1>4, <2>1, <2>2
<1>7. \A i \in 1 .. Len(p) : t - p[i] < Window
  <2> TAKE i \in 1 .. Len(p)
  <2>1. k <= Len(q) /\ k \in 1 .. Len(q) /\ k + i - 1 \in 1 .. Len(q) /\ p[i] = q[k + i - 1]
    BY <1>2, <1>3, SeqFacts
  <2>2. d + k \in 1 .. Len(a) /\ d + (k + i - 1) \in 1 .. Len(a)
    <3>1. d \in Nat /\ Len(q) \in Nat /\ Len(a) \in Nat /\ d + Len(q) = Len(a)
      BY <1>4, SeqFacts
    <3> HIDE DEF d
    <3> QED BY <2>1, <3>1
  <2>3. q[k] = a[d + k] /\ q[k + i - 1] = a[d + (k + i - 1)]
    BY <2>1 DEF Agree
  <2>4. a[d + k] <= a[d + (k + i - 1)]
    <3>1. \A m, n \in 1 .. Len(a) : m <= n => a[m] <= a[n]
      BY DEF Agree
    <3>2. d + k <= d + (k + i - 1)
      BY <1>2, <1>4, SeqFacts
    <3> HIDE DEF d
    <3> QED BY <2>2, <3>1, <3>2
  <2>5. q[k] <= p[i] /\ q[k] \in Nat /\ p[i] \in Nat
    BY <2>1, <2>3, <2>4, SeqFacts
  <2>6. t - q[k] < Window /\ t \in Nat /\ Window \in Nat
    BY <1>1, <1>2, <2>1, ConstantFacts
  <2> QED BY <2>5, <2>6
<1>8. Agree(p, a, t)
  BY <1>4, <1>5, <1>6 DEF Agree
<1> QED BY <1>0, <1>7, <1>8 DEF p

\* Recording an admission that Admits lets through keeps the agreement: the one
\* Limit places earlier is no longer in the queue, so it is a window old.
LEMMA AppendAgrees ==
  ASSUME NEW p \in Seq(Instant), NEW a \in Seq(Instant), NEW t \in Instant,
         Agree(p, a, t), Len(p) < Limit
  PROVE  Agree(Append(p, t), Append(a, t), t)
<1> DEFINE pp == Append(p, t)
           aa == Append(a, t)
<1>1. /\ Len(pp) = Len(p) + 1 /\ Len(aa) = Len(a) + 1
      /\ \A i \in 1 .. Len(p) : pp[i] = p[i]
      /\ \A i \in 1 .. Len(a) : aa[i] = a[i]
      /\ pp[Len(p) + 1] = t /\ aa[Len(a) + 1] = t
  BY AppendProperties
<1> HIDE DEF pp, aa
<1>2. Len(p) \in Nat /\ Len(a) \in Nat /\ Len(p) <= Len(a) /\ t \in Nat
  BY SeqFacts, ConstantFacts DEF Agree
<1>3. \A i \in 1 .. Len(a) : a[i] \in Nat
  BY SeqFacts
<1>4. \A i \in 1 .. Len(pp) : pp[i] = aa[Len(aa) - Len(pp) + i]
  <2> TAKE i \in 1 .. Len(pp)
  <2>1. Len(aa) - Len(pp) = Len(a) - Len(p)
    BY <1>1, <1>2
  <2>2. CASE i = Len(p) + 1
    BY <1>1, <1>2, <2>1, <2>2
  <2>3. CASE i \in 1 .. Len(p)
    <3>1. Len(a) - Len(p) + i \in 1 .. Len(a)
      BY <1>2, <2>3
    <3>2. p[i] = a[Len(a) - Len(p) + i]
      BY <2>3 DEF Agree
    <3> QED BY <1>1, <2>1, <2>3, <3>1, <3>2
  <2> QED BY <1>1, <1>2, <2>2, <2>3
<1>5. \A i \in 1 .. Len(aa) - Len(pp) : t - aa[i] >= Window
  <2> TAKE i \in 1 .. Len(aa) - Len(pp)
  <2>1. i \in 1 .. Len(a) - Len(p) /\ i \in 1 .. Len(a)
    BY <1>1, <1>2
  <2>2. t - a[i] >= Window
    BY <2>1 DEF Agree
  <2> QED BY <1>1, <2>1, <2>2
<1>6. \A i \in 1 .. Len(aa) : aa[i] <= t
  <2> TAKE i \in 1 .. Len(aa)
  <2>1. CASE i = Len(a) + 1
    BY <1>1, <1>2, <2>1
  <2>2. CASE i \in 1 .. Len(a)
    <3>1. a[i] <= t
      BY <2>2 DEF Agree
    <3> QED BY <1>1, <2>2, <3>1
  <2> QED BY <1>1, <1>2, <2>1, <2>2
<1>7. \A i, j \in 1 .. Len(aa) : i <= j => aa[i] <= aa[j]
  <2> SUFFICES ASSUME NEW i \in 1 .. Len(aa), NEW j \in 1 .. Len(aa), i <= j
               PROVE  aa[i] <= aa[j]
    OBVIOUS
  <2>1. CASE j = Len(a) + 1
    BY <1>1, <1>6, <2>1
  <2>2. CASE j \in 1 .. Len(a)
    <3>1. i \in 1 .. Len(a)
      BY <1>2, <2>2
    <3> QED BY <1>1, <2>2, <3>1 DEF Agree
  <2> QED BY <1>1, <1>2, <2>1, <2>2
<1>8. \A i \in 1 .. Len(aa) : i + Limit <= Len(aa) => aa[i + Limit] - aa[i] >= Window
  <2> SUFFICES ASSUME NEW i \in 1 .. Len(aa), i + Limit <= Len(aa)
               PROVE  aa[i + Limit] - aa[i] >= Window
    OBVIOUS
  <2>1. i \in 1 .. Len(a) /\ i + Limit \in 1 .. Len(a) + 1
    BY <1>1, <1>2, ConstantFacts
  <2>2. CASE i + Limit = Len(a) + 1
    <3>1. i \in 1 .. Len(a) - Len(p)
      BY <1>2, <2>1, <2>2, ConstantFacts
    <3>2. t - a[i] >= Window
      BY <3>1 DEF Agree
    <3> QED BY <1>1, <2>1, <2>2, <3>2
  <2>3. CASE i + Limit \in 1 .. Len(a)
    <3>1. a[i + Limit] - a[i] >= Window
      BY <1>2, <2>1, <2>3, ConstantFacts DEF Agree
    <3> QED BY <1>1, <2>1, <2>3, <3>1
  <2> QED BY <1>2, <2>1, <2>2, <2>3
<1>9. Len(pp) <= Len(aa) /\ Len(pp) <= Limit
  BY <1>1, <1>2, ConstantFacts
<1> QED
  BY <1>4, <1>5, <1>6, <1>7, <1>8, <1>9 DEF Agree, pp, aa

\* A queue of Limit young admissions justifies a rejection.
LEMMA FullQueueJustifies ==
  ASSUME NEW p \in Seq(Instant), NEW a \in Seq(Instant), NEW t \in Instant, Agree(p, a, t),
         \A i \in 1 .. Len(p) : t - p[i] < Window,
         ~(Len(p) < Limit)
  PROVE  Cardinality({i \in DOMAIN a : t - a[i] < Window}) >= Limit
<1> DEFINE young == {i \in DOMAIN a : t - a[i] < Window}
           newest == Len(a) - Len(p) + 1 .. Len(a)
<1>1. Len(p) \in Nat /\ Len(a) \in Nat /\ Len(p) <= Len(a)
  BY SeqFacts DEF Agree
<1>2. newest \subseteq young
  <2> SUFFICES ASSUME NEW i \in newest PROVE i \in young
    OBVIOUS
  <2>1. i \in 1 .. Len(a) /\ i - (Len(a) - Len(p)) \in 1 .. Len(p)
    BY <1>1
  <2>2. p[i - (Len(a) - Len(p))] = a[i]
    <3>1. Len(a) - Len(p) + (i - (Len(a) - Len(p))) = i
      BY <1>1, <2>1
    <3> QED BY <2>1, <3>1 DEF Agree
  <2> QED BY <2>1, <2>2, SeqFacts
<1>3. IsFiniteSet(young)
  <2>1. IsFiniteSet(1 .. Len(a))
    BY <1>1, FS_Interval
  <2>2. young \in SUBSET (1 .. Len(a))
    BY SeqFacts
  <2> QED BY <2>1, <2>2, FS_Subset
<1>4. Cardinality(newest) = Len(p)
  <2>1. Len(a) - Len(p) + 1 \in Int /\ Len(a) \in Int
    BY <1>1
  <2>2. Cardinality(newest) = IF Len(a) - Len(p) + 1 > Len(a) THEN 0
                              ELSE Len(a) - (Len(a) - Len(p) + 1) + 1
    BY <2>1, FS_Interval
  <2> QED BY <1>1, <2>2
<1>5. Cardinality(young) \in Nat /\ Cardinality(newest) <= Cardinality(young)
  BY <1>2, <1>3, FS_Subset, FS_CardinalityType
<1> HIDE DEF young, newest
<1>6. Cardinality(young) >= Limit
  BY <1>1, <1>4, <1>5, ConstantFacts
<1> QED BY <1>6 DEF young

-----------------------------------------------------------------------------

LEMMA InvInit == Init => Inv
<1> SUFFICES ASSUME Init PROVE Inv
  OBVIOUS
<1>1. <<>> \in Seq(Instant) /\ Len(<<>>) = 0 /\ 0 \in Instant
  BY EmptySeq, ConstantFacts DEF Instant
<1>2. TypeOK
  BY <1>1 DEF Init, TypeOK, Instant
<1>3. Agree(<<>>, <<>>, 0)
  BY <1>1, ConstantFacts DEF Agree
<1> QED
  BY <1>2, <1>3 DEF Init, Inv, RejectionJustified

LEMMA TickInv ==
  ASSUME Inv, Tick
  PROVE  Inv'
<1>1. now \in Nat /\ now' \in Nat /\ now <= now' /\ now' \in 0 .. MaxTime
  BY ConstantFacts DEF Inv, TypeOK, Tick
<1>2. TypeOK'
  BY <1>1 DEF Inv, TypeOK, Tick
<1>3. ASSUME NEW ip \in Clients PROVE Agree(queue'[ip], admitted'[ip], now')
  <2>1. queue'[ip] = queue[ip] /\ admitted'[ip] = admitted[ip]
    BY DEF Tick
  <2>2. queue[ip] \in Seq(Instant) /\ admitted[ip] \in Seq(Instant)
    BY DEF Inv, TypeOK, Instant
  <2>3. Agree(queue[ip], admitted[ip], now)
    BY DEF Inv
  <2>4. \A i \in 1 .. Len(admitted[ip]) : admitted[ip][i] \in Nat
    BY <2>2, SeqFacts
  <2>5. Len(queue[ip]) \in Nat /\ Len(admitted[ip]) \in Nat
    BY <2>2, SeqFacts
  <2>6. \A i \in 1 .. Len(admitted[ip]) - Len(queue[ip]) : now' - admitted[ip][i] >= Window
    <3> TAKE i \in 1 .. Len(admitted[ip]) - Len(queue[ip])
    <3>1. now - admitted[ip][i] >= Window
      BY <2>3 DEF Agree
    <3>2. i \in 1 .. Len(admitted[ip])
      BY <2>5
    <3> QED BY <1>1, <2>4, <3>1, <3>2, ConstantFacts
  <2>7. \A i \in 1 .. Len(admitted[ip]) : admitted[ip][i] <= now'
    <3> TAKE i \in 1 .. Len(admitted[ip])
    <3>1. admitted[ip][i] <= now
      BY <2>3 DEF Agree
    <3> QED BY <1>1, <2>4, <3>1
  <2> QED BY <2>1, <2>3, <2>6, <2>7 DEF Agree
<1>4. RejectionJustified'
  BY DEF Inv, RejectionJustified, Tick
<1> QED BY <1>2, <1>3, <1>4 DEF Inv

\* What one access does to the queue and the admissions of its client.
LEMMA CheckAgrees ==
  ASSUME NEW q \in Seq(Instant), NEW a \in Seq(Instant), NEW t \in Instant, Agree(q, a, t)
  PROVE  /\ Checked(q, t, Limit) \in Seq(Instant)
         /\ Admits(q, t, Limit) => Agree(Checked(q, t, Limit), Append(a, t), t)
         /\ ~Admits(q, t, Limit) =>
              /\ Agree(Checked(q, t, Limit), a, t)
              /\ Cardinality({i \in DOMAIN a : t - a[i] < Window}) >= Limit
<1>1. Checked(q, t, Limit) \in Seq(Instant)
  BY CheckedType, ConstantFacts
<1>2. /\ Prune(q, t) \in Seq(Instant)
      /\ Agree(Prune(q, t), a, t)
      /\ \A i \in 1 .. Len(Prune(q, t)) : t - Prune(q, t)[i] < Window
  BY PruneAgrees
<1>3. ASSUME Admits(q, t, Limit) PROVE Agree(Checked(q, t, Limit), Append(a, t), t)
  BY <1>2, <1>3, AppendAgrees DEF Admits, Checked
<1>4. ASSUME ~Admits(q, t, Limit)
      PROVE  /\ Agree(Checked(q, t, Limit), a, t)
             /\ Cardinality({i \in DOMAIN a : t - a[i] < Window}) >= Limit
  BY <1>2, <1>4, FullQueueJustifies DEF Admits, Checked
<1> QED BY <1>1, <1>3, <1>4

LEMMA CheckInv ==
  ASSUME Inv, NEW ip \in Clients, Check(ip)
  PROVE  Inv'
<1> DEFINE ok == Admits(queue[ip], now, Limit)
<1>1. /\ queue[ip] \in Seq(Instant) /\ admitted[ip] \in Seq(Instant) /\ now \in Instant
      /\ Agree(queue[ip], admitted[ip], now)
  BY DEF Inv, TypeOK, Instant
<1>2. /\ Checked(queue[ip], now, Limit) \in Seq(Instant)
      /\ ok => Agree(Checked(queue[ip], now, Limit), Append(admitted[ip], now), now)
      /\ ~ok => Agree(Checked(queue[ip], now, Limit), admitted[ip], now)
      /\ ~ok => Cardinality({i \in DOMAIN admitted[ip] : now - admitted[ip][i] < Window}) >= Limit
  BY <1>1, CheckAgrees
<1>3. ok \in BOOLEAN
  BY DEF Admits
<1> DEFINE q2 == Checked(queue[ip], now, Limit)
           a2 == IF ok THEN Append(admitted[ip], now) ELSE admitted[ip]
<1>4. /\ queue' = [queue EXCEPT ![ip] = q2]
      /\ admitted' = [admitted EXCEPT ![ip] = a2]
      /\ last' = [last EXCEPT ![ip] = [ok |-> ok, at |-> now]]
      /\ now' = now
  BY DEF Check, Inv, TypeOK
<1>5. a2 \in Seq(Instant)
  BY <1>1, AppendProperties
<1>6. Agree(q2, a2, now)
  BY <1>2
<1>7. ~ok => a2 = admitted[ip]
  OBVIOUS
<1> HIDE DEF ok, q2, a2
<1>8. TypeOK'
  BY <1>1, <1>2, <1>3, <1>4, <1>5 DEF Inv, TypeOK, Instant, q2
<1>9. \A c \in Clients : Agree(queue'[c], admitted'[c], now')
  BY <1>4, <1>6 DEF Inv, TypeOK
<1>10. RejectionJustified'
  <2> SUFFICES ASSUME NEW c \in Clients, ~last'[c].ok
               PROVE  Cardinality({i \in DOMAIN admitted'[c] :
                                     last'[c].at - admitted'[c][i] < Window}) >= Limit
    BY DEF RejectionJustified
  <2>1. CASE c = ip
    <3>1. last'[c] = [ok |-> ok, at |-> now]
      BY <1>4, <2>1 DEF Inv, TypeOK
    <3>2. ~ok /\ last'[c].at = now
      BY <3>1
    <3>3. admitted'[c] = admitted[ip]
      BY <1>4, <1>7, <2>1, <3>2 DEF Inv, TypeOK
    <3> QED BY <1>2, <3>2, <3>3 DEF ok
  <2>2. CASE c # ip
    <3>1. last'[c] = last[c] /\ admitted'[c] = admitted[c]
      BY <1>4, <2>2 DEF Inv, TypeOK
    <3> QED BY <3>1 DEF Inv, RejectionJustified
  <2> QED BY <2>1, <2>2
<1> QED BY <1>8, <1>9, <1>10 DEF Inv

LEMMA InvNext == Inv /\ [Next]_vars => Inv'
<1> SUFFICES ASSUME Inv, [Next]_vars PROVE Inv'
  OBVIOUS
<1>1. CASE Tick
  BY <1>1, TickInv
<1>2. CASE \E ip \in Clients : Check(ip)
  BY <1>2, CheckInv
<1>3. CASE UNCHANGED vars
  BY <1>3 DEF vars, Inv, TypeOK, RejectionJustified
<1> QED BY <1>1, <1>2, <1>3 DEF Next

\* The invariant holds in every state of the limiter.
THEOREM Invariance == Spec => []Inv
BY InvInit, InvNext, PTL DEF Spec

\* Queues and admissions stay sequences of instants of the clock, whatever the
\* clients do (mailbox.rs:198-216).
THEOREM TypeCorrect == Spec => []TypeOK
<1>1. Inv => TypeOK
  BY DEF Inv
<1> QED BY <1>1, Invariance, PTL

\* The places of a suffix of length m in a sequence of length n.
LEMMA ShiftInRange ==
  ASSUME NEW m \in Nat, NEW n \in Nat, m <= n, NEW i \in 1 .. m
  PROVE  n - m + i \in 1 .. n
OBVIOUS

\* What the server remembers of a client is at most Limit instants, none of which
\* lies in the future, however often it asks (mailbox.rs:200-216).
THEOREM QueuesBounded == Spec => []QueueBounded
<1>1. Inv => QueueBounded
  <2> SUFFICES ASSUME Inv, NEW ip \in Clients
               PROVE  /\ Len(queue[ip]) <= Limit
                      /\ \A i \in DOMAIN queue[ip] : queue[ip][i] <= now
    BY DEF QueueBounded
  <2>1. /\ queue[ip] \in Seq(Instant) /\ admitted[ip] \in Seq(Instant)
        /\ Agree(queue[ip], admitted[ip], now)
    BY DEF Inv, TypeOK, Instant
  <2>2. /\ DOMAIN queue[ip] = 1 .. Len(queue[ip])
        /\ Len(queue[ip]) \in Nat /\ Len(admitted[ip]) \in Nat
    BY <2>1, SeqFacts
  <2>3. ASSUME NEW i \in 1 .. Len(queue[ip]) PROVE queue[ip][i] <= now
    <3>1. Len(admitted[ip]) - Len(queue[ip]) + i \in 1 .. Len(admitted[ip])
      <4>1. Len(queue[ip]) <= Len(admitted[ip])
        BY <2>1 DEF Agree
      <4>2. Len(queue[ip]) \in Nat /\ Len(admitted[ip]) \in Nat
        BY <2>2
      <4> QED BY <4>1, <4>2, ShiftInRange
    <3>2. queue[ip][i] = admitted[ip][Len(admitted[ip]) - Len(queue[ip]) + i]
      BY <2>1 DEF Agree
    <3>3. admitted[ip][Len(admitted[ip]) - Len(queue[ip]) + i] <= now
      BY <2>1, <3>1 DEF Agree
    <3> QED BY <3>2, <3>3
  <2>4. Len(queue[ip]) <= Limit
    BY <2>1 DEF Agree
  <2> QED BY <2>2, <2>3, <2>4
<1> QED BY <1>1, Invariance, PTL

\* The limiter lets no client through more than Limit times in any window
\* (mailbox.rs:198-216).
THEOREM LimitHolds == Spec => []NoBurst
<1>1. Inv => NoBurst
  <2> SUFFICES ASSUME Inv, NEW ip \in Clients, NEW i \in DOMAIN admitted[ip],
                      i + Limit \in DOMAIN admitted[ip]
               PROVE  admitted[ip][i + Limit] - admitted[ip][i] >= Window
    BY DEF NoBurst
  <2>1. admitted[ip] \in Seq(Instant) /\ Agree(queue[ip], admitted[ip], now)
    BY DEF Inv, TypeOK, Instant
  <2>2. DOMAIN admitted[ip] = 1 .. Len(admitted[ip]) /\ Len(admitted[ip]) \in Nat
    BY <2>1, SeqFacts
  <2> QED BY <2>1, <2>2, ConstantFacts DEF Agree
<1> QED BY <1>1, Invariance, PTL

\* No client is turned away without Limit admissions of its own in the window.
THEOREM RejectionsJustified == Spec => []RejectionJustified
<1>1. Inv => RejectionJustified
  BY DEF Inv
<1> QED BY <1>1, Invariance, PTL
=============================================================================
