--------------------------- MODULE TransferProofs ---------------------------
(***************************************************************************)
(* The transfer phase at the sender, for every number of requests, sizes,  *)
(* printing step and bus: types, why a flow ends as it does, that what is  *)
(* shown climbs, and that the counter is exact.                            *)
(***************************************************************************)
EXTENDS Transfer, SequenceTheorems, WellFoundedInduction, FiniteSetTheorems, TLAPS

LEMMA ConstantFacts ==
  /\ Total \in Nat /\ Step \in Nat /\ Step > 0 /\ Capacity \in Nat /\ Capacity > 0
  /\ \A r \in Requests : Size[r] \in Nat
BY TransferAssumption

LEMMA FrameTypes ==
  /\ Unanswered \in AnswersOf /\ Cancelled \in AnswersOf
  /\ \A e \in Exports : Reported(e) \subseteq AnswersOf
<1>1. \A e \in Exports : e.bytes \in 0 .. Total
  BY TransferAssumption
<1>2. \A e \in Exports : 0 .. Total - e.bytes \subseteq 0 .. Total
  BY <1>1, ConstantFacts
<1> QED BY <1>2 DEF AnswersOf, Reported

LEMMA AnswersDiffer ==
  /\ Unanswered # Cancelled /\ Unanswered.kind = "none" /\ Cancelled.kind = "cancel"
  /\ \A e \in Exports, s \in 0 .. Total : Result(e, s).kind = "result"
  /\ \A m \in AnswersOf : m = Unanswered \/ m = Cancelled \/ m.kind = "result"
<1>1. Unanswered.kind = "none" /\ Cancelled.kind = "cancel"
  BY DEF Unanswered, Cancelled, Answer
<1>2. \A e \in Exports, s \in 0 .. Total : Result(e, s).kind = "result"
  BY DEF Result, Answer
<1> QED BY <1>1, <1>2 DEF AnswersOf

LEMMA EventTypes ==
  /\ EndEvent \in Event
  /\ \A p \in 0 .. Total : ProgressEvent(p) \in Event
BY TransferAssumption DEF EndEvent, ProgressEvent, Event

LEMMA PositionType ==
  ASSUME served \in Nat, baseline \in Nat
  PROVE  Position \in 0 .. Total
BY TransferAssumption DEF Position, Least, SaturatingSub

\* Heads and tails of what waits somewhere.
LEMMA HeadAndTail ==
  ASSUME NEW S, NEW s \in Seq(S), s # <<>>
  PROVE  /\ Head(s) \in S /\ Tail(s) \in Seq(S)
         /\ Len(s) \in Nat /\ Len(s) > 0 /\ Len(Tail(s)) = Len(s) - 1
         /\ Head(s) = s[1]
         /\ \A i \in 1 .. Len(s) - 1 : Tail(s)[i] = s[i + 1]
BY HeadTailProperties, EmptySeq

LEMMA Appended ==
  ASSUME NEW S, NEW s \in Seq(S), NEW x \in S
  PROVE  /\ Append(s, x) \in Seq(S)
         /\ Len(s) \in Nat /\ Len(Append(s, x)) = Len(s) + 1
         /\ Append(s, x)[Len(s) + 1] = x
         /\ \A i \in 1 .. Len(s) : Append(s, x)[i] = s[i]
BY AppendProperties

LEMMA TypeInit == Init => TypeOK
<1> SUFFICES ASSUME Init PROVE TypeOK
  OBVIOUS
<1>1. FlowTypes
  BY DEF Init, FlowTypes
<1>2. ProviderTypes
  BY ConstantFacts, EmptySeq DEF Init, ProviderTypes
<1>3. WireTypes
  BY FrameTypes, EmptySeq DEF Init, WireTypes
<1>4. ShownTypes
  <2>1. lagged \in BOOLEAN /\ listening \in BOOLEAN
    BY Zenon DEF Init
  <2>2. <<>> \in Seq(0 .. Total) /\ <<>> \in Seq(Event) /\ Len(<<>>) = 0
    BY EmptySeq
  <2> QED BY <2>1, <2>2, ConstantFacts DEF Init, ShownTypes
<1> QED BY <1>1, <1>2, <1>3, <1>4 DEF TypeOK

-----------------------------------------------------------------------------
(* Types.                                                                  *)

\* The provider grows the offsets and the tasks the counter.
LEMMA ProviderTypesNext ==
  ASSUME TypeOK, Next
  PROVE  ProviderTypes'
<1> USE DEF TypeOK, ProviderTypes
<1>1. ASSUME NEW r \in Requests, NEW kind \in Kinds, NEW bytes \in Nat, Tells(r, kind, bytes)
      PROVE  /\ updates' \in [Requests -> Seq(Update)]
             /\ told' \in [Requests -> Nat]
  <2>1. [kind |-> kind, bytes |-> bytes] \in Update
    BY DEF Update
  <2>2. Append(updates[r], [kind |-> kind, bytes |-> bytes]) \in Seq(Update)
    BY <2>1, Appended
  <2> QED BY <1>1, <2>2 DEF Tells
<1>2. ASSUME NEW r \in Requests, Serves(r) PROVE ProviderTypes'
  <2>1. offset[r] + 1 \in Nat /\ offset[r] + 1 <= Size[r]
    BY <1>2, ConstantFacts DEF Serves
  <2>2. updates' \in [Requests -> Seq(Update)] /\ told' \in [Requests -> Nat]
    BY <1>1, <1>2, <2>1 DEF Serves, Kinds
  <2> QED BY <1>2, <2>1, <2>2 DEF Serves
<1>3. ASSUME NEW r \in Requests, EndsRequest(r) PROVE ProviderTypes'
  <2>1. updates' \in [Requests -> Seq(Update)] /\ told' \in [Requests -> Nat]
    BY <1>1, <1>3 DEF EndsRequest, Kinds
  <2> QED BY <1>3, <2>1 DEF EndsRequest
<1>4. ASSUME NEW r \in Requests, Folds(r) PROVE ProviderTypes'
  <2>1. Head(updates[r]) \in Update /\ Tail(updates[r]) \in Seq(Update)
    BY <1>4, HeadAndTail DEF Folds
  <2> DEFINE u == Head(updates[r])
  <2>2. u.bytes \in Nat /\ Delta(u, last[r]) \in Nat
    BY <2>1 DEF Delta, SaturatingSub, Update
  <2>3. /\ served' = served + Delta(u, last[r])
        /\ last' = [last EXCEPT ![r] = IF u.kind = "progress" THEN u.bytes ELSE @]
        /\ updates' = [updates EXCEPT ![r] = Tail(@)]
        /\ UNCHANGED <<offset, open, told>>
    BY <1>4 DEF Folds
  <2> HIDE DEF u
  <2> QED BY <2>1, <2>2, <2>3
<1>5. ASSUME Begins \/ Interrupts \/ Flow \/ Answers \/ PeerCloses \/ Forwards \/ Unsubscribes
      PROVE  ProviderTypes'
  <2>1. UNCHANGED provider
    BY <1>5 DEF Begins, Interrupts, Flow, TakesInterrupt, ReadsPrefix, ReadsBody, ReadsRest, ReadsEnd,
       Ticks, Answers, PeerCloses, Forwards, Unsubscribes
  <2> QED BY <2>1 DEF provider
<1> QED BY <1>2, <1>3, <1>4, <1>5 DEF Next

LEMMA FlowTypesNext ==
  ASSUME TypeOK, Next
  PROVE  FlowTypes'
<1> USE DEF TypeOK, FlowTypes, Ends
<1>1. front' \in Fronts
  BY DEF Next, Begins, Interrupts, Flow, TakesInterrupt, ReadsPrefix, ReadsBody, ReadsRest, ReadsEnd,
     Ticks, Answers, PeerCloses, Forwards, Unsubscribes, Serves, EndsRequest, Folds
<1>2. at' \in {"offered", "transfer"} \cup Ends
  BY DEF Next, Begins, Interrupts, Flow, TakesInterrupt, ReadsPrefix, ReadsBody, ReadsRest, ReadsEnd,
     Ticks, Answers, PeerCloses, Forwards, Unsubscribes, Serves, EndsRequest, Folds, Finishes
<1>3. interrupted' \in BOOLEAN
  BY Zenon DEF Next, Begins, Interrupts, Flow, TakesInterrupt, ReadsPrefix, ReadsBody, ReadsRest, ReadsEnd,
     Ticks, Answers, PeerCloses, Forwards, Unsubscribes, Serves, EndsRequest, Folds
<1>4. baseline' \in Nat
  BY DEF Next, Begins, Interrupts, Flow, TakesInterrupt, ReadsPrefix, ReadsBody, ReadsRest, ReadsEnd,
     Ticks, Answers, PeerCloses, Forwards, Unsubscribes, Serves, EndsRequest, Folds, ProviderTypes
<1> QED BY <1>1, <1>2, <1>3, <1>4

LEMMA WireTypesNext ==
  ASSUME TypeOK, Next
  PROVE  WireTypes'
<1> USE DEF TypeOK, WireTypes
<1> DEFINE Piece == [part : {"prefix", "body"}, message : AnswersOf]
<1>1. CASE Answers
  <2>1. PICK m \in AnswersOf : answer' = m /\ stream' = Encode(m)
    BY <1>1, FrameTypes DEF Answers
  <2>2. Encode(m) \in Seq(Piece)
    BY <2>1 DEF Encode
  <2>3. UNCHANGED <<closed, held, torn, lost>>
    BY <1>1 DEF Answers
  <2> QED BY <2>1, <2>2, <2>3
<1>2. CASE PeerCloses
  <2>1. PICK n \in 0 .. Len(stream) : stream' = SubSeq(stream, 1, n)
    BY <1>2 DEF PeerCloses
  <2>2. stream' \in Seq(Piece)
    <3>1. stream \in Seq(Piece) /\ Len(stream) \in Nat
      BY LenProperties
    <3> HIDE DEF Piece
    <3>2. \A i \in 1 .. n : stream[i] \in Piece
      <4> TAKE i \in 1 .. n
      <4>1. i \in 1 .. Len(stream)
        BY <2>1, <3>1
      <4> QED BY <3>1, <4>1, ElementOfSeq
    <3> QED BY <2>1, <3>1, <3>2, SubSeqProperties
  <2>3. closed' \in BOOLEAN /\ lost' \in BOOLEAN
    BY Zenon, <1>2 DEF PeerCloses
  <2>4. UNCHANGED <<answer, held, torn>>
    BY <1>2 DEF PeerCloses
  <2> QED BY <2>2, <2>3, <2>4
<1>3. CASE ReadsPrefix \/ ReadsBody \/ ReadsRest
  <2>1. stream # <<>> /\ stream' = Tail(stream)
    BY <1>3 DEF ReadsPrefix, ReadsBody, ReadsRest
  <2>2. stream' \in Seq(Piece)
    BY <2>1, HeadAndTail
  <2>3. held' \in BOOLEAN
    BY Zenon, <1>3 DEF ReadsPrefix, ReadsBody, ReadsRest
  <2>4. UNCHANGED <<answer, closed, torn, lost>>
    BY <1>3 DEF ReadsPrefix, ReadsBody, ReadsRest
  <2> QED BY <2>2, <2>3, <2>4
<1>4. CASE Ticks
  <2>1. held' \in BOOLEAN /\ torn' \in BOOLEAN
    BY Zenon, <1>4 DEF Ticks
  <2> QED BY <1>4, <2>1 DEF Ticks
<1>5. CASE TakesInterrupt \/ ReadsEnd \/ Begins \/ Interrupts \/ Forwards \/ Unsubscribes
           \/ \E r \in Requests : Serves(r) \/ EndsRequest(r) \/ Folds(r)
  <2>1. UNCHANGED wire
    BY <1>5 DEF TakesInterrupt, ReadsEnd, Begins, Interrupts, Forwards, Unsubscribes, Serves,
       EndsRequest, Folds
  <2> QED BY <2>1 DEF wire
<1> QED BY <1>1, <1>2, <1>3, <1>4, <1>5 DEF Next, Flow

\* Printing and emitting a position keep what is shown of its type.
LEMMA PrintsTypes ==
  ASSUME ShownTypes, NEW p \in 0 .. Total, Prints(p)
  PROVE  reported' \in 0 .. Total /\ lines' \in Seq(0 .. Total)
BY Appended DEF ShownTypes, Prints

LEMMA EmitsTypes ==
  ASSUME ShownTypes, NEW e \in Event, Emits(e)
  PROVE  bus' \in Seq(Event) /\ Len(bus') <= Capacity /\ lagged' \in BOOLEAN
<1>1. lagged' \in BOOLEAN
  BY Zenon DEF ShownTypes, Emits
<1>2. CASE ~listening
  BY <1>1, <1>2 DEF ShownTypes, Emits
<1>3. CASE listening /\ Len(bus) < Capacity
  <2>1. bus' = Append(bus, e)
    BY <1>3 DEF Emits
  <2> QED BY <1>1, <1>3, <2>1, Appended, ConstantFacts DEF ShownTypes
<1>4. CASE listening /\ ~(Len(bus) < Capacity)
  <2>1. bus' = Append(Tail(bus), e)
    BY <1>4 DEF Emits
  <2>2. bus # <<>> /\ bus \in Seq(Event)
    BY <1>4, ConstantFacts, EmptySeq DEF ShownTypes
  <2>3. Tail(bus) \in Seq(Event) /\ Len(Tail(bus)) = Len(bus) - 1 /\ Len(bus) \in Nat
    BY <2>2, HeadAndTail
  <2>4. bus' \in Seq(Event) /\ Len(bus') = Len(bus)
    BY <2>1, <2>3, Appended
  <2> QED BY <1>1, <2>4 DEF ShownTypes
<1> QED BY <1>2, <1>3, <1>4

LEMMA FinishesTypes ==
  ASSUME ShownTypes, NEW how, Finishes(how)
  PROVE  ShownTypes'
<1>1. UNCHANGED <<listening, seen>>
  BY DEF Finishes
<1>2. Total \in 0 .. Total
  BY ConstantFacts
<1>3. CASE front = "app"
  <2>1. Emits(EndEvent) /\ UNCHANGED <<lines, reported>>
    BY <1>3 DEF Finishes
  <2> QED BY <1>1, <2>1, EmitsTypes, EventTypes DEF ShownTypes
<1>4. CASE front # "app"
  <2>1. UNCHANGED <<bus, lagged>> /\ (Prints(Total) \/ UNCHANGED <<lines, reported>>)
    BY <1>4 DEF Finishes
  <2> QED BY <1>1, <1>2, <2>1, PrintsTypes DEF ShownTypes
<1> QED BY <1>3, <1>4

LEMMA ShownTypesNext ==
  ASSUME TypeOK, Next
  PROVE  ShownTypes'
<1> USE DEF TypeOK
<1>1. CASE TakesInterrupt \/ ReadsBody \/ ReadsRest \/ ReadsEnd
  <2>1. (\E how : Finishes(how)) \/ UNCHANGED shown
    BY <1>1 DEF TakesInterrupt, ReadsBody, ReadsRest, ReadsEnd
  <2> QED BY <2>1, FinishesTypes DEF shown, ShownTypes
<1>2. CASE Ticks
  <2>1. Position \in 0 .. Total
    BY PositionType DEF ProviderTypes, FlowTypes
  <2>2. UNCHANGED <<listening, seen>>
    BY <1>2 DEF Ticks
  <2>3. \/ Prints(Position) /\ UNCHANGED <<bus, lagged>>
        \/ UNCHANGED <<bus, lagged, lines, reported>>
        \/ Emits(ProgressEvent(Position)) /\ reported' = Position /\ UNCHANGED lines
    BY <1>2 DEF Ticks
  <2>4. CASE Prints(Position) /\ UNCHANGED <<bus, lagged>>
    BY <2>1, <2>2, <2>4, PrintsTypes DEF ShownTypes
  <2>5. CASE UNCHANGED <<bus, lagged, lines, reported>>
    BY <2>2, <2>5 DEF ShownTypes
  <2>6. CASE Emits(ProgressEvent(Position)) /\ reported' = Position /\ UNCHANGED lines
    BY <2>1, <2>2, <2>6, EmitsTypes, EventTypes DEF ShownTypes
  <2> QED BY <2>3, <2>4, <2>5, <2>6
<1>3. CASE Forwards
  <2>1. UNCHANGED <<reported, lines, listening>>
    BY <1>3 DEF Forwards
  <2>2. CASE lagged
    BY <1>3, <2>1, <2>2 DEF Forwards, ShownTypes
  <2>3. CASE ~lagged
    <3>1. bus # <<>> /\ seen' = Append(seen, Head(bus)) /\ bus' = Tail(bus) /\ UNCHANGED lagged
      BY <1>3, <2>3 DEF Forwards
    <3>2. /\ Head(bus) \in Event /\ Tail(bus) \in Seq(Event)
          /\ Len(Tail(bus)) = Len(bus) - 1 /\ Len(bus) \in Nat
      BY <3>1, HeadAndTail DEF ShownTypes
    <3>3. seen' \in Seq(Event)
      BY <3>1, <3>2, Appended DEF ShownTypes
    <3> QED BY <2>1, <3>1, <3>2, <3>3, ConstantFacts DEF ShownTypes
  <2> QED BY <2>2, <2>3
<1>4. CASE Unsubscribes
  <2>1. /\ bus' = <<>> /\ UNCHANGED <<reported, lines, seen>>
        /\ listening' \in BOOLEAN /\ lagged' \in BOOLEAN
    BY Zenon, <1>4 DEF Unsubscribes
  <2>2. <<>> \in Seq(Event) /\ Len(<<>>) = 0
    BY EmptySeq
  <2> QED BY <2>1, <2>2, ConstantFacts DEF ShownTypes
<1>5. CASE ReadsPrefix \/ Answers \/ PeerCloses \/ Begins \/ Interrupts
           \/ \E r \in Requests : Serves(r) \/ EndsRequest(r) \/ Folds(r)
  <2>1. UNCHANGED shown
    BY <1>5 DEF ReadsPrefix, Answers, PeerCloses, Begins, Interrupts, Serves, EndsRequest, Folds
  <2> QED BY <2>1 DEF shown, ShownTypes
<1> QED BY <1>1, <1>2, <1>3, <1>4, <1>5 DEF Next, Flow

LEMMA TypeNext == TypeOK /\ [Next]_vars => TypeOK'
<1> SUFFICES ASSUME TypeOK, [Next]_vars PROVE TypeOK'
  OBVIOUS
<1>1. CASE Next
  BY <1>1, ProviderTypesNext, FlowTypesNext, WireTypesNext, ShownTypesNext DEF TypeOK
<1>2. CASE UNCHANGED vars
  BY <1>2 DEF vars, provider, wire, shown, TypeOK, FlowTypes, ProviderTypes, WireTypes, ShownTypes
<1> QED BY <1>1, <1>2

\* Whatever the provider serves and the receiver answers, no position beyond the
\* total is shown and the bus holds no more than its capacity.
THEOREM TypeCorrect == Spec => []TypeOK
BY TypeInit, TypeNext, PTL DEF Spec

-----------------------------------------------------------------------------
(* Why a flow ends as it does.                                             *)

\* What the reader and a lost connection can make of the two pieces of a frame.
LEMMA Pieces ==
  ASSUME NEW p, NEW b
  PROVE  /\ Head(<<p, b>>) = p /\ Tail(<<p, b>>) = <<b>>
         /\ Head(<<p>>) = p /\ Tail(<<p>>) = <<>>
         /\ <<p, b>> # <<>> /\ <<p>> # <<>> /\ <<p, b>> # <<p>> /\ <<p, b>> # <<b>>
OBVIOUS

LEMMA Cut ==
  ASSUME NEW p, NEW b, NEW s \in {<<>>, <<p>>, <<b>>, <<p, b>>}, NEW n \in 0 .. Len(s)
  PROVE  /\ SubSeq(s, 1, n) \in {<<>>, <<p>>, <<b>>, <<p, b>>}
         /\ SubSeq(s, 1, n) # s => SubSeq(s, 1, n) \in {<<>>, <<p>>}
         /\ s \in {<<>>, <<b>>} => SubSeq(s, 1, n) \in {<<>>, <<b>>}
         /\ s = <<>> => SubSeq(s, 1, n) = <<>>
<1>1. n = 0 => SubSeq(s, 1, n) = <<>>
  BY SubSeqEmpty
<1>2. <<>> \in Seq({p, b}) /\ <<p>> \in Seq({p, b}) /\ <<b>> \in Seq({p, b}) /\ <<p, b>> \in Seq({p, b})
  OBVIOUS
<1>3. n = Len(s) => SubSeq(s, 1, n) = s
  BY <1>2, SubSeqFull
<1>4. Len(<<>>) = 0 /\ Len(<<p>>) = 1 /\ Len(<<b>>) = 1 /\ Len(<<p, b>>) = 2
  OBVIOUS
<1>5. SubSeq(<<p, b>>, 1, 1) = <<p>>
  <2>1. /\ SubSeq(<<p, b>>, 1, 1) \in Seq({p, b})
        /\ Len(SubSeq(<<p, b>>, 1, 1)) = 1
        /\ SubSeq(<<p, b>>, 1, 1)[1] = p
    <3>1. \A i \in 1 .. 1 : <<p, b>>[i] \in {p, b}
      OBVIOUS
    <3>2. <<p, b>>[1] = p
      OBVIOUS
    <3> QED BY <3>1, <3>2, SubSeqProperties
  <2>2. <<p>>[1] = p /\ \A i \in 1 .. 1 : i = 1
    OBVIOUS
  <2>3. \A i \in 1 .. Len(SubSeq(<<p, b>>, 1, 1)) : SubSeq(<<p, b>>, 1, 1)[i] = <<p>>[i]
    BY <2>1, <2>2
  <2> QED BY <1>2, <1>4, <2>1, <2>3, SeqEqual
<1>6. CASE s = <<>>
  BY <1>1, <1>4, <1>6
<1>7. CASE s = <<p>>
  BY <1>1, <1>3, <1>4, <1>7
<1>8. CASE s = <<b>>
  BY <1>1, <1>3, <1>4, <1>8
<1>9. CASE s = <<p, b>>
  BY <1>1, <1>3, <1>4, <1>5, <1>9
<1> QED BY <1>6, <1>7, <1>8, <1>9

\* A frame is written once, read in order, cut short by a lost connection and torn
\* by a tick.
LEMMA FrameNext ==
  ASSUME TypeOK, FrameKept, Next
  PROVE  FrameKept'
<1> USE DEF TypeOK
<1>1. CASE Answers
  <2>1. PICK m \in AnswersOf : answer' = m /\ stream' = Encode(m) /\ m # Unanswered
    <3>1. PICK m \in {Cancelled} \cup UNION {Reported(e) : e \in Exports} :
            answer' = m /\ stream' = Encode(m)
      BY <1>1 DEF Answers
    <3>2. m = Cancelled \/ m.kind = "result"
      BY <3>1 DEF Reported, Result, Answer
    <3>3. m \in AnswersOf /\ m # Unanswered
      BY <3>1, <3>2, FrameTypes, AnswersDiffer
    <3> QED BY <3>1, <3>3
  <2>2. at = "transfer" /\ answer = Unanswered /\ UNCHANGED <<at, closed, held, lost>>
    BY <1>1 DEF Answers
  <2>3. ~held' /\ at' = "transfer" /\ stream' = <<Prefix', Body'>>
    BY <2>1, <2>2 DEF FrameKept, Encode, Prefix, Body
  <2> QED BY <2>1, <2>2, <2>3 DEF FrameKept
<1>2. CASE PeerCloses
  <2>1. PICK n \in 0 .. Len(stream) : stream' = SubSeq(stream, 1, n)
    BY <1>2 DEF PeerCloses
  <2>2. UNCHANGED <<at, answer, held, torn>> /\ closed'
    BY <1>2 DEF PeerCloses
  <2>4. ~lost /\ (lost' <=> stream' # stream)
    BY <1>2 DEF PeerCloses, FrameKept
  <2>3. stream' \in {<<>>, <<Prefix>>, <<Body>>, <<Prefix, Body>>}
        /\ (stream \in {<<>>, <<Body>>} => stream' \in {<<>>, <<Body>>})
        /\ (stream = <<>> => stream' = <<>>)
    BY <2>1, Cut DEF FrameKept
  <2>5. Prefix' = Prefix /\ Body' = Body /\ (Over' <=> Over)
    BY <2>2 DEF Prefix, Body, Over
  <2> QED BY <2>2, <2>3, <2>4, <2>5 DEF FrameKept
<1>3. CASE ReadsPrefix \/ ReadsBody \/ ReadsRest
  <2>1. /\ stream # <<>> /\ stream' = Tail(stream)
        /\ UNCHANGED <<answer, closed, torn, lost>> /\ at = "transfer"
    BY <1>3 DEF ReadsPrefix, ReadsBody, ReadsRest, Receiving
  <2>2. /\ stream = <<Prefix>> => stream' = <<>> /\ Head(stream).part = "prefix"
        /\ stream = <<Body>> => stream' = <<>> /\ Head(stream).part = "body"
        /\ stream = <<Prefix, Body>> => stream' = <<Body>> /\ Head(stream).part = "prefix"
    <3>1. Prefix.part = "prefix" /\ Body.part = "body"
      BY DEF Prefix, Body
    <3> QED BY <2>1, <3>1, Pieces
  <2>3. answer # Unanswered /\ Prefix' = Prefix /\ Body' = Body
    BY <2>1 DEF FrameKept, Prefix, Body
  <2>4. stream' \in {<<>>, <<Body>>}
    BY <2>1, <2>2 DEF FrameKept
  <2>5. CASE ReadsPrefix
    <3>1. ~held /\ held' /\ at' = at /\ Head(stream).part = "prefix"
      BY <2>5 DEF ReadsPrefix
    <3>2. ~torn /\ ~lost => stream' = <<Body>>
      BY <2>1, <2>2, <2>3, <3>1 DEF FrameKept, Ends, Over
    <3> QED BY <2>1, <2>3, <2>4, <3>1, <3>2 DEF FrameKept
  <2>6. CASE ReadsBody
    <3>1. at' \in Ends
      BY <2>6 DEF ReadsBody, Finishes, Ends
    <3>2. ~held'
      BY <2>6 DEF ReadsBody
    <3> QED BY <2>1, <2>3, <2>4, <3>1, <3>2 DEF FrameKept, Over, Ends
  <2>7. CASE ReadsRest
    <3>1. ~held /\ Head(stream).part = "body" /\ at' \in {"transfer", "failed"}
      BY <2>1, <2>7 DEF ReadsRest, Finishes
    <3>2. stream # <<Prefix, Body>>
      BY <2>2, <3>1
    <3>3. torn \/ lost
      BY <2>1, <2>3, <3>1, <3>2 DEF FrameKept, Ends, Over
    <3> QED BY <2>1, <2>3, <2>4, <3>1, <3>3 DEF FrameKept
  <2> QED BY <1>3, <2>5, <2>6, <2>7
<1>4. CASE Ticks
  <2>1. ~held' /\ UNCHANGED <<at, answer, stream, closed, lost>> /\ at = "transfer" /\ (torn \/ held => torn')
    BY <1>4 DEF Ticks, Receiving
  <2> QED BY <2>1 DEF FrameKept, Prefix, Body, Over
<1>5. CASE TakesInterrupt \/ ReadsEnd
  <2>1. UNCHANGED <<answer, stream, closed, held, torn, lost>> /\ at' \in Ends
    BY <1>5 DEF TakesInterrupt, ReadsEnd, Finishes, wire, Ends
  <2> QED BY <2>1 DEF FrameKept, Prefix, Body, Over, Ends
<1>6. CASE Begins \/ Interrupts \/ Forwards \/ Unsubscribes
           \/ \E r \in Requests : Serves(r) \/ EndsRequest(r) \/ Folds(r)
  <2>1. UNCHANGED <<answer, stream, closed, held, torn, lost>>
        /\ (at' = at \/ (at = "offered" /\ at' = "transfer"))
    BY <1>6 DEF Begins, Interrupts, Forwards, Unsubscribes, Serves, EndsRequest, Folds, wire
  <2> QED BY <2>1 DEF FrameKept, Prefix, Body, Over, Ends
<1> QED BY <1>1, <1>2, <1>3, <1>4, <1>5, <1>6 DEF Next, Flow

LEMMA ReportNext ==
  ASSUME TypeOK, AnswerInv, Next
  PROVE  ReportFollowsAnswer'
<1> USE DEF TypeOK, AnswerInv
<1>1. CASE ReadsBody
  <2>1. held /\ stream # <<>> /\ Head(stream).part = "body"
        /\ UNCHANGED <<answer, torn, lost>>
    BY <1>1 DEF ReadsBody
  <2>2. stream = <<Body>>
    BY <2>1 DEF FrameKept
  <2>3. Head(stream).message = answer
    BY <2>2, Pieces DEF Body
  <2>4. at' = CASE answer.kind = "cancel" -> "cancelled"
                [] answer.kind = "result" /\ ResultMatches(answer) -> "completed"
                [] OTHER -> "failed"
    BY <1>1, <2>3 DEF ReadsBody, Finishes
  <2>5. answer = Unanswered \/ answer = Cancelled \/ answer.kind = "result"
    BY AnswersDiffer DEF WireTypes
  <2>6. ResultMatches(answer) /\ answer.kind = "result" <=> Accounted(answer)
    BY DEF ResultMatches, Accounted
  <2>7. CASE answer = Cancelled
    <3>1. at' = "cancelled"
      BY <2>4, <2>7, AnswersDiffer
    <3> QED BY <2>1, <2>7, <3>1 DEF ReportFollowsAnswer
  <2>8. CASE Accounted(answer)
    <3>1. answer.kind = "result" /\ ResultMatches(answer)
      BY <2>6, <2>8
    <3>2. at' = "completed"
      BY <2>4, <3>1
    <3> QED BY <2>1, <2>8, <3>2 DEF ReportFollowsAnswer, Accounted
  <2>9. CASE answer # Cancelled /\ ~Accounted(answer)
    <3>1. answer.kind # "cancel" /\ ~(answer.kind = "result" /\ ResultMatches(answer))
      BY <2>5, <2>6, <2>9, AnswersDiffer
    <3>2. at' = "failed"
      BY <2>4, <3>1
    <3> QED BY <2>1, <2>9, <3>2 DEF ReportFollowsAnswer, Accounted
  <2> QED BY <2>7, <2>8, <2>9
<1>2. CASE ReadsRest
  <2>1. ~held /\ stream # <<>> /\ Head(stream).part = "body" /\ at = "transfer"
        /\ at' \in {"transfer", "failed"} /\ UNCHANGED <<answer, torn, lost>>
    BY <1>2 DEF ReadsRest, Receiving, Finishes
  <2>2. stream # <<Prefix, Body>>
    BY <2>1, Pieces DEF Prefix
  <2> QED BY <2>1, <2>2, AnswersDiffer DEF FrameKept, ReportFollowsAnswer, Accounted, Over, Ends
<1>3. CASE ReadsEnd
  <2>1. stream = <<>> /\ at = "transfer" /\ at' = "failed" /\ UNCHANGED <<answer, torn, lost>>
    BY <1>3 DEF ReadsEnd, Receiving, Finishes, wire
  <2>2. stream # <<Body>> /\ stream # <<Prefix, Body>>
    BY <2>1, Pieces
  <2> QED BY <2>1, <2>2, AnswersDiffer DEF FrameKept, ReportFollowsAnswer, Accounted, Over, Ends
<1>4. CASE TakesInterrupt
  <2>1. interrupted' /\ at' = "cancelled"
    BY <1>4 DEF TakesInterrupt, Finishes
  <2> QED BY <2>1 DEF ReportFollowsAnswer
<1>5. CASE Answers \/ PeerCloses \/ Begins \/ Ticks
  <2>1. at' = "transfer"
    BY <1>5 DEF Answers, PeerCloses, Begins, Ticks, Receiving
  <2> QED BY <2>1 DEF ReportFollowsAnswer
<1>6. CASE ReadsPrefix \/ Interrupts \/ Forwards \/ Unsubscribes
           \/ \E r \in Requests : Serves(r) \/ EndsRequest(r) \/ Folds(r)
  <2>1. UNCHANGED <<at, answer, torn, lost>> /\ (interrupted' = interrupted \/ interrupted')
    BY <1>6 DEF ReadsPrefix, Interrupts, Forwards, Unsubscribes, Serves, EndsRequest, Folds, wire
  <2> QED BY <2>1 DEF ReportFollowsAnswer, Accounted
<1> QED BY <1>1, <1>2, <1>3, <1>4, <1>5, <1>6 DEF Next, Flow

\* A flow is completed only on a report that accounts for every byte and file,
\* cancelled only if one of the two cancelled, and an answer that arrives whole is
\* never taken for a failure (transfer_phase, send/transfer.rs:50-101, flows.rs:345-399).
THEOREM AnswerDecides == Spec => []ReportFollowsAnswer
<1>1. Init => AnswerInv
  BY AnswersDiffer DEF Init, AnswerInv, FrameKept, ReportFollowsAnswer
<1>2. TypeOK /\ AnswerInv /\ [Next]_vars => AnswerInv'
  <2> SUFFICES ASSUME TypeOK, AnswerInv, [Next]_vars PROVE AnswerInv'
    OBVIOUS
  <2>1. CASE Next
    BY <2>1, FrameNext, ReportNext DEF AnswerInv
  <2>2. CASE UNCHANGED vars
    BY <2>2 DEF vars, wire, AnswerInv, FrameKept, ReportFollowsAnswer, Accounted, Prefix, Body, Over
  <2> QED BY <2>1, <2>2
<1>3. AnswerInv => ReportFollowsAnswer
  BY DEF AnswerInv
<1> QED BY <1>1, <1>2, <1>3, TypeCorrect, PTL DEF Spec

-----------------------------------------------------------------------------
(* What is shown climbs.                                                   *)

LEMMA DivisionMonotonic ==
  ASSUME NEW x \in Nat, NEW y \in Nat, NEW T \in Nat \ {0}, x <= y
  PROVE  x \div T <= y \div T /\ x \div T \in Int /\ y \div T \in Int
<1>1. x = T * (x \div T) + (x % T) /\ 0 <= x % T /\ x % T < T /\ x \div T \in Int
  OBVIOUS
<1>2. y = T * (y \div T) + (y % T) /\ 0 <= y % T /\ y % T < T /\ y \div T \in Int
  OBVIOUS
<1> QED BY <1>1, <1>2, Z3

\* A larger share of the total is not a smaller percentage.
LEMMA PercentMonotonic ==
  ASSUME NEW a \in Nat, NEW b \in Nat, a <= b, Total # 0
  PROVE  Percent(a) <= Percent(b) /\ Percent(a) \in Int /\ Percent(b) \in Int
<1>1. a * 100 \in Nat /\ b * 100 \in Nat /\ a * 100 <= b * 100 /\ Total \in Nat \ {0}
  BY ConstantFacts
<1> QED BY <1>1, DivisionMonotonic DEF Percent

\* A line is printed only for progress, and for a step of it unless it is the last.
LEMMA ReportsFurther ==
  ASSUME reported \in 0 .. Total, NEW p \in 0 .. Total, Reports(p)
  PROVE  reported < p /\ (p < Total => Percent(p) >= Percent(reported) + Step)
<1>1. Total # 0 /\ p # reported /\ (p >= Total \/ Percent(p) >= Percent(reported) + Step)
  BY DEF Reports, Percent
<1>2. CASE p >= Total
  BY <1>1, <1>2, ConstantFacts
<1>3. CASE p < Total
  <2>1. Percent(p) >= Percent(reported) + Step
    BY <1>1, <1>3, ConstantFacts
  <2>2. ~(p <= reported)
    <3> SUFFICES ASSUME p <= reported PROVE FALSE
      OBVIOUS
    <3>1. Percent(p) <= Percent(reported) /\ Percent(p) \in Int /\ Percent(reported) \in Int
      BY <1>1, PercentMonotonic, ConstantFacts
    <3> QED BY <2>1, <3>1, ConstantFacts
  <2> QED BY <2>1, <2>2, ConstantFacts
<1> QED BY <1>2, <1>3, ConstantFacts

LEMMA PrintsClimb ==
  ASSUME ShownTypes, LinesClimb, front # "app", front' = front, NEW p \in 0 .. Total, Prints(p)
  PROVE  LinesClimb' /\ reported <= reported'
<1> USE DEF ShownTypes
<1>1. CASE ~Reports(p)
  BY <1>1, ConstantFacts DEF Prints, LinesClimb
<1>2. CASE Reports(p)
  <2>1. lines' = Append(lines, p) /\ reported' = p
    BY <1>2 DEF Prints
  <2>2. reported < p /\ (p < Total => Percent(p) >= Percent(reported) + Step)
    BY <1>2, ReportsFurther
  <2>3. /\ Len(lines) \in Nat /\ Len(lines') = Len(lines) + 1
        /\ lines'[Len(lines) + 1] = p
        /\ \A i \in 1 .. Len(lines) : lines'[i] = lines[i]
    BY <2>1, Appended
  <2>4. Len(lines) > 0 => lines[Len(lines)] = reported
    BY EmptySeq DEF LinesClimb
  <2>5. ASSUME NEW i \in 1 .. Len(lines'), i + 1 \in 1 .. Len(lines')
        PROVE  /\ lines'[i] < lines'[i + 1]
               /\ lines'[i + 1] < Total => Percent(lines'[i + 1]) >= Percent(lines'[i]) + Step
    <3>1. CASE i + 1 = Len(lines) + 1
      <4>1. i = Len(lines) /\ Len(lines) > 0 /\ i \in 1 .. Len(lines)
        BY <2>3, <2>5, <3>1
      <4>2. lines'[i] = reported /\ lines'[i + 1] = p
        BY <2>3, <2>4, <4>1
      <4> QED BY <2>2, <4>2
    <3>2. CASE i + 1 # Len(lines) + 1
      <4>1. i \in 1 .. Len(lines) /\ i + 1 \in 1 .. Len(lines)
        BY <2>3, <2>5, <3>2
      <4>2. lines'[i] = lines[i] /\ lines'[i + 1] = lines[i + 1]
        BY <2>3, <4>1
      <4> QED BY <4>1, <4>2 DEF LinesClimb
    <3> QED BY <3>1, <3>2
  <2>6. reported' = lines'[Len(lines')]
    BY <2>1, <2>3
  <2>7. reported <= reported'
    BY <2>1, <2>2, ConstantFacts
  <2> QED BY <2>5, <2>6, <2>7 DEF LinesClimb, Percent
<1> QED BY <1>1, <1>2

LEMMA ClimbsTail ==
  ASSUME NEW s \in Seq(Event), s # <<>>, Climbs(s)
  PROVE  /\ Climbs(Tail(s))
         /\ \A i \in 1 .. Len(Tail(s)) : Before(Head(s), Tail(s)[i])
         /\ \A i \in 1 .. Len(Tail(s)) : i + 1 \in 1 .. Len(s) /\ Tail(s)[i] = s[i + 1]
<1>1. /\ Len(s) \in Nat /\ Len(s) > 0 /\ Len(Tail(s)) = Len(s) - 1
      /\ Head(s) = s[1]
      /\ \A i \in 1 .. Len(s) - 1 : Tail(s)[i] = s[i + 1]
  BY HeadAndTail
<1> QED BY <1>1 DEF Climbs

LEMMA ClimbsAppend ==
  ASSUME NEW s \in Seq(Event), NEW e \in Event, Climbs(s),
         \A i \in 1 .. Len(s) : Before(s[i], e)
  PROVE  Climbs(Append(s, e))
<1>1. /\ Len(s) \in Nat /\ Len(Append(s, e)) = Len(s) + 1
      /\ Append(s, e)[Len(s) + 1] = e
      /\ \A i \in 1 .. Len(s) : Append(s, e)[i] = s[i]
  BY Appended
<1> SUFFICES ASSUME NEW i \in 1 .. Len(s) + 1, NEW j \in 1 .. Len(s) + 1, i < j
             PROVE  Before(Append(s, e)[i], Append(s, e)[j])
  BY <1>1 DEF Climbs
<1>2. CASE j = Len(s) + 1
  <2>1. i \in 1 .. Len(s)
    BY <1>1, <1>2
  <2> QED BY <1>1, <1>2, <2>1
<1>3. CASE j \in 1 .. Len(s)
  <2>1. i \in 1 .. Len(s)
    BY <1>1, <1>3
  <2> QED BY <1>1, <1>3, <2>1 DEF Climbs
<1> QED BY <1>1, <1>2, <1>3

\* An event that goes beyond what was reported climbs, whichever event it drives
\* out of a full bus.
LEMMA EmitsClimb ==
  ASSUME ShownTypes, EventsClimb, ~Over, NEW e \in Event, Emits(e), UNCHANGED seen,
         reported' \in Nat, reported <= reported',
         e.kind = "served" => reported < e.position /\ e.position <= reported' /\ ~Over',
         e.kind # "served" => Over'
  PROVE  EventsClimb'
<1> USE DEF ShownTypes
<1>1. \A i \in 1 .. Len(seen) : seen[i].kind = "served" /\ seen[i].position <= reported
                               /\ seen[i] \in Event
  BY ElementOfSeq DEF EventsClimb, Shown
<1>2. \A i \in 1 .. Len(bus) : bus[i].kind = "served" /\ bus[i].position <= reported
                              /\ bus[i] \in Event
  BY ElementOfSeq DEF EventsClimb, Shown
<1>3. ASSUME NEW f \in Event, f.kind = "served", f.position <= reported PROVE Before(f, e)
  BY <1>3, ConstantFacts DEF Before, Event
<1>4. ASSUME NEW s \in Seq(Event), Climbs(s), bus' = Append(s, e),
             \A i \in 1 .. Len(s) : \E j \in 1 .. Len(bus) : s[i] = bus[j]
      PROVE  EventsClimb'
  <2>1. /\ Len(s) \in Nat /\ Len(bus') = Len(s) + 1 /\ bus'[Len(s) + 1] = e
        /\ \A i \in 1 .. Len(s) : bus'[i] = s[i]
    BY <1>4, Appended
  <2>2. \A i \in 1 .. Len(s) : s[i].kind = "served" /\ s[i].position <= reported /\ s[i] \in Event
    BY <1>2, <1>4
  <2>3. Climbs(bus')
    BY <1>3, <1>4, <2>2, ClimbsAppend
  <2>4. ASSUME NEW i \in 1 .. Len(seen), NEW j \in 1 .. Len(bus') PROVE Before(seen[i], bus'[j])
    <3>1. CASE j = Len(s) + 1
      BY <1>1, <1>3, <2>1, <3>1
    <3>2. CASE j \in 1 .. Len(s)
      BY <1>4, <2>1, <3>2 DEF EventsClimb
    <3>3. j = Len(s) + 1 \/ j \in 1 .. Len(s)
      BY <2>1
    <3> QED BY <3>1, <3>2, <3>3
  <2>5. ASSUME NEW i \in 1 .. Len(bus')
        PROVE  /\ bus'[i].kind = "served" => bus'[i].position <= reported'
               /\ ~Over' => bus'[i].kind = "served"
    <3>1. CASE i = Len(s) + 1
      BY <2>1, <3>1
    <3>2. CASE i \in 1 .. Len(s)
      <4>1. bus'[i] = s[i]
        BY <2>1, <3>2
      <4>2. bus'[i].kind = "served" /\ bus'[i].position <= reported /\ bus'[i] \in Event
        BY <2>2, <3>2, <4>1
      <4>3. bus'[i].position \in Nat
        BY <4>2, ConstantFacts DEF Event
      <4> QED BY <4>2, <4>3, ConstantFacts
    <3>3. i = Len(s) + 1 \/ i \in 1 .. Len(s)
      BY <2>1
    <3> QED BY <3>1, <3>2, <3>3
  <2>6. ASSUME NEW i \in 1 .. Len(seen)
        PROVE  seen[i].kind = "served" /\ seen[i].position <= reported'
    <3>1. seen[i].kind = "served" /\ seen[i].position <= reported /\ seen[i] \in Event
      BY <1>1
    <3>2. seen[i].position \in Nat /\ reported \in Nat
      BY <3>1, ConstantFacts DEF Event
    <3> QED BY <3>1, <3>2
  <2> QED BY <2>3, <2>4, <2>5, <2>6 DEF EventsClimb, Shown
<1>5. CASE ~listening
  BY <1>1, <1>2, <1>5, ConstantFacts DEF Emits, EventsClimb, Shown, Event
<1>6. CASE listening /\ Len(bus) < Capacity
  <2>1. bus' = Append(bus, e)
    BY <1>6 DEF Emits
  <2> QED BY <1>4, <2>1 DEF EventsClimb
<1>7. CASE listening /\ ~(Len(bus) < Capacity)
  <2>1. bus' = Append(Tail(bus), e)
    BY <1>7 DEF Emits
  <2>2. bus # <<>>
    BY <1>7, ConstantFacts, EmptySeq
  <2>3. Tail(bus) \in Seq(Event) /\ Climbs(Tail(bus))
        /\ \A i \in 1 .. Len(Tail(bus)) : \E j \in 1 .. Len(bus) : Tail(bus)[i] = bus[j]
    BY <2>2, HeadAndTail, ClimbsTail DEF EventsClimb
  <2> QED BY <1>4, <2>1, <2>3
<1> QED BY <1>5, <1>6, <1>7

\* Events stay as they are while what was reported grows.
LEMMA StillShown ==
  ASSUME ShownTypes, EventsClimb, UNCHANGED <<seen, bus>>, reported' \in Nat,
         reported <= reported', ~Over' => ~Over
  PROVE  EventsClimb'
<1> USE DEF ShownTypes
<1>1. \A i \in 1 .. Len(seen) : seen[i].position \in Nat
  <2>1. \A i \in 1 .. Len(seen) : seen[i] \in Event
    BY ElementOfSeq
  <2> QED BY <2>1, ConstantFacts DEF Event
<1>2. \A i \in 1 .. Len(bus) : bus[i].position \in Nat
  <2>1. \A i \in 1 .. Len(bus) : bus[i] \in Event
    BY ElementOfSeq
  <2> QED BY <2>1, ConstantFacts DEF Event
<1>3. Shown(seen)' /\ Shown(bus)'
  BY <1>1, <1>2, ConstantFacts DEF EventsClimb, Shown
<1> QED BY <1>3 DEF EventsClimb, Climbs

\* The counter only grows: updates add to it.
LEMMA PositionGrows ==
  ASSUME served \in Nat, served' \in Nat, baseline \in Nat, baseline' = baseline,
         served <= served'
  PROVE  Position <= Position' /\ Position \in Nat /\ Position' \in Nat
<1> DEFINE Ahead(c) == IF c > baseline THEN c - baseline ELSE 0
           Upto(c) == IF Ahead(c) < Total THEN Ahead(c) ELSE Total
<1>1. Position = Upto(served) /\ Position' = Upto(served')
  BY DEF Position, Least, SaturatingSub
<1>2. \A c \in Nat : Ahead(c) \in Nat /\ Upto(c) \in Nat
  BY ConstantFacts
<1>3. ASSUME NEW c \in Nat, NEW d \in Nat, c <= d PROVE Upto(c) <= Upto(d)
  <2>1. Ahead(c) \in Nat /\ Ahead(d) \in Nat /\ Ahead(c) <= Ahead(d)
    BY <1>3
  <2> HIDE DEF Ahead
  <2> QED BY <2>1, ConstantFacts
<1> HIDE DEF Upto
<1> QED BY <1>1, <1>2, <1>3

LEMMA FoldsGrow ==
  ASSUME TypeOK, NEW r \in Requests, Folds(r)
  PROVE  served <= served'
<1>1. updates[r] \in Seq(Update) /\ updates[r] # <<>> /\ last[r] \in Nat /\ served \in Nat
  BY DEF TypeOK, ProviderTypes, Folds
<1>2. Head(updates[r]) \in Update
  BY <1>1, HeadAndTail
<1>3. Delta(Head(updates[r]), last[r]) \in Nat
  BY <1>1, <1>2 DEF Delta, SaturatingSub, Update
<1>4. served' = served + Delta(Head(updates[r]), last[r])
  BY DEF Folds
<1> QED BY <1>1, <1>3, <1>4

\* The flow's end: the last line, or the last event.
LEMMA FinishesClimb ==
  ASSUME TypeOK, ShownInv, at = "transfer", front' = front,
         NEW how \in Ends, Finishes(how)
  PROVE  ShownInv'
<1> USE DEF TypeOK, ShownInv
<1>1. at' = how /\ Over' /\ ~Over /\ at' # "offered" /\ at' # "transfer" /\ UNCHANGED <<listening, seen>>
  BY DEF Finishes, Over, Ends
<1>2. CounterAhead'
  BY <1>1 DEF CounterAhead
<1>3. CASE front = "app"
  <2>1. Emits(EndEvent) /\ UNCHANGED <<lines, reported>>
    BY <1>3 DEF Finishes
  <2>2. LinesClimb'
    BY <2>1 DEF LinesClimb, Percent
  <2>3. EndEvent \in Event /\ EndEvent.kind # "served" /\ reported' \in Nat /\ reported <= reported'
    BY <2>1, EventTypes, ConstantFacts DEF EndEvent, ShownTypes
  <2>4. EventsClimb'
    BY <1>1, <2>1, <2>3, EmitsClimb
  <2> QED BY <1>2, <2>2, <2>4
<1>4. CASE front # "app"
  <2>1. UNCHANGED <<bus, lagged>> /\ ((UNCHANGED <<lines, reported>>) \/ Prints(Total))
    BY <1>4 DEF Finishes
  <2>2. LinesClimb' /\ reported <= reported' /\ reported' \in Nat
    <3>1. CASE UNCHANGED <<lines, reported>>
      BY <3>1, ConstantFacts DEF LinesClimb, Percent, ShownTypes
    <3>2. CASE Prints(Total)
      <4>1. Total \in 0 .. Total
        BY ConstantFacts
      <4>2. LinesClimb' /\ reported <= reported'
        BY <1>4, <3>2, <4>1, PrintsClimb
      <4>3. reported' \in Nat
        BY <3>2, ConstantFacts DEF Prints, ShownTypes
      <4> QED BY <4>2, <4>3
    <3> QED BY <2>1, <3>1, <3>2
  <2>3. EventsClimb'
    BY <1>1, <2>1, <2>2, StillShown
  <2> QED BY <1>2, <2>2, <2>3
<1> QED BY <1>3, <1>4

\* An event taken from the bus is beyond all that were seen, and before the others.
LEMMA ForwardsClimb ==
  ASSUME ShownTypes, EventsClimb, bus # <<>>, seen' = Append(seen, Head(bus)),
         bus' = Tail(bus), UNCHANGED <<reported, at>>
  PROVE  EventsClimb'
<1> USE DEF ShownTypes
<1> DEFINE h == Head(bus)
<1>1. /\ h \in Event /\ bus' \in Seq(Event) /\ h = bus[1] /\ 1 \in 1 .. Len(bus)
      /\ Climbs(bus') /\ \A i \in 1 .. Len(bus') : Before(h, bus'[i])
      /\ \A i \in 1 .. Len(bus') : i + 1 \in 1 .. Len(bus) /\ bus'[i] = bus[i + 1]
  BY HeadAndTail, ClimbsTail DEF EventsClimb
<1>2. /\ Len(seen) \in Nat /\ Len(seen') = Len(seen) + 1 /\ seen'[Len(seen) + 1] = h
      /\ \A i \in 1 .. Len(seen) : seen'[i] = seen[i]
  BY <1>1, Appended
<1>3. \A i \in 1 .. Len(seen) : Before(seen[i], h)
  BY <1>1 DEF EventsClimb
<1>4. Climbs(seen')
  BY <1>1, <1>3, ClimbsAppend DEF EventsClimb
<1>5. \A i \in 1 .. Len(seen') : i = Len(seen) + 1 \/ i \in 1 .. Len(seen)
  BY <1>2
<1>6. ASSUME NEW i \in 1 .. Len(seen'), NEW j \in 1 .. Len(bus')
      PROVE  Before(seen'[i], bus'[j])
  <2>1. CASE i = Len(seen) + 1
    BY <1>1, <1>2, <2>1
  <2>2. CASE i \in 1 .. Len(seen)
    <3>1. j + 1 \in 1 .. Len(bus) /\ bus'[j] = bus[j + 1] /\ seen'[i] = seen[i]
      BY <1>1, <1>2, <2>2
    <3> QED BY <2>2, <3>1 DEF EventsClimb
  <2> QED BY <1>5, <2>1, <2>2
<1>7. Over' <=> Over
  BY DEF Over
<1>8. Shown(seen)' /\ Shown(bus)'
  <2>1. \A i \in 1 .. Len(bus') : \E j \in 1 .. Len(bus) : bus'[i] = bus[j]
    BY <1>1
  <2>2. \A i \in 1 .. Len(seen') :
          \/ \E j \in 1 .. Len(bus) : seen'[i] = bus[j]
          \/ \E j \in 1 .. Len(seen) : seen'[i] = seen[j]
    BY <1>1, <1>2, <1>5
  <2> QED BY <1>7, <2>1, <2>2 DEF EventsClimb, Shown
<1> QED BY <1>1, <1>4, <1>6, <1>8 DEF EventsClimb

LEMMA UnsubscribesClimb ==
  ASSUME EventsClimb, bus' = <<>>, UNCHANGED <<seen, reported, at>>
  PROVE  EventsClimb'
<1>1. Len(bus') = 0 /\ (Over' <=> Over)
  BY EmptySeq DEF Over
<1>2. \A i \in 1 .. Len(bus') : FALSE
  BY <1>1
<1> QED BY <1>1, <1>2 DEF EventsClimb, Shown, Climbs

LEMMA TicksClimb ==
  ASSUME TypeOK, ShownInv, Ticks
  PROVE  ShownInv'
<1> USE DEF TypeOK, ShownInv
<1>1. /\ at = "transfer" /\ UNCHANGED <<front, at, baseline, served, listening, seen>>
      /\ ~Over /\ ~Over'
  BY DEF Ticks, Receiving, provider, Over, Ends
<1>2. Position' = Position /\ Position \in 0 .. Total
  BY <1>1, PositionType DEF Position, FlowTypes, ProviderTypes
<1>3. CASE front = "plain"
  <2>1. Prints(Position) /\ UNCHANGED <<bus, lagged>>
    BY <1>3 DEF Ticks
  <2>2. LinesClimb' /\ reported <= reported'
    BY <1>1, <1>2, <1>3, <2>1, PrintsClimb
  <2>3. reported' \in Nat
    BY <1>2, <2>1, ConstantFacts DEF Prints, ShownTypes
  <2>4. EventsClimb'
    BY <1>1, <2>1, <2>2, <2>3, StillShown
  <2> QED BY <1>1, <1>3, <2>2, <2>4 DEF CounterAhead
<1>4. CASE front = "app" /\ Position = reported
  <2>1. UNCHANGED <<bus, lagged, lines, reported>>
    BY <1>4 DEF Ticks
  <2>2. LinesClimb'
    BY <1>1, <2>1 DEF LinesClimb, Percent
  <2>3. EventsClimb'
    BY <1>1, <2>1, ConstantFacts, StillShown DEF ShownTypes
  <2>4. reported' <= Position'
    BY <1>2, <1>4, <2>1, ConstantFacts
  <2> QED BY <1>1, <2>2, <2>3, <2>4 DEF CounterAhead
<1>5. CASE front = "app" /\ Position # reported
  <2>1. Emits(ProgressEvent(Position)) /\ reported' = Position /\ UNCHANGED lines
    BY <1>5 DEF Ticks
  <2>2. LinesClimb'
    BY <1>1, <1>5, <2>1, EmptySeq DEF LinesClimb
  <2>3. reported < Position /\ reported' \in Nat /\ reported <= reported'
    BY <1>1, <1>2, <1>5, <2>1, ConstantFacts DEF CounterAhead, ShownTypes
  <2>4. /\ ProgressEvent(Position) \in Event
        /\ ProgressEvent(Position).kind = "served"
        /\ ProgressEvent(Position).position = Position
    BY <1>2, EventTypes DEF ProgressEvent
  <2>5. EventsClimb'
    BY <1>1, <2>1, <2>3, <2>4, EmitsClimb, ConstantFacts, <1>2
  <2>6. reported' <= Position'
    BY <1>2, <2>1, ConstantFacts
  <2> QED BY <1>1, <2>2, <2>5, <2>6 DEF CounterAhead
<1> QED BY <1>3, <1>4, <1>5 DEF FlowTypes, Fronts

LEMMA ShownNext ==
  ASSUME TypeOK, TypeOK', ShownInv, Next
  PROVE  ShownInv'
<1> USE DEF TypeOK, ShownInv
<1>1. CASE Begins
  <2>1. /\ at = "offered" /\ at' = "transfer" /\ UNCHANGED <<front, reported, lines, bus, seen>>
        /\ ~Over /\ ~Over' /\ reported = 0
    BY <1>1 DEF Begins, shown, Over, Ends, CounterAhead
  <2>2. LinesClimb'
    BY <2>1 DEF LinesClimb, Percent
  <2>3. EventsClimb'
    BY <2>1, ConstantFacts, StillShown DEF ShownTypes
  <2>4. Position' \in 0 .. Total
    <3>1. baseline' = served /\ served' = served /\ served \in Nat
      BY <1>1 DEF Begins, provider, ProviderTypes
    <3>2. Position' = IF 0 < Total THEN 0 ELSE Total
      BY <3>1 DEF Position, Least, SaturatingSub
    <3> QED BY <3>2, ConstantFacts
  <2> QED BY <2>1, <2>2, <2>3, <2>4, ConstantFacts DEF CounterAhead
<1>2. CASE \/ Interrupts \/ Answers \/ PeerCloses \/ ReadsPrefix
           \/ ReadsRest /\ at' = at /\ UNCHANGED shown
           \/ \E r \in Requests : Serves(r) \/ EndsRequest(r) \/ Folds(r)
  <2>1. UNCHANGED <<front, at, reported, lines, bus, seen, baseline>> /\ (Over' <=> Over)
    BY <1>2 DEF Interrupts, Answers, PeerCloses, ReadsPrefix, ReadsRest, Serves, EndsRequest,
                Folds, shown, Over
  <2>2. served <= served'
    <3>1. CASE \E r \in Requests : Folds(r)
      BY <3>1, FoldsGrow
    <3>2. CASE ~\E r \in Requests : Folds(r)
      <4>1. served' = served
        BY <1>2, <3>2 DEF Interrupts, Answers, PeerCloses, ReadsPrefix, ReadsRest, Serves,
                          EndsRequest, provider
      <4> QED BY <4>1 DEF ProviderTypes
    <3> QED BY <3>1, <3>2
  <2>3. LinesClimb'
    BY <2>1 DEF LinesClimb, Percent
  <2>4. EventsClimb'
    BY <2>1, ConstantFacts, StillShown DEF ShownTypes
  <2>5. Position <= Position' /\ Position \in Nat /\ Position' \in Nat
    BY <2>1, <2>2, PositionGrows DEF ProviderTypes, FlowTypes
  <2> QED BY <2>1, <2>3, <2>4, <2>5, ConstantFacts DEF CounterAhead, ShownTypes
<1>3. CASE TakesInterrupt \/ ReadsBody \/ ReadsEnd \/ (ReadsRest /\ Finishes("failed"))
  <2>1. at = "transfer" /\ front' = front
    BY <1>3 DEF TakesInterrupt, ReadsBody, ReadsEnd, ReadsRest, Receiving
  <2>2. \E how \in Ends : Finishes(how)
    BY <1>3 DEF TakesInterrupt, ReadsBody, ReadsEnd, Ends
  <2> QED BY <2>1, <2>2, FinishesClimb
<1>4. CASE Forwards
  <2>1. UNCHANGED <<front, at, baseline, served, reported, lines>> /\ (Over' <=> Over)
    BY <1>4 DEF Forwards, provider, Over
  <2>2. LinesClimb' /\ CounterAhead'
    BY <2>1 DEF LinesClimb, Percent, CounterAhead, Position
  <2>3. CASE UNCHANGED <<seen, bus>>
    BY <2>1, <2>2, <2>3, ConstantFacts, StillShown DEF ShownTypes
  <2>4. CASE bus # <<>> /\ seen' = Append(seen, Head(bus)) /\ bus' = Tail(bus)
    BY <2>1, <2>2, <2>4, ForwardsClimb
  <2> QED BY <1>4, <2>3, <2>4 DEF Forwards
<1>5. CASE Unsubscribes
  <2>1. UNCHANGED <<front, at, baseline, served, reported, lines, seen>> /\ bus' = <<>>
    BY <1>5 DEF Unsubscribes, provider
  <2>2. LinesClimb' /\ CounterAhead'
    BY <2>1 DEF LinesClimb, Percent, CounterAhead, Position
  <2> QED BY <2>1, <2>2, UnsubscribesClimb
<1>6. CASE Ticks
  BY <1>6, TicksClimb
<1>7. ReadsRest => (ReadsRest /\ Finishes("failed")) \/ (ReadsRest /\ at' = at /\ UNCHANGED shown)
  BY DEF ReadsRest
<1> QED BY <1>1, <1>2, <1>3, <1>4, <1>5, <1>6, <1>7 DEF Next, Flow

LEMMA ShownInit == Init => ShownInv
<1> SUFFICES ASSUME Init PROVE ShownInv
  OBVIOUS
<1>1. Len(<<>>) = 0
  BY EmptySeq
<1>2. lines = <<>> /\ seen = <<>> /\ bus = <<>> /\ reported = 0 /\ at = "offered"
  BY DEF Init
<1>3. \A i \in 1 .. Len(<<>>) : FALSE
  BY <1>1
<1>4. LinesClimb
  BY <1>2, <1>3 DEF LinesClimb
<1>5. EventsClimb
  BY <1>2, <1>3 DEF EventsClimb, Climbs, Shown
<1>6. CounterAhead
  BY <1>2 DEF CounterAhead
<1> QED BY <1>4, <1>5, <1>6 DEF ShownInv

LEMMA ShownClimbsFromInv ==
  ASSUME ShownTypes, ShownInv
  PROVE  ShownClimbs
<1> USE DEF ShownTypes, ShownInv
<1>1. Len(lines) \in Nat /\ Len(seen) \in Nat
  BY LenProperties
<1>2. \A i \in 1 .. Len(lines) : lines[i] \in 0 .. Total
  BY ElementOfSeq
<1>3. ASSUME NEW i \in 1 .. Len(lines) - 1
      PROVE  /\ lines[i] < lines[i + 1]
             /\ lines[i + 1] < Total =>
                  (lines[i + 1] * 100) \div Total >= (lines[i] * 100) \div Total + Step
  <2>1. i \in 1 .. Len(lines) /\ i + 1 \in 1 .. Len(lines)
    BY <1>1
  <2> QED BY <2>1 DEF LinesClimb, Percent
<1>4. ASSUME NEW i \in 1 .. Len(seen) - 1
      PROVE  /\ seen[i].kind = "served"
             /\ seen[i + 1].kind = "served" => seen[i].position < seen[i + 1].position
  <2>1. i \in 1 .. Len(seen) /\ i + 1 \in 1 .. Len(seen) /\ i < i + 1
    BY <1>1
  <2> QED BY <2>1 DEF EventsClimb, Climbs, Before
<1> QED BY <1>2, <1>3, <1>4 DEF ShownClimbs

\* What is printed climbs by steps to the total, and an app that lagged misses
\* events but sees none twice, none out of order and none after the last one
\* (ui.rs:170-200 of the command line, session.rs:381-384 and events.rs of the
\* bridge).
THEOREM ShownClimbing == Spec => []ShownClimbs
<1>1. TypeOK /\ TypeOK' /\ ShownInv /\ [Next]_vars => ShownInv'
  <2> SUFFICES ASSUME TypeOK, TypeOK', ShownInv, [Next]_vars PROVE ShownInv'
    OBVIOUS
  <2>1. CASE Next
    BY <2>1, ShownNext
  <2>2. CASE UNCHANGED vars
    BY <2>2 DEF vars, provider, shown, ShownInv, LinesClimb, Percent, EventsClimb, Climbs,
                Shown, CounterAhead, Position, Over
  <2> QED BY <2>1, <2>2
<1>2. TypeOK /\ ShownInv => ShownClimbs
  BY ShownClimbsFromInv DEF TypeOK
<1> QED BY <1>1, <1>2, ShownInit, TypeCorrect, PTL DEF Spec

-----------------------------------------------------------------------------
(* The counter is the sum of what the requests account for.                *)

\* The folds of MapThenSumSet: what is left of a set, and the sums of a function
\* over the sets that are left.
Pick(s) == CHOOSE x \in s : TRUE
Rest(s) == s \ {Pick(s)}
IsSums(sums, f, D) == sums = [s \in D |-> IF s = {} THEN 0 ELSE f[Pick(s)] + sums[Rest(s)]]
Sums(f) == CHOOSE sums : IsSums(sums, f, SUBSET Requests)

\* A set of naturals that has a member has a least one.
LEMMA LeastNatural ==
  ASSUME NEW T \in SUBSET Nat, T # {}
  PROVE  \E x \in T : \A y \in T : x <= y
<1> DEFINE Less == {pair \in Nat \X Nat : pair[1] < pair[2]}
<1>1. IsWellFoundedOn(Less, Nat)
  BY NatLessThanWellFounded DEF OpToRel
<1>2. \A x, y \in Nat : y < x => <<y, x>> \in Less
  OBVIOUS
<1> HIDE DEF Less
<1>3. PICK x \in T : \A y \in T : ~(<<y, x>> \in Less)
  BY <1>1, WFMin
<1>4. ASSUME NEW y \in T PROVE x <= y
  <2>1. ~(y < x)
    BY <1>2, <1>3
  <2> QED BY <2>1
<1> QED BY <1>4

\* Sizes of what is left of a set of requests.
LEMMA RestIsSmaller ==
  ASSUME NEW s \in SUBSET Requests
  PROVE  /\ Cardinality(s) \in Nat /\ (Cardinality(s) = 0 <=> s = {})
         /\ Rest(s) \in SUBSET Requests
         /\ s # {} => Pick(s) \in s /\ Cardinality(Rest(s)) = Cardinality(s) - 1
<1>1. IsFiniteSet(s)
  BY TransferAssumption, FS_Subset
<1>2. Cardinality(s) \in Nat /\ (Cardinality(s) = 0 <=> s = {})
  BY <1>1, FS_CardinalityType, FS_EmptySet
<1>3. s # {} => Pick(s) \in s
  BY DEF Pick
<1>4. Pick(s) \in s => Cardinality(Rest(s)) = Cardinality(s) - 1
  BY <1>1, FS_RemoveElement DEF Rest
<1> QED BY <1>2, <1>3, <1>4 DEF Rest

\* Induction over the sets of requests, without a predicate: some member of a
\* collection of them is empty or has lost its rest.
LEMMA SmallestSet ==
  ASSUME NEW C \in SUBSET SUBSET Requests, C # {}
  PROVE  \E s \in C : s = {} \/ Rest(s) \notin C
<1> DEFINE sizes == {Cardinality(s) : s \in C}
<1>1. sizes \in SUBSET Nat /\ sizes # {}
  BY RestIsSmaller
<1>2. PICK n \in sizes : \A m \in sizes : n <= m
  <2> HIDE DEF sizes
  <2> QED BY <1>1, LeastNatural
<1>3. PICK s \in C : Cardinality(s) = n
  BY <1>2
<1>4. CASE s # {}
  <2>1. Cardinality(Rest(s)) = n - 1 /\ n \in Nat
    BY <1>3, <1>4, RestIsSmaller
  <2>2. n - 1 \notin sizes
    <3> HIDE DEF sizes
    <3> QED BY <1>1, <1>2, <2>1
  <2> QED BY <1>3, <2>1, <2>2
<1> QED BY <1>3, <1>4

\* The sums are defined: larger sets rest on smaller ones.
LEMMA SumsExist ==
  ASSUME NEW f
  PROVE  IsSums(Sums(f), f, SUBSET Requests)
<1> DEFINE Upto(n) == {s \in SUBSET Requests : Cardinality(s) <= n}
           missing == {n \in Nat : ~\E sums : IsSums(sums, f, Upto(n))}
<1>1. missing = {}
  <2> SUFFICES ASSUME missing # {} PROVE FALSE
    OBVIOUS
  <2>1. PICK n \in missing : \A m \in missing : n <= m
    <3>1. missing \in SUBSET Nat
      OBVIOUS
    <3> HIDE DEF missing
    <3> QED BY <3>1, LeastNatural
  <2>2. n \in Nat /\ ~\E sums : IsSums(sums, f, Upto(n))
    OBVIOUS
  <2>3. CASE n = 0
    <3>1. \A s \in Upto(0) : s = {}
      BY RestIsSmaller
    <3>2. IsSums([s \in Upto(0) |-> 0], f, Upto(0))
      <4> HIDE DEF Upto
      <4> QED BY <3>1 DEF IsSums
    <3> QED BY <2>2, <2>3, <3>2
  <2>4. CASE n > 0
    <3>1. n - 1 \in Nat /\ n - 1 \notin missing
      <4> HIDE DEF missing
      <4> QED BY <2>1, <2>2, <2>4
    <3>2. PICK sums : IsSums(sums, f, Upto(n - 1))
      BY <3>1
    <3>3. \A s \in Upto(n) : s # {} => Rest(s) \in Upto(n - 1) /\ Rest(s) \in Upto(n)
      BY <2>2, RestIsSmaller
    <3>4. Upto(n - 1) \subseteq Upto(n)
      BY <2>2, RestIsSmaller
    <3> DEFINE more == [s \in Upto(n) |-> IF s = {} THEN 0 ELSE f[Pick(s)] + sums[Rest(s)]]
    <3> HIDE DEF Upto, missing
    <3>5. \A s \in Upto(n) : s # {} => more[Rest(s)] = sums[Rest(s)]
      BY <3>2, <3>3 DEF IsSums
    <3>6. more = [s \in Upto(n) |-> IF s = {} THEN 0 ELSE f[Pick(s)] + more[Rest(s)]]
      BY <3>5
    <3>7. IsSums(more, f, Upto(n))
      BY <3>6 DEF IsSums
    <3> QED BY <2>2, <3>7
  <2> QED BY <2>2, <2>3, <2>4
<1>2. Cardinality(Requests) \in Nat /\ Upto(Cardinality(Requests)) = SUBSET Requests
  BY RestIsSmaller, TransferAssumption, FS_Subset
<1>3. \E sums : IsSums(sums, f, SUBSET Requests)
  BY <1>1, <1>2
<1> QED BY <1>3 DEF Sums

LEMMA SumsStep ==
  ASSUME NEW f, NEW s \in SUBSET Requests
  PROVE  Sums(f)[s] = IF s = {} THEN 0 ELSE f[Pick(s)] + Sums(f)[Rest(s)]
BY SumsExist DEF IsSums

LEMMA SumsType ==
  ASSUME NEW f \in [Requests -> Nat]
  PROVE  \A s \in SUBSET Requests : Sums(f)[s] \in Nat
<1> DEFINE C == {s \in SUBSET Requests : Sums(f)[s] \notin Nat}
<1> SUFFICES ASSUME C # {} PROVE FALSE
  OBVIOUS
<1>1. PICK s \in C : s = {} \/ Rest(s) \notin C
  <2>1. C \in SUBSET SUBSET Requests
    OBVIOUS
  <2> HIDE DEF C
  <2> QED BY <2>1, SmallestSet
<1>2. s \in SUBSET Requests /\ Sums(f)[s] \notin Nat
  OBVIOUS
<1>3. s # {} /\ f[Pick(s)] \in Nat /\ Rest(s) \in SUBSET Requests
  BY <1>2, SumsStep, RestIsSmaller
<1>4. Sums(f)[Rest(s)] \in Nat
  BY <1>1, <1>3
<1> QED BY <1>2, <1>3, <1>4, SumsStep

\* One request that accounts for d more makes the sum larger by d.
LEMMA SumsChange ==
  ASSUME NEW f \in [Requests -> Nat], NEW r \in Requests, NEW d \in Nat
  PROVE  Sums([f EXCEPT ![r] = @ + d])[Requests] = Sums(f)[Requests] + d
<1> DEFINE g == [f EXCEPT ![r] = @ + d]
<1> DEFINE Grown(s) == Sums(f)[s] + (IF r \in s THEN d ELSE 0)
           C == {s \in SUBSET Requests : Sums(g)[s] # Grown(s)}
<1>1. C = {}
  <2> SUFFICES ASSUME C # {} PROVE FALSE
    OBVIOUS
  <2>1. PICK s \in C : s = {} \/ Rest(s) \notin C
    <3>1. C \in SUBSET SUBSET Requests
      OBVIOUS
    <3> HIDE DEF C
    <3> QED BY <3>1, SmallestSet
  <2>2. s \in SUBSET Requests /\ Sums(g)[s] # Grown(s)
    OBVIOUS
  <2>3. s # {} /\ Pick(s) \in Requests /\ Pick(s) \in s /\ Rest(s) \in SUBSET Requests
    <3>1. Sums(f)[{}] = 0 /\ Sums(g)[{}] = 0
      BY SumsStep
    <3>2. Grown({}) = 0
      BY <3>1
    <3>3. s # {}
      BY <2>2, <3>1, <3>2
    <3> QED BY <2>2, <3>3, RestIsSmaller
  <2>4. Sums(g)[Rest(s)] = Grown(Rest(s))
    BY <2>1, <2>3
  <2>5. Sums(f)[Rest(s)] \in Nat /\ f[Pick(s)] \in Nat
    BY <2>3, SumsType
  <2>6. Sums(f)[s] = f[Pick(s)] + Sums(f)[Rest(s)] /\ Sums(g)[s] = g[Pick(s)] + Sums(g)[Rest(s)]
    BY <2>2, <2>3, SumsStep
  <2>7. CASE r = Pick(s)
    <3>1. r \notin Rest(s) /\ r \in s /\ g[Pick(s)] = f[Pick(s)] + d
      BY <2>3, <2>7 DEF Rest
    <3> QED BY <2>2, <2>4, <2>5, <2>6, <3>1
  <2>8. CASE r # Pick(s)
    <3>1. (r \in Rest(s) <=> r \in s) /\ g[Pick(s)] = f[Pick(s)]
      BY <2>3, <2>8 DEF Rest
    <3> QED BY <2>2, <2>4, <2>5, <2>6, <3>1
  <2> QED BY <2>7, <2>8
<1>2. Sums(g)[Requests] = Grown(Requests)
  BY <1>1
<1> QED BY <1>2

LEMMA SumOfNothing ==
  Sums([r \in Requests |-> 0])[Requests] = 0
<1> DEFINE f == [r \in Requests |-> 0]
           C == {s \in SUBSET Requests : Sums(f)[s] # 0}
<1> SUFFICES ASSUME C # {} PROVE FALSE
  OBVIOUS
<1>1. PICK s \in C : s = {} \/ Rest(s) \notin C
  <2>1. C \in SUBSET SUBSET Requests
    OBVIOUS
  <2> HIDE DEF C
  <2> QED BY <2>1, SmallestSet
<1>2. s \in SUBSET Requests /\ Sums(f)[s] # 0
  OBVIOUS
<1> HIDE DEF f
<1>3. s # {} /\ Pick(s) \in Requests /\ Rest(s) \in SUBSET Requests
  BY <1>2, SumsStep, RestIsSmaller
<1>4. f[Pick(s)] = 0 /\ Sums(f)[Rest(s)] = 0
  BY <1>1, <1>3 DEF f
<1> QED BY <1>2, <1>3, <1>4, SumsStep

\* MapThenSumSet is the sum over all the requests.
LEMMA SumIsMapThenSum ==
  MapThenSumSet(LAMBDA r : told[r], Requests) = Sums(told)[Requests]
BY DEF MapThenSumSet, MapThenFoldSet, Sums, IsSums, Pick, Rest

\* What a request tells of comes after all it told of before.
LEMMA TellsInOrder ==
  ASSUME ProviderTypes, NEW r \in open, NEW kind \in Kinds, NEW bytes \in Nat,
         ToldInOrder(r), Tells(r, kind, bytes), last' = last,
         kind # "progress" => r \notin open',
         offset'[r] \in Nat, told[r] <= offset'[r],
         kind # "aborted" => told[r] <= bytes /\ bytes <= offset'[r]
  PROVE  ToldInOrder(r)' /\ Counted' = Counted
<1> USE DEF ProviderTypes
<1> DEFINE q == updates[r]
           u == [kind |-> kind, bytes |-> bytes]
           n == Len(q)
<1>1. r \in Requests /\ q \in Seq(Update) /\ n \in Nat /\ last[r] \in Nat /\ told[r] \in Nat /\ u \in Update
  BY LenProperties DEF Update
<1>2. /\ updates' = [updates EXCEPT ![r] = Append(q, u)]
      /\ told' = [told EXCEPT ![r] = IF kind = "aborted" THEN @ ELSE bytes]
  BY DEF Tells
<1>3. updates'[r] = Append(q, u) /\ told'[r] = IF kind = "aborted" THEN told[r] ELSE bytes
  BY <1>1, <1>2
<1>4. /\ Len(updates'[r]) = n + 1 /\ updates'[r][n + 1] = u
      /\ \A i \in 1 .. n : updates'[r][i] = q[i]
  BY <1>1, <1>3, Appended
<1>5. /\ \A i \in 1 .. n : q[i].kind = "progress"
      /\ \A i \in 1 .. n : (IF i = 1 THEN last[r] ELSE q[i - 1].bytes) <= q[i].bytes
      /\ told[r] = IF n = 0 THEN last[r] ELSE q[n].bytes
  <2>1. \A i \in 1 .. n : q[i].kind = "progress" /\ Reached(r, i - 1) <= q[i].bytes
    BY DEF ToldInOrder
  <2>2. told[r] = Reached(r, n)
    BY <1>1, <2>1 DEF ToldInOrder
  <2> QED BY <1>1, <2>1, <2>2 DEF Reached
<1>6. told'[r] <= offset'[r]
  BY <1>1, <1>3
<1>7. ASSUME NEW i \in 1 .. n + 1
      PROVE  /\ updates'[r][i].kind = "progress" \/ (i = n + 1 /\ r \notin open')
             /\ updates'[r][i].kind # "aborted" =>
                  (IF i = 1 THEN last[r] ELSE updates'[r][i - 1].bytes) <= updates'[r][i].bytes
  <2>1. CASE i \in 1 .. n
    <3>1. updates'[r][i] = q[i] /\ (i # 1 => updates'[r][i - 1] = q[i - 1])
      BY <1>1, <1>4, <2>1
    <3> QED BY <1>5, <2>1, <3>1
  <2>2. CASE i = n + 1
    <3>1. updates'[r][i] = u /\ (i # 1 => updates'[r][i - 1] = q[n])
      BY <1>1, <1>4, <2>2
    <3>2. (IF i = 1 THEN last[r] ELSE updates'[r][i - 1].bytes) = told[r]
      BY <1>1, <1>5, <2>2, <3>1
    <3> QED BY <2>2, <3>1, <3>2
  <2> QED BY <1>1, <2>1, <2>2
<1>8. told'[r] = IF updates'[r][n + 1].kind = "aborted"
                 THEN (IF n = 0 THEN last[r] ELSE updates'[r][n].bytes)
                 ELSE updates'[r][n + 1].bytes
  <2>1. n # 0 => updates'[r][n] = q[n]
    BY <1>1, <1>4
  <2> QED BY <1>3, <1>4, <1>5, <2>1
<1>9. ToldInOrder(r)'
  <2> HIDE DEF q, u, n
  <2>1. Len(updates'[r]) = n + 1 /\ n + 1 # 0 /\ (n + 1) - 1 = n /\ (n = 0 <=> (n + 1) - 1 = 0) /\ last'[r] = last[r]
    BY <1>1, <1>4
  <2>2. ASSUME NEW i \in 1 .. Len(updates'[r])
        PROVE  /\ updates'[r][i].kind = "progress" \/ (i = Len(updates'[r]) /\ r \notin open')
               /\ updates'[r][i].kind # "aborted" =>
                    (IF i - 1 = 0 THEN last'[r] ELSE updates'[r][i - 1].bytes) <= updates'[r][i].bytes
    <3>1. i \in 1 .. n + 1 /\ (i - 1 = 0 <=> i = 1)
      BY <1>1, <2>1
    <3> QED BY <1>7, <2>1, <3>1
  <2>3. told'[r] = IF Len(updates'[r]) # 0 /\ updates'[r][Len(updates'[r])].kind = "aborted"
                   THEN (IF Len(updates'[r]) - 1 = 0 THEN last'[r]
                         ELSE updates'[r][Len(updates'[r]) - 1].bytes)
                   ELSE (IF Len(updates'[r]) = 0 THEN last'[r]
                         ELSE updates'[r][Len(updates'[r])].bytes)
    BY <1>8, <2>1
  <2> QED BY <1>6, <2>2, <2>3 DEF ToldInOrder, Reached
<1>10. Counted' = Counted
  <2>1. ASSUME NEW s \in Requests
        PROVE  (IF updates'[s] = <<>> THEN told'[s] ELSE last'[s])
                 = IF updates[s] = <<>> THEN told[s] ELSE last[s]
    <3>1. CASE s = r
      <4>1. updates'[r] # <<>> /\ (q = <<>> => n = 0)
        BY <1>1, <1>4, EmptySeq
      <4> QED BY <1>5, <3>1, <4>1
    <3>2. CASE s # r
      BY <1>1, <1>2, <3>2
    <3> QED BY <3>1, <3>2
  <2> QED BY <2>1 DEF Counted
<1> QED BY <1>9, <1>10

\* The task of a request takes the first of its updates and adds what is new in it.
LEMMA FoldsInOrder ==
  ASSUME TypeOK, NEW r \in Requests, ToldInOrder(r), Folds(r)
  PROVE  /\ ToldInOrder(r)'
         /\ Delta(Head(updates[r]), last[r]) \in Nat
         /\ Counted' = [Counted EXCEPT ![r] = @ + Delta(Head(updates[r]), last[r])]
<1> USE DEF TypeOK, ProviderTypes
<1> DEFINE q == updates[r]
           u == Head(q)
           n == Len(q)
           d == Delta(u, last[r])
<1>1. q \in Seq(Update) /\ q # <<>> /\ last[r] \in Nat /\ told[r] \in Nat
  BY DEF Folds
<1>2. /\ u \in Update /\ n \in Nat /\ n > 0 /\ Len(Tail(q)) = n - 1 /\ u = q[1]
      /\ \A i \in 1 .. n - 1 : Tail(q)[i] = q[i + 1]
      /\ Tail(q) \in Seq(Update)
  BY <1>1, HeadAndTail
<1>3. /\ updates' = [updates EXCEPT ![r] = Tail(q)]
      /\ last' = [last EXCEPT ![r] = IF u.kind = "progress" THEN u.bytes ELSE @]
      /\ UNCHANGED <<offset, open, told>>
  BY DEF Folds
<1>4. updates'[r] = Tail(q) /\ last'[r] = IF u.kind = "progress" THEN u.bytes ELSE last[r]
  BY <1>3
<1>5. \A i \in 1 .. n : q[i] \in Update
  BY <1>1, ElementOfSeq
<1>6. /\ \A i \in 1 .. n : q[i].kind = "progress" \/ (i = n /\ r \notin open)
      /\ \A i \in 1 .. n : q[i].kind # "aborted" =>
           (IF i = 1 THEN last[r] ELSE q[i - 1].bytes) <= q[i].bytes
      /\ told[r] = IF q[n].kind = "aborted" THEN (IF n = 1 THEN last[r] ELSE q[n - 1].bytes)
                   ELSE q[n].bytes
  <2>1. \A i \in 1 .. n : q[i].kind # "aborted" => Reached(r, i - 1) <= q[i].bytes
    BY DEF ToldInOrder
  <2>2. \A i \in 1 .. n : q[i].kind = "progress" \/ (i = n /\ r \notin open)
    BY DEF ToldInOrder
  <2>3. n # 0 => told[r] = IF n # 0 /\ q[n].kind = "aborted" THEN Reached(r, n - 1) ELSE Reached(r, n)
    BY DEF ToldInOrder
  <2>4. /\ \A i \in 1 .. n : Reached(r, i - 1) = IF i = 1 THEN last[r] ELSE q[i - 1].bytes
        /\ Reached(r, n) = q[n].bytes
        /\ Reached(r, n - 1) = IF n = 1 THEN last[r] ELSE q[n - 1].bytes
    <3>1. n # 0 /\ (n - 1 = 0 <=> n = 1) /\ \A i \in 1 .. n : i - 1 = 0 <=> i = 1
      <4> HIDE DEF q, u
      <4> QED BY <1>2
    <3> QED BY <3>1 DEF Reached
  <2>5. n # 0
    <3> HIDE DEF q, u
    <3> QED BY <1>2
  <2> QED BY <2>1, <2>2, <2>3, <2>4, <2>5
<1>7. /\ u.kind \in Kinds /\ u.bytes \in Nat
      /\ u.kind # "aborted" => last[r] <= u.bytes /\ d = u.bytes - last[r]
      /\ u.kind = "aborted" => d = 0
  <2>1. u.kind \in Kinds /\ u.bytes \in Nat
    BY <1>2 DEF Update
  <2>2. u.kind # "aborted" => last[r] <= u.bytes
    <3> HIDE DEF q, u, n
    <3>1. 1 \in 1 .. n
      BY <1>2
    <3> QED BY <1>2, <1>6, <3>1
  <2> QED BY <1>1, <2>1, <2>2 DEF Delta, SaturatingSub
<1>8. n # 1 => u.kind = "progress" /\ last'[r] = q[1].bytes
  <2> HIDE DEF q, u, n
  <2>1. 1 \in 1 .. n
    BY <1>2
  <2> QED BY <1>2, <1>4, <1>6, <2>1
<1>9. ToldInOrder(r)'
  <2> HIDE DEF q, u, n, d
  <2>1. Len(updates'[r]) = n - 1 /\ \A i \in 1 .. n - 1 : updates'[r][i] = q[i + 1]
    BY <1>2, <1>4
  <2>2. ASSUME NEW i \in 1 .. Len(updates'[r])
        PROVE  /\ updates'[r][i].kind = "progress" \/ (i = Len(updates'[r]) /\ r \notin open')
               /\ updates'[r][i].kind # "aborted" =>
                    (IF i - 1 = 0 THEN last'[r] ELSE updates'[r][i - 1].bytes) <= updates'[r][i].bytes
    <3>1. i \in 1 .. n - 1 /\ i + 1 \in 1 .. n /\ n # 1 /\ updates'[r][i] = q[i + 1]
      BY <1>2, <2>1
    <3>2. (IF i - 1 = 0 THEN last'[r] ELSE updates'[r][i - 1].bytes) = q[i].bytes
      <4>1. CASE i = 1
        BY <1>8, <3>1, <4>1
      <4>2. CASE i # 1
        <5>1. i - 1 \in 1 .. n - 1 /\ (i - 1) + 1 = i
          BY <1>2, <3>1, <4>2
        <5> QED BY <2>1, <4>2, <5>1
      <4> QED BY <4>1, <4>2
    <3>3. q[i + 1].kind = "progress" \/ (i + 1 = n /\ r \notin open)
      BY <1>6, <3>1
    <3>4. q[i + 1].kind # "aborted" => q[i].bytes <= q[i + 1].bytes
      <4>1. i + 1 # 1 /\ (i + 1) - 1 = i
        BY <3>1
      <4> QED BY <1>6, <3>1, <4>1
    <3>5. i + 1 = n => i = Len(updates'[r])
      BY <1>2, <2>1, <3>1
    <3> QED BY <1>3, <3>1, <3>2, <3>3, <3>4, <3>5
  <2>3. Len(updates'[r]) # 0 \/ r \in open' =>
          told'[r] = IF Len(updates'[r]) # 0 /\ updates'[r][Len(updates'[r])].kind = "aborted"
                     THEN (IF Len(updates'[r]) - 1 = 0 THEN last'[r]
                           ELSE updates'[r][Len(updates'[r]) - 1].bytes)
                     ELSE (IF Len(updates'[r]) = 0 THEN last'[r]
                           ELSE updates'[r][Len(updates'[r])].bytes)
    <3>1. CASE n = 1
      <4>1. Len(updates'[r]) = 0 /\ (r \in open => u.kind = "progress" /\ told[r] = u.bytes)
        BY <1>2, <1>6, <2>1, <3>1
      <4> QED BY <1>3, <1>4, <4>1
    <3>2. CASE n # 1
      <4>1. /\ Len(updates'[r]) # 0 /\ updates'[r][Len(updates'[r])] = q[n]
            /\ Len(updates'[r]) - 1 = 0 <=> n = 2
        <5>1. n - 1 \in 1 .. n - 1 /\ (n - 1) + 1 = n /\ n - 1 # 0 /\ ((n - 1) - 1 = 0 <=> n = 2)
          BY <1>2, <3>2
        <5> QED BY <2>1, <5>1
      <4>2. n = 2 => last'[r] = q[n - 1].bytes
        BY <1>8
      <4>3. n # 2 => updates'[r][Len(updates'[r]) - 1] = q[n - 1]
        <5>1. n # 2 => n - 2 \in 1 .. n - 1 /\ (n - 2) + 1 = n - 1 /\ (n - 1) - 1 = n - 2
          BY <1>2, <3>2
        <5> QED BY <2>1, <5>1
      <4> QED BY <1>3, <1>6, <3>2, <4>1, <4>2, <4>3
    <3> QED BY <3>1, <3>2
  <2>4. told'[r] <= offset'[r]
    BY <1>3 DEF ToldInOrder
  <2> QED BY <2>2, <2>3, <2>4 DEF ToldInOrder, Reached
<1>10. Tail(q) = <<>> <=> n = 1
  <2> DEFINE t == Tail(q)
  <2>1. t \in Seq(Update) /\ Len(t) = n - 1 /\ n \in Nat
    BY <1>2
  <2> HIDE DEF t, n
  <2>2. t = <<>> <=> Len(t) = 0
    BY <2>1, EmptySeq
  <2>3. t = <<>> <=> n = 1
    BY <2>1, <2>2
  <2> QED BY <2>3 DEF t
<1>11. Counted' = [Counted EXCEPT ![r] = @ + d]
  <2>1. (IF Tail(q) = <<>> THEN told[r] ELSE last'[r]) = last[r] + d
    <3>1. CASE n = 1
      <4>1. Tail(q) = <<>>
        BY <1>10, <3>1
      <4>2. told[r] = IF u.kind = "aborted" THEN last[r] ELSE u.bytes
        BY <1>2, <1>6, <3>1
      <4> QED BY <1>1, <1>7, <4>1, <4>2
    <3>2. CASE n # 1
      <4>1. Tail(q) # <<>>
        BY <1>10, <3>2
      <4> QED BY <1>1, <1>2, <1>7, <1>8, <3>2, <4>1
    <3> QED BY <3>1, <3>2
  <2>2. ASSUME NEW s \in Requests
        PROVE  (IF updates'[s] = <<>> THEN told'[s] ELSE last'[s])
                 = IF s = r THEN last[r] + d ELSE Counted[s]
    <3> HIDE DEF d, u
    <3>1. CASE s = r
      BY <1>3, <1>4, <2>1, <3>1
    <3>2. CASE s # r
      BY <1>3, <3>2 DEF Counted
    <3> QED BY <3>1, <3>2
  <2>3. Counted[r] = last[r]
    BY <1>1 DEF Counted
  <2> HIDE DEF d
  <2> QED BY <2>2, <2>3 DEF Counted
<1>12. d \in Nat
  BY <1>1, <1>7
<1> QED BY <1>9, <1>11, <1>12

LEMMA ServedIsSum ==
  /\ ServedInv <=> (\A r \in Requests : ToldInOrder(r)) /\ served = Sums(Counted)[Requests]
  /\ ServedInv' <=> (\A r \in Requests : ToldInOrder(r)') /\ served' = Sums(Counted')[Requests]
BY DEF ServedInv, MapThenSumSet, MapThenFoldSet, Sums, IsSums, Pick, Rest

\* The other requests are left alone.
LEMMA OthersInOrder ==
  ASSUME NEW s \in Requests, ToldInOrder(s), s \in open' <=> s \in open,
         updates'[s] = updates[s], told'[s] = told[s], last'[s] = last[s], offset'[s] = offset[s]
  PROVE  ToldInOrder(s)'
BY DEF ToldInOrder, Reached

LEMMA ServedInit == Init => ServedInv
<1> SUFFICES ASSUME Init PROVE ServedInv
  OBVIOUS
<1>1. \A r \in Requests : updates[r] = <<>> /\ told[r] = 0 /\ last[r] = 0 /\ offset[r] = 0
  BY DEF Init
<1>2. \A r \in Requests : Len(updates[r]) = 0
  BY <1>1, EmptySeq
<1>3. \A r \in Requests : ToldInOrder(r)
  BY <1>1, <1>2 DEF ToldInOrder, Reached
<1>4. Counted = [r \in Requests |-> 0]
  BY <1>1 DEF Counted
<1>5. served = Sums(Counted)[Requests]
  BY <1>4, SumOfNothing DEF Init
<1> QED BY <1>3, <1>5, ServedIsSum

LEMMA ServedNext ==
  ASSUME TypeOK, ServedInv, [Next]_vars
  PROVE  ServedInv'
<1> USE DEF TypeOK, ProviderTypes
<1>1. (\A r \in Requests : ToldInOrder(r)) /\ served = Sums(Counted)[Requests]
  BY ServedIsSum
<1>2. ASSUME NEW r \in open, NEW kind \in Kinds, NEW bytes \in Nat, Tells(r, kind, bytes),
             served' = served, last' = last,
             kind # "progress" => r \notin open',
             \A s \in Requests : s # r => offset'[s] = offset[s] /\ (s \in open' <=> s \in open),
             offset'[r] \in Nat, told[r] <= offset'[r],
             kind # "aborted" => told[r] <= bytes /\ bytes <= offset'[r]
      PROVE  ServedInv'
  <2>1. r \in Requests
    OBVIOUS
  <2>2. ToldInOrder(r)' /\ Counted' = Counted
    BY <1>1, <1>2, <2>1, TellsInOrder
  <2>3. ASSUME NEW s \in Requests, s # r PROVE ToldInOrder(s)'
    <3>1. updates'[s] = updates[s] /\ told'[s] = told[s] /\ last'[s] = last[s]
      BY <1>2, <2>3 DEF Tells
    <3> QED BY <1>1, <1>2, <2>3, <3>1, OthersInOrder
  <2>4. served' = Sums(Counted')[Requests]
    BY <1>1, <1>2, <2>2
  <2> QED BY <2>2, <2>3, <2>4, ServedIsSum
<1>3. ASSUME UNCHANGED <<served, open, updates, last, told>>,
             \A r \in Requests : offset[r] <= offset'[r] /\ offset'[r] \in Nat
      PROVE  ServedInv'
  <2>1. Counted' = Counted
    BY <1>3 DEF Counted
  <2>2. \A r \in Requests : ToldInOrder(r)'
    <3> TAKE r \in Requests
    <3>1. told'[r] <= offset'[r]
      <4>1. told[r] <= offset[r] /\ told[r] \in Nat /\ offset[r] \in Nat
        BY <1>1 DEF ToldInOrder
      <4> QED BY <1>3, <4>1
    <3> QED BY <1>1, <1>3, <3>1 DEF ToldInOrder, Reached
  <2> QED BY <1>1, <1>3, <2>1, <2>2, ServedIsSum
<1>4. ASSUME NEW r \in Requests, Serves(r) PROVE ServedInv'
  <2>1. /\ r \in open /\ offset' = [offset EXCEPT ![r] = @ + 1]
        /\ UNCHANGED <<served, open, last>>
        /\ Tells(r, "progress", offset[r] + 1) \/ UNCHANGED <<updates, told>>
    BY <1>4 DEF Serves
  <2>2. told[r] <= offset[r] /\ told[r] \in Nat /\ offset[r] \in Nat
    BY <1>1 DEF ToldInOrder
  <2>3. CASE Tells(r, "progress", offset[r] + 1)
    <3>1. /\ offset'[r] = offset[r] + 1 /\ told[r] <= offset[r] + 1 /\ offset[r] + 1 \in Nat
          /\ \A s \in Requests : s # r => offset'[s] = offset[s]
      BY <2>1, <2>2
    <3> QED BY <1>2, <2>1, <2>3, <3>1 DEF Kinds
  <2>4. CASE UNCHANGED <<updates, told>>
    BY <1>3, <2>1, <2>4
  <2> QED BY <2>1, <2>3, <2>4
<1>5. ASSUME NEW r \in Requests, EndsRequest(r) PROVE ServedInv'
  <2>1. /\ r \in open /\ open' = open \ {r} /\ UNCHANGED <<served, offset, last>>
        /\ Tells(r, "completed", offset[r]) \/ Tells(r, "aborted", 0)
    BY <1>5 DEF EndsRequest
  <2>2. told[r] <= offset[r] /\ told[r] \in Nat /\ offset[r] \in Nat
    BY <1>1 DEF ToldInOrder
  <2>3. r \notin open' /\ \A s \in Requests : s # r => (s \in open' <=> s \in open)
    BY <2>1
  <2> QED BY <1>2, <2>1, <2>2, <2>3 DEF Kinds
<1>6. ASSUME NEW r \in Requests, Folds(r) PROVE ServedInv'
  <2> DEFINE d == Delta(Head(updates[r]), last[r])
  <2>1. ToldInOrder(r)' /\ d \in Nat /\ Counted' = [Counted EXCEPT ![r] = @ + d]
    BY <1>1, <1>6, FoldsInOrder
  <2>2. Counted \in [Requests -> Nat] /\ Counted' \in [Requests -> Nat]
    <3>1. Counted \in [Requests -> Nat]
      BY DEF Counted
    <3> HIDE DEF d
    <3> QED BY <2>1, <3>1
  <2>3. served' = served + d
    BY <1>6 DEF Folds
  <2>4. Sums(Counted')[Requests] = Sums(Counted)[Requests] + d
    <3>1. PICK f \in [Requests -> Nat] : f = Counted
      BY <2>2
    <3>2. d \in Nat /\ Counted' = [f EXCEPT ![r] = @ + d]
      BY <2>1, <3>1
    <3> HIDE DEF d
    <3>3. Sums([f EXCEPT ![r] = @ + d])[Requests] = Sums(f)[Requests] + d
      BY <3>2, SumsChange
    <3> QED BY <3>1, <3>2, <3>3
  <2>5. ASSUME NEW s \in Requests, s # r PROVE ToldInOrder(s)'
    <3>1. /\ updates'[s] = updates[s] /\ told'[s] = told[s] /\ last'[s] = last[s]
          /\ offset'[s] = offset[s] /\ (s \in open' <=> s \in open)
      BY <1>6, <2>5 DEF Folds
    <3> QED BY <1>1, <2>5, <3>1, OthersInOrder
  <2>6. served' = Sums(Counted')[Requests]
    BY <1>1, <2>3, <2>4
  <2> QED BY <2>1, <2>5, <2>6, ServedIsSum
<1>7. CASE UNCHANGED provider
  BY <1>3, <1>7 DEF provider
<1>8. Begins \/ Interrupts \/ Flow \/ Answers \/ PeerCloses \/ Forwards \/ Unsubscribes
        => UNCHANGED provider
  BY DEF Begins, Interrupts, Flow, TakesInterrupt, ReadsPrefix, ReadsBody, ReadsRest, ReadsEnd,
     Ticks, Answers, PeerCloses, Forwards, Unsubscribes
<1> QED BY <1>4, <1>5, <1>6, <1>7, <1>8 DEF Next, vars

\* Nothing is left to take: the counter is what the requests account for.
LEMMA ServedExactFromInv ==
  ASSUME TypeOK, ServedInv
  PROVE  ServedExact
<1> SUFFICES ASSUME \A r \in Requests : updates[r] = <<>>
             PROVE  served = Sums(told)[Requests]
  BY SumIsMapThenSum DEF ServedExact
<1>1. Counted = told
  BY DEF Counted, TypeOK, ProviderTypes
<1> QED BY <1>1, ServedIsSum

\* However the updates of any number of requests interleave, the counter is in the
\* end the sum of what each accounts for, no byte counted twice and none left out
\* (make_event_sender, engine/events.rs:24-70).
THEOREM ServedIsExact == Spec => []ServedExact
BY ServedInit, ServedNext, ServedExactFromInv, TypeCorrect, PTL DEF Spec
=============================================================================
