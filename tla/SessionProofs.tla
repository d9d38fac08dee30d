---------------------------- MODULE SessionProofs ----------------------------
(***************************************************************************)
(* The send flow and its receive flows, for every number of receivers and  *)
(* every queue: types, that only the right receiver is paired with, that   *)
(* the reports of the two sides agree, and that the flows implement the    *)
(* abstract hand-over.                                                     *)
(***************************************************************************)
EXTENDS Session, TLAPS

-----------------------------------------------------------------------------
(* Queues.                                                                 *)

LEMMA PrefixType ==
  ASSUME NEW S, NEW s \in Seq(S), NEW q \in Prefixes(s)
  PROVE  q \in Seq(S) /\ Carried(q) \subseteq Carried(s)
<1>1. PICK k \in 0 .. Len(s) : q = SubSeq(s, 1, k)
  BY DEF Prefixes
<1>2. q \in Seq(S) /\ Len(q) = k /\ \A i \in 1 .. k : q[i] = s[i]
  BY <1>1
<1> QED BY <1>2 DEF Carried

LEMMA AppendType ==
  ASSUME NEW S, NEW s \in Seq(S), NEW m \in S
  PROVE  Append(s, m) \in Seq(S) /\ Carried(Append(s, m)) \subseteq Carried(s) \cup {m}
BY DEF Carried

LEMMA ConcatType ==
  ASSUME NEW S, NEW s \in Seq(S), NEW t \in Seq(S)
  PROVE  s \o t \in Seq(S) /\ Carried(s \o t) \subseteq Carried(s) \cup Carried(t)
<1>1. s \o t \in Seq(S) /\ Len(s \o t) = Len(s) + Len(t)
  OBVIOUS
<1>2. ASSUME NEW i \in 1 .. Len(s \o t) PROVE (s \o t)[i] \in Carried(s) \cup Carried(t)
  <2>1. CASE i \leq Len(s)
    BY <1>1, <2>1 DEF Carried
  <2>2. CASE i > Len(s)
    <3>1. (s \o t)[i] = t[i - Len(s)] /\ i - Len(s) \in 1 .. Len(t)
      BY <1>1, <2>2
    <3> QED BY <3>1 DEF Carried
  <2> QED BY <1>1, <2>1, <2>2
<1> QED BY <1>1, <1>2 DEF Carried

LEMMA TailType ==
  ASSUME NEW S, NEW s \in Seq(S), s # <<>>
  PROVE  /\ Tail(s) \in Seq(S) /\ Carried(Tail(s)) \subseteq Carried(s)
         /\ Head(s) \in S /\ Head(s) \in Carried(s)
<1>1. Tail(s) \in Seq(S) /\ Len(Tail(s)) = Len(s) - 1 /\ Head(s) \in S
  OBVIOUS
<1>2. \A i \in 1 .. Len(Tail(s)) : Tail(s)[i] = s[i + 1] /\ i + 1 \in 1 .. Len(s)
  BY <1>1
<1>3. 1 \in 1 .. Len(s) /\ Head(s) = s[1]
  OBVIOUS
<1> QED BY <1>1, <1>2, <1>3 DEF Carried

LEMMA CarriedShort ==
  /\ Carried(<<>>) = {}
  /\ \A m : Carried(<<m>>) = {m}
BY DEF Carried

-----------------------------------------------------------------------------
(* Types.                                                                  *)

LEMMA SenderReadsType ==
  ASSUME TypeOK, NEW m, Incoming(m), SenderReads
  PROVE  to_s' \in [Receivers -> Seq(Message)]
<1>1. to_s \in [Receivers -> Seq(Message)] /\ peer \in Receivers /\ to_s[peer] # <<>>
  BY DEF TypeOK, Incoming
<1>2. Tail(to_s[peer]) \in Seq(Message)
  BY <1>1, TailType
<1> QED BY <1>1, <1>2 DEF SenderReads

LEMMA SenderWritesType ==
  ASSUME TypeOK, NEW ms \in Seq(Message), SenderWrites(ms)
  PROVE  to_peer' \in Seq(Message)
BY ConcatType DEF TypeOK, SenderWrites

\* What an end of the send flow leaves alone.
SenderKept == <<s_int, control_rx, peer, pairing, r_vars, history>>

LEMMA SenderEndsType ==
  ASSUME TypeOK, NEW o \in Reports, NEW ms \in Seq(Message), SenderEnds(o, ms)
  PROVE  /\ s_at' = o /\ UNCHANGED SenderKept
         /\ available' \in BOOLEAN
         /\ link' \in [Receivers -> BOOLEAN]
         /\ to_peer' \in Seq(Message)
<1>1. available' \in BOOLEAN
  BY DEF TypeOK, SenderEnds
<1>2. to_peer \o ms \in Seq(Message) /\ to_peer \in Seq(Message)
  BY ConcatType DEF TypeOK
<1>3. to_peer' \in Seq(Message)
  <2>1. CASE to_peer' \in Prefixes(to_peer \o ms)
    BY <1>2, <2>1, PrefixType
  <2> QED BY <1>2, <2>1 DEF SenderEnds
<1> QED BY <1>1, <1>3 DEF SenderEnds, SenderKept

LEMMA ReceiverReadsType ==
  ASSUME TypeOK, NEW r, NEW m, Arrives(r, m), ReceiverReads
  PROVE  to_peer' \in Seq(Message) /\ r = peer
<1>1. to_peer # <<>> /\ r = peer
  BY DEF Arrives, Inbox
<1> QED BY <1>1, TailType DEF TypeOK, ReceiverReads

LEMMA ReceiverWritesType ==
  ASSUME TypeOK, NEW r \in Receivers, NEW m \in Message, ReceiverWrites(r, m)
  PROVE  /\ to_s' \in [Receivers -> Seq(Message)]
         /\ \A x \in Receivers \ {r} : to_s'[x] = to_s[x]
         /\ Carried(to_s'[r]) \subseteq Carried(to_s[r]) \cup {m}
<1>1. to_s \in [Receivers -> Seq(Message)] /\ to_s[r] \in Seq(Message)
  BY DEF TypeOK
<1>2. Append(to_s[r], m) \in Seq(Message)
      /\ Carried(Append(to_s[r], m)) \subseteq Carried(to_s[r]) \cup {m}
  BY <1>1, AppendType
<1> QED BY <1>1, <1>2 DEF ReceiverWrites

\* What an end of a receive flow leaves alone.
ReceiverKept == <<s_vars, r_int, right_words, available, history>>

LEMMA ReceiverEndsType ==
  ASSUME TypeOK, NEW r \in Receivers, NEW o \in Reports, NEW ms \in Seq(Message),
         ReceiverEnds(r, o, ms)
  PROVE  /\ r_at' = [r_at EXCEPT ![r] = o] /\ UNCHANGED ReceiverKept
         /\ link' \in [Receivers -> BOOLEAN]
         /\ to_s' \in [Receivers -> Seq(Message)]
         /\ \A x \in Receivers \ {r} : to_s'[x] = to_s[x]
         /\ Carried(to_s'[r]) \subseteq Carried(to_s[r]) \cup Carried(ms)
<1>1. to_s \in [Receivers -> Seq(Message)] /\ to_s[r] \in Seq(Message)
  BY DEF TypeOK
<1>2. to_s[r] \o ms \in Seq(Message)
      /\ Carried(to_s[r] \o ms) \subseteq Carried(to_s[r]) \cup Carried(ms)
  BY <1>1, ConcatType
<1>3. ASSUME NEW q \in Prefixes(to_s[r] \o ms), to_s' = [to_s EXCEPT ![r] = q]
      PROVE  /\ to_s' \in [Receivers -> Seq(Message)]
             /\ \A x \in Receivers \ {r} : to_s'[x] = to_s[x]
             /\ Carried(to_s'[r]) \subseteq Carried(to_s[r]) \cup Carried(ms)
  <2>1. q \in Seq(Message) /\ Carried(q) \subseteq Carried(to_s[r] \o ms)
    BY <1>2, PrefixType
  <2> QED BY <1>1, <1>2, <1>3, <2>1
<1>4. link' \in [Receivers -> BOOLEAN]
  BY DEF TypeOK, ReceiverEnds
<1>5. \/ to_s' = to_s
      \/ \E q \in Prefixes(to_s[r] \o ms) : to_s' = [to_s EXCEPT ![r] = q]
  BY DEF ReceiverEnds
<1>6. r_at' = [r_at EXCEPT ![r] = o] /\ UNCHANGED ReceiverKept
  BY DEF ReceiverEnds, ReceiverKept
<1>7. CASE to_s' = to_s
  BY <1>1, <1>4, <1>6, <1>7
<1> QED BY <1>3, <1>4, <1>5, <1>6, <1>7

LEMMA Transitions ==
  /\ Transition("Created", "StartPairing") = "PendingPair"
  /\ Transition("PendingPair", "PairConfirmed") = "Paired"
  /\ Transition("Paired", "TransferStarted") = "Transferring"
  /\ Transition("Transferring", "Completed") = "Done"
  /\ Transition("Paired", "Cancelled") = "Cancelled"
  /\ Transition("Transferring", "Cancelled") = "Cancelled"
BY DEF Transition

LEMMA SenderEndsTyped ==
  ASSUME TypeOK, NEW o \in Reports, NEW ms \in Seq(Message), SenderEnds(o, ms),
         s_phase' \in Phase, to_s' \in [Receivers -> Seq(Message)]
  PROVE  TypeOK'
<1>1. /\ s_at' = o /\ UNCHANGED SenderKept
      /\ available' \in BOOLEAN
      /\ link' \in [Receivers -> BOOLEAN]
      /\ to_peer' \in Seq(Message)
  BY SenderEndsType
<1> QED BY <1>1 DEF TypeOK, SenderKept, r_vars, history

LEMMA ReceiverEndsTyped ==
  ASSUME TypeOK, NEW r \in Receivers, NEW o \in Reports, NEW ms \in Seq(Message),
         ReceiverEnds(r, o, ms),
         r_phase' \in [Receivers -> Phase], to_peer' \in Seq(Message)
  PROVE  TypeOK'
<1>1. /\ r_at' = [r_at EXCEPT ![r] = o] /\ UNCHANGED ReceiverKept
      /\ link' \in [Receivers -> BOOLEAN]
      /\ to_s' \in [Receivers -> Seq(Message)]
  BY ReceiverEndsType
<1>2. r_at' \in [Receivers -> ReceiverWaits \cup Reports]
  BY <1>1 DEF TypeOK
<1> QED BY <1>1, <1>2 DEF TypeOK, ReceiverKept, s_vars, history

LEMMA TypeInit == Init => TypeOK
<1> SUFFICES ASSUME Init PROVE TypeOK
  OBVIOUS
<1>1. /\ s_int \in BOOLEAN /\ pairing \in BOOLEAN /\ available \in BOOLEAN
      /\ r_int \in [Receivers -> BOOLEAN] /\ link \in [Receivers -> BOOLEAN]
  BY DEF Init
<1>2. /\ r_at \in [Receivers -> ReceiverWaits \cup Reports]
      /\ r_phase \in [Receivers -> Phase]
      /\ to_s \in [Receivers -> Seq(Message)]
      /\ answer \in [Receivers -> {"none", "yes", "no"}]
  BY DEF Init, ReceiverWaits, Phase
<1>3. /\ s_at \in SenderWaits /\ s_phase \in Phase /\ peer \in Receivers \cup {Nobody}
      /\ control_rx \in Seq(Receivers) /\ to_peer \in Seq(Message) /\ got \subseteq Receivers
      /\ right_words \in [Receivers -> BOOLEAN]
  BY DEF Init, SenderWaits, Phase
<1> QED BY <1>1, <1>2, <1>3 DEF TypeOK

LEMMA MessageTypes ==
  /\ <<>> \in Seq(Message)
  /\ \A m \in Message : <<m>> \in Seq(Message) /\ Carried(<<m>>) = {m}
  /\ \A m \in Message, n \in Message : <<m, n>> \in Seq(Message)
  /\ {"hello", "pake", "confirm", "offer", "accept", "decline", "cancel",
      "result", "short_result", "garbled"} = Message
  /\ {"completed", "declined", "cancelled", "failed", "aborted"} = Reports
BY DEF Message, Reports, Carried

\* The steps of the send flow.
LEMMA SenderTyped ==
  ASSUME TypeOK, PairInv, SenderFlow \/ TickTearsFrame \/ SenderAborts \/ SenderCtrlC
  PROVE  TypeOK'
<1> USE MessageTypes
<1>1. CASE Publishes \/ PrepareFails
  BY <1>1 DEF Publishes, PrepareFails, TypeOK, SenderWaits, r_vars, history
<1>2. CASE TakesConnection
  <2>1. Head(control_rx) \in Receivers /\ Tail(control_rx) \in Seq(Receivers)
    BY <1>2, TailType DEF TakesConnection, TypeOK
  <2> QED BY <1>2, <2>1 DEF TakesConnection, TypeOK, SenderWaits, r_vars, history
<1>3. CASE SenderHello
  <2>1. to_s' \in [Receivers -> Seq(Message)]
    BY <1>3, SenderReadsType DEF SenderHello
  <2>2. to_peer' \in Seq(Message)
    BY <1>3, SenderWritesType DEF SenderHello
  <2> QED BY <1>3, <2>1, <2>2 DEF SenderHello, TypeOK, SenderWaits, r_vars, history
<1>4. CASE SenderPake
  <2>1. to_s' \in [Receivers -> Seq(Message)]
    BY <1>4, SenderReadsType DEF SenderPake
  <2>2. to_peer' \in Seq(Message)
    BY <1>4, SenderWritesType DEF SenderPake
  <2> QED BY <1>4, <2>1, <2>2 DEF SenderPake, TypeOK, SenderWaits, r_vars, history
<1>5. CASE SenderConfirm
  <2>1. to_s' \in [Receivers -> Seq(Message)]
    BY <1>5, SenderReadsType DEF SenderConfirm
  <2>2. CASE Verifies(peer)
    <3>1. to_peer' \in Seq(Message)
      BY <1>5, <2>2, SenderWritesType DEF SenderConfirm
    <3>2. s_phase' \in Phase
      BY <1>5, <2>2, Transitions DEF SenderConfirm, PairInv, SenderPlaces, Phase
    <3> QED BY <1>5, <2>1, <2>2, <3>1, <3>2
            DEF SenderConfirm, TypeOK, SenderWaits, r_vars, history
  <2>3. CASE ~Verifies(peer)
    <3>1. SenderEnds("failed", <<"confirm">>) /\ s_phase' \in Phase
      BY <1>5, <2>3 DEF SenderConfirm, TypeOK
    <3> QED BY <2>1, <3>1, SenderEndsTyped
  <2> QED BY <2>2, <2>3
<1>6. CASE SenderRejectsFrame \/ SenderDeclined \/ SenderGarbled
  <2>1. to_s' \in [Receivers -> Seq(Message)] /\ s_phase' \in Phase
    BY <1>6, SenderReadsType
    DEF SenderRejectsFrame, SenderDeclined, SenderGarbled, TypeOK
  <2>2. SenderEnds("failed", <<>>) \/ SenderEnds("declined", <<>>)
    BY <1>6 DEF SenderRejectsFrame, SenderDeclined, SenderGarbled
  <2> QED BY <2>1, <2>2, SenderEndsTyped
<1>7. CASE SenderAccepted
  <2>1. to_s' \in [Receivers -> Seq(Message)]
    BY <1>7, SenderReadsType DEF SenderAccepted
  <2>2. s_phase' \in Phase
    BY <1>7, Transitions DEF SenderAccepted, PairInv, SenderPlaces, Phase
  <2> QED BY <1>7, <2>1, <2>2 DEF SenderAccepted, TypeOK, SenderWaits, r_vars, history
<1>8. CASE SenderCancelled
  <2>1. to_s' \in [Receivers -> Seq(Message)]
    BY <1>8, SenderReadsType DEF SenderCancelled
  <2>2. s_phase' \in Phase
    BY <1>8, Transitions DEF SenderCancelled, PairInv, SenderPlaces, Phase
  <2> QED BY <1>8, <2>1, <2>2, SenderEndsTyped DEF SenderCancelled
<1>9. CASE SenderResult
  <2>1. to_s' \in [Receivers -> Seq(Message)]
    BY <1>9, SenderReadsType DEF SenderResult
  <2>2. s_phase' \in Phase
    BY <1>9, Transitions DEF SenderResult, PairInv, SenderPlaces, Phase
  <2>3. SenderEnds("failed", <<>>) \/ SenderEnds("completed", <<>>)
    BY <1>9 DEF SenderResult
  <2> QED BY <2>1, <2>2, <2>3, SenderEndsTyped
<1>10. CASE SenderInterrupted
  <2>1. to_s' \in [Receivers -> Seq(Message)]
    BY <1>10 DEF SenderInterrupted, TypeOK
  <2>2. s_phase' \in Phase
    BY <1>10, Transitions DEF SenderInterrupted, PairInv, SenderPlaces, Phase
  <2>3. SenderEnds("cancelled", <<>>) \/ SenderEnds("cancelled", <<"cancel">>)
    BY <1>10 DEF SenderInterrupted
  <2> QED BY <2>1, <2>2, <2>3, SenderEndsTyped
<1>11. CASE SenderLost \/ SenderTimesOut
  <2>1. to_s' \in [Receivers -> Seq(Message)] /\ s_phase' \in Phase
    BY <1>11 DEF SenderLost, SenderTimesOut, TypeOK
  <2>2. SenderEnds("failed", <<>>)
    BY <1>11 DEF SenderLost, SenderTimesOut
  <2> QED BY <2>1, <2>2, SenderEndsTyped
<1>12. CASE TickTearsFrame
  <2>1. to_s \in [Receivers -> Seq(Message)] /\ peer \in Receivers /\ to_s[peer] # <<>>
    BY <1>12 DEF TickTearsFrame, TypeOK, PairInv, SenderPlaces
  <2>2. PICK rest \in {<<>>, <<"garbled">>} :
          to_s' = [to_s EXCEPT ![peer] = rest \o Tail(to_s[peer])]
    BY <1>12 DEF TickTearsFrame
  <2>3. rest \o Tail(to_s[peer]) \in Seq(Message)
    BY <2>1, TailType, ConcatType
  <2>4. to_s' \in [Receivers -> Seq(Message)]
    BY <2>1, <2>2, <2>3
  <2> QED BY <1>12, <2>4 DEF TickTearsFrame, TypeOK, s_vars, r_vars, history
<1>13. CASE SenderAborts
  <2>1. to_peer' \in Seq(Message)
    <3>1. to_peer' = to_peer \/ to_peer' \in Prefixes(to_peer)
      BY <1>13 DEF SenderAborts
    <3> QED BY <3>1, PrefixType DEF TypeOK
  <2>2. link' \in [Receivers -> BOOLEAN]
    BY <1>13 DEF SenderAborts
  <2> QED BY <1>13, <2>1, <2>2 DEF SenderAborts, TypeOK, r_vars, history
<1>14. CASE SenderCtrlC
  BY <1>14 DEF SenderCtrlC, TypeOK, r_vars, history
<1> QED BY <1>1, <1>2, <1>3, <1>4, <1>5, <1>6, <1>7, <1>8, <1>9, <1>10, <1>11, <1>12, <1>13,
           <1>14 DEF SenderFlow

\* The steps of a receive flow.
LEMMA ReceiverTyped ==
  ASSUME TypeOK, PairInv, NEW r \in Receivers,
         ReceiverFlow(r) \/ ReceiverAborts(r) \/ ReceiverCtrlC(r) \/ LinkBreaks(r)
  PROVE  TypeOK'
<1> USE MessageTypes
<1>1. CASE Claims(r)
  <2>1. r_at' \in [Receivers -> ReceiverWaits \cup Reports] /\ available' \in BOOLEAN
    BY <1>1 DEF Claims, TypeOK, ReceiverWaits
  <2> QED BY <1>1, <2>1 DEF Claims, TypeOK, s_vars, history
<1>2. CASE Dials(r)
  <2>1. r_at' \in [Receivers -> ReceiverWaits \cup Reports]
    BY <1>2 DEF Dials, TypeOK, ReceiverWaits
  <2>2. link' \in [Receivers -> BOOLEAN]
    BY <1>2 DEF Dials, TypeOK
  <2>3. control_rx' \in Seq(Receivers) /\ to_s' \in [Receivers -> Seq(Message)]
    BY <1>2 DEF Dials, Queues, TypeOK
  <2> QED BY <1>2, <2>1, <2>2, <2>3 DEF Dials, TypeOK, history
<1>3. CASE ReceiverHello(r) \/ ReceiverPake(r)
  <2>1. to_peer' \in Seq(Message)
    BY <1>3, ReceiverReadsType DEF ReceiverHello, ReceiverPake
  <2>2. to_s' \in [Receivers -> Seq(Message)]
    BY <1>3, ReceiverWritesType DEF ReceiverHello, ReceiverPake
  <2>3. r_at' \in [Receivers -> ReceiverWaits \cup Reports]
    BY <1>3 DEF ReceiverHello, ReceiverPake, TypeOK, ReceiverWaits
  <2> QED BY <1>3, <2>1, <2>2, <2>3 DEF ReceiverHello, ReceiverPake, TypeOK, s_vars, history
<1>4. CASE ReceiverConfirm(r)
  <2>1. to_peer' \in Seq(Message)
    BY <1>4, ReceiverReadsType DEF ReceiverConfirm
  <2>2. CASE Verifies(r)
    <3>1. /\ r_phase' = [r_phase EXCEPT ![r] =
                Transition(Transition("Created", "StartPairing"), "PairConfirmed")]
          /\ r_at' = [r_at EXCEPT ![r] = "offer"]
          /\ UNCHANGED <<s_vars, r_int, right_words, available, link, to_s, history>>
      BY <1>4, <2>2 DEF ReceiverConfirm
    <3>2. r_at' \in [Receivers -> ReceiverWaits \cup Reports]
      BY <3>1 DEF TypeOK, ReceiverWaits
    <3>3. r_phase' \in [Receivers -> Phase]
      BY <3>1, Transitions DEF TypeOK, Phase
    <3> QED BY <2>1, <3>1, <3>2, <3>3 DEF TypeOK, s_vars, history
  <2>3. CASE ~Verifies(r)
    <3>1. ReceiverEnds(r, "failed", <<>>) /\ r_phase' \in [Receivers -> Phase]
      BY <1>4, <2>3 DEF ReceiverConfirm, TypeOK
    <3> QED BY <2>1, <3>1, ReceiverEndsTyped
  <2> QED BY <2>2, <2>3
<1>5. CASE ReceiverOffer(r)
  <2>1. to_peer' \in Seq(Message)
    BY <1>5, ReceiverReadsType DEF ReceiverOffer
  <2>2. r_at' \in [Receivers -> ReceiverWaits \cup Reports]
    BY <1>5 DEF ReceiverOffer, TypeOK, ReceiverWaits
  <2> QED BY <1>5, <2>1, <2>2 DEF ReceiverOffer, TypeOK, s_vars, history
<1>6. ASSUME NEW accepted \in BOOLEAN, Answers(r, accepted) PROVE TypeOK'
  <2>1. to_s' \in [Receivers -> Seq(Message)]
    <3>1. OnTheWire(accepted) \in Message
      BY DEF OnTheWire
    <3> QED BY <1>6, <3>1, ReceiverWritesType DEF Answers
  <2>2. r_at' \in [Receivers -> ReceiverWaits \cup Reports]
    BY <1>6 DEF Answers, TypeOK, ReceiverWaits
  <2>3. answer' \in [Receivers -> {"none", "yes", "no"}]
    BY <1>6 DEF Answers, TypeOK
  <2>4. r_phase' \in [Receivers -> Phase]
    BY <1>6, Transitions DEF Answers, TypeOK, PairInv, ReceiverPlaces, Phase
  <2> QED BY <1>6, <2>1, <2>2, <2>3, <2>4 DEF Answers, TypeOK, s_vars
<1>7. CASE Downloads(r) \/ Exports(r)
  <2>1. r_at' \in [Receivers -> ReceiverWaits \cup Reports]
    BY <1>7 DEF Downloads, Exports, TypeOK, ReceiverWaits
  <2> QED BY <1>7, <2>1 DEF Downloads, Exports, TypeOK, s_vars, history
<1>8. CASE ReceiveFails(r)
  <2>1. ReceiverEnds(r, "failed", <<"cancel">>) /\ to_peer' \in Seq(Message)
    BY <1>8 DEF ReceiveFails, TypeOK
  <2>2. r_phase' \in [Receivers -> Phase]
    BY <1>8, Transitions DEF ReceiveFails, TypeOK, PairInv, ReceiverPlaces, Phase
  <2> QED BY <2>1, <2>2, ReceiverEndsTyped
<1>9. CASE ReportsResult(r)
  <2>1. to_s' \in [Receivers -> Seq(Message)]
    BY <1>9, ReceiverWritesType DEF ReportsResult
  <2>2. r_at' \in [Receivers -> ReceiverWaits \cup Reports]
    BY <1>9 DEF ReportsResult, TypeOK, ReceiverWaits
  <2> QED BY <1>9, <2>1, <2>2 DEF ReportsResult, TypeOK, s_vars, history
<1>10. CASE PeerClosed(r)
  <2>1. to_peer' \in Seq(Message)
    BY <1>10 DEF PeerClosed, TypeOK
  <2>2. ReceiverEnds(r, "declined", <<>>) \/ ReceiverEnds(r, "completed", <<>>)
    BY <1>10 DEF PeerClosed
  <2>3. r_phase' \in [Receivers -> Phase]
    <3>1. \/ r_phase' = r_phase
          \/ /\ r_at[r] = "closing"
             /\ r_phase' = [r_phase EXCEPT ![r] = Transition(r_phase[r], "Completed")]
      BY <1>10 DEF PeerClosed
    <3>2. r_at[r] = "closing" => r_phase[r] = "Transferring"
      BY DEF PairInv, ReceiverPlaces
    <3> QED BY <3>1, <3>2, Transitions DEF TypeOK, Phase
  <2> QED BY <2>1, <2>2, <2>3, ReceiverEndsTyped
<1>11. CASE ReceiverInterrupted(r)
  <2>1. to_peer' \in Seq(Message)
    BY <1>11 DEF ReceiverInterrupted, TypeOK
  <2>2. ReceiverEnds(r, "cancelled", <<>>) \/ ReceiverEnds(r, "cancelled", <<"cancel">>)
    BY <1>11 DEF ReceiverInterrupted
  <2>3. r_phase' \in [Receivers -> Phase]
    BY <1>11, Transitions DEF ReceiverInterrupted, TypeOK, PairInv, ReceiverPlaces, Phase
  <2> QED BY <2>1, <2>2, <2>3, ReceiverEndsTyped
<1>12. CASE ReceiverLost(r) \/ ReceiverTimesOut(r) \/ ReceiverAborts(r)
  <2>1. to_peer' \in Seq(Message) /\ r_phase' \in [Receivers -> Phase]
    BY <1>12 DEF ReceiverLost, ReceiverTimesOut, ReceiverAborts, TypeOK
  <2>2. ReceiverEnds(r, "failed", <<>>) \/ ReceiverEnds(r, "aborted", <<>>)
    BY <1>12 DEF ReceiverLost, ReceiverTimesOut, ReceiverAborts
  <2> QED BY <2>1, <2>2, ReceiverEndsTyped
<1>13. CASE ReceiverCtrlC(r)
  <2>1. r_int' \in [Receivers -> BOOLEAN]
    BY <1>13 DEF ReceiverCtrlC, TypeOK
  <2> QED BY <1>13, <2>1 DEF ReceiverCtrlC, TypeOK, s_vars, history
<1>14. CASE LinkBreaks(r)
  <2>1. to_s' \in [Receivers -> Seq(Message)]
    BY <1>14, PrefixType DEF LinkBreaks, TypeOK
  <2>2. to_peer' \in Seq(Message)
    <3>1. to_peer' = to_peer \/ to_peer' \in Prefixes(to_peer)
      BY <1>14 DEF LinkBreaks
    <3> QED BY <3>1, PrefixType DEF TypeOK
  <2>3. link' \in [Receivers -> BOOLEAN]
    BY <1>14 DEF LinkBreaks, TypeOK
  <2> QED BY <1>14, <2>1, <2>2, <2>3 DEF LinkBreaks, TypeOK, s_vars, r_vars, history
<1> QED BY <1>1, <1>2, <1>3, <1>4, <1>5, <1>6, <1>7, <1>8, <1>9, <1>10, <1>11, <1>12, <1>13,
           <1>14 DEF ReceiverFlow

LEMMA TypeNext == TypeOK /\ PairInv /\ [Next]_vars => TypeOK'
<1> SUFFICES ASSUME TypeOK, PairInv, [Next]_vars PROVE TypeOK'
  OBVIOUS
<1>1. CASE UNCHANGED vars
  BY <1>1 DEF TypeOK, vars, s_vars, r_vars, history
<1> QED BY <1>1, SenderTyped, ReceiverTyped DEF Next

-----------------------------------------------------------------------------
(* Who is paired with whom.                                                *)

LEMMA PairInit == Init => PairInv
BY SessionAssumption
   DEF Init, PairInv, SenderPlaces, ReceiverPlaces, OnlyTheRightPairs

\* What a report says of where the sender was.
LEMMA SenderEndsPair ==
  ASSUME TypeOK, PairInv, NEW o \in Reports, NEW ms, SenderEnds(o, ms),
         o \in {"completed", "declined"} => peer \in Receivers,
         s_phase' = s_phase \/ s_phase' \in {"Cancelled", "Done"},
         s_phase' = "Done" => s_phase = "Transferring"
  PROVE  PairInv'
<1>1. s_at' = o /\ UNCHANGED <<peer, r_at, r_phase, right_words>>
  BY DEF SenderEnds, r_vars
<1>2. SenderPlaces'
  BY <1>1 DEF SenderPlaces, Reports
<1>3. ReceiverPlaces'
  BY <1>1 DEF PairInv, ReceiverPlaces
<1>4. OnlyTheRightPairs'
  BY <1>1 DEF PairInv, OnlyTheRightPairs
<1> QED BY <1>2, <1>3, <1>4 DEF PairInv

LEMMA SenderPair ==
  ASSUME TypeOK, PairInv, SenderFlow \/ TickTearsFrame \/ SenderAborts \/ SenderCtrlC
  PROVE  PairInv'
<1> USE MessageTypes
<1>1. SenderPlaces /\ ReceiverPlaces /\ OnlyTheRightPairs
  BY DEF PairInv
<1>2. CASE Publishes \/ PrepareFails \/ SenderAborts \/ SenderCtrlC \/ TickTearsFrame
  <2>1. UNCHANGED <<s_phase, peer, r_at, r_phase, right_words>>
        /\ (s_at' = s_at \/ s_at' \in {"failed", "aborted"}
            \/ (s_at = "preparing" /\ s_at' = "waiting"))
    BY <1>2 DEF Publishes, PrepareFails, SenderAborts, SenderCtrlC, TickTearsFrame,
                s_vars, r_vars
  <2>2. SenderPlaces'
    BY <1>1, <2>1 DEF SenderPlaces
  <2>3. ReceiverPlaces' /\ OnlyTheRightPairs'
    BY <1>1, <2>1 DEF ReceiverPlaces, OnlyTheRightPairs
  <2> QED BY <2>2, <2>3 DEF PairInv
<1>3. CASE TakesConnection
  <2>1. UNCHANGED <<s_phase, r_at, r_phase, right_words>>
        /\ s_at = "waiting" /\ s_at' = "hello" /\ peer' \in Receivers
    BY <1>3, TailType DEF TakesConnection, TypeOK, r_vars
  <2>2. s_phase = "PendingPair" /\ peer = Nobody
    BY <1>1, <2>1 DEF SenderPlaces
  <2>3. \A r \in Receivers : r_phase[r] = "Created"
    BY <1>1, <2>2, SessionAssumption DEF OnlyTheRightPairs
  <2> QED BY <1>1, <2>1, <2>2, <2>3
          DEF PairInv, SenderPlaces, ReceiverPlaces, OnlyTheRightPairs
<1>4. CASE SenderHello \/ SenderPake
  <2>1. UNCHANGED <<s_phase, peer, r_at, r_phase, right_words>>
        /\ s_at \in {"hello", "pake"} /\ s_at' \in {"pake", "confirm"}
    BY <1>4 DEF SenderHello, SenderPake, r_vars
  <2>2. SenderPlaces'
    BY <1>1, <2>1 DEF SenderPlaces
  <2> QED BY <1>1, <2>1, <2>2 DEF PairInv, ReceiverPlaces, OnlyTheRightPairs
<1>5. CASE SenderConfirm
  <2>1. peer \in Receivers /\ s_phase = "PendingPair"
    BY <1>1, <1>5 DEF SenderConfirm, SenderPlaces
  <2>2. CASE Verifies(peer)
    <3>1. s_at' = "offered" /\ s_phase' = "Paired"
      BY <1>5, <2>1, <2>2, Transitions DEF SenderConfirm
    <3>2. UNCHANGED <<peer, r_at, r_phase, right_words>>
      BY <1>5, <2>2 DEF SenderConfirm, r_vars
    <3>3. right_words[peer]
      BY <2>2 DEF Verifies
    <3>4. SenderPlaces'
      BY <2>1, <3>1, <3>2 DEF SenderPlaces
    <3>5. OnlyTheRightPairs'
      BY <1>1, <3>1, <3>2, <3>3 DEF OnlyTheRightPairs
    <3> QED BY <1>1, <3>2, <3>4, <3>5 DEF PairInv, ReceiverPlaces
  <2>3. CASE ~Verifies(peer)
    <3>1. SenderEnds("failed", <<"confirm">>) /\ s_phase' = s_phase
      BY <1>5, <2>3 DEF SenderConfirm
    <3> QED BY <2>1, <3>1, SenderEndsPair
  <2> QED BY <2>2, <2>3
<1>6. CASE SenderRejectsFrame \/ SenderDeclined \/ SenderGarbled \/ SenderLost \/ SenderTimesOut
  <2>1. s_phase' = s_phase
    BY <1>6 DEF SenderRejectsFrame, SenderDeclined, SenderGarbled, SenderLost, SenderTimesOut
  <2>2. \/ SenderEnds("failed", <<>>)
        \/ SenderEnds("declined", <<>>) /\ s_at = "offered"
    BY <1>6 DEF SenderRejectsFrame, SenderDeclined, SenderGarbled, SenderLost, SenderTimesOut
  <2>3. s_at = "offered" => peer \in Receivers
    BY <1>1 DEF SenderPlaces
  <2>4. CASE SenderEnds("failed", <<>>)
    <3>1. s_at' = "failed" /\ UNCHANGED <<peer, r_at, r_phase, right_words>>
      BY <2>4 DEF SenderEnds, r_vars
    <3> QED BY <1>1, <2>1, <3>1 DEF PairInv, SenderPlaces, ReceiverPlaces, OnlyTheRightPairs
  <2>5. CASE SenderEnds("declined", <<>>) /\ s_at = "offered"
    <3>1. s_at' = "declined" /\ UNCHANGED <<peer, r_at, r_phase, right_words>>
      BY <2>5 DEF SenderEnds, r_vars
    <3> QED BY <1>1, <2>1, <2>3, <2>5, <3>1
            DEF PairInv, SenderPlaces, ReceiverPlaces, OnlyTheRightPairs
  <2> QED BY <2>2, <2>4, <2>5
<1>7. CASE SenderAccepted
  <2>1. s_at = "offered" /\ s_at' = "transfer" /\ s_phase' = Transition(s_phase, "TransferStarted")
        /\ UNCHANGED <<peer, r_at, r_phase, right_words>>
    BY <1>7 DEF SenderAccepted, r_vars
  <2>2. s_phase = "Paired" /\ s_phase' = "Transferring" /\ peer \in Receivers
    BY <1>1, <2>1, Transitions DEF SenderPlaces
  <2>3. SenderPlaces'
    BY <2>1, <2>2 DEF SenderPlaces
  <2> QED BY <1>1, <2>1, <2>2, <2>3 DEF PairInv, ReceiverPlaces, OnlyTheRightPairs
<1>8. CASE SenderCancelled \/ SenderInterrupted
  <2>1. SenderEnds("cancelled", <<>>) \/ SenderEnds("cancelled", <<"cancel">>)
    BY <1>8 DEF SenderCancelled, SenderInterrupted
  <2>2. \/ s_phase' = s_phase /\ s_at = "waiting"
        \/ s_phase' = Transition(s_phase, "Cancelled") /\ s_at \in {"offered", "transfer"}
    BY <1>8 DEF SenderCancelled, SenderInterrupted
  <2>3. s_phase' # "Done" /\ (s_phase' = s_phase \/ s_phase' = "Cancelled")
    BY <1>1, <2>2, Transitions DEF SenderPlaces
  <2> QED BY <2>1, <2>3, SenderEndsPair
<1>9. CASE SenderResult
  <2>1. \/ SenderEnds("completed", <<>>) /\ s_phase' = Transition(s_phase, "Completed")
        \/ SenderEnds("failed", <<>>) /\ s_phase' = s_phase
    BY <1>9 DEF SenderResult
  <2>2. s_phase = "Transferring" /\ peer \in Receivers
    BY <1>1, <1>9 DEF SenderResult, SenderPlaces
  <2> QED BY <2>1, <2>2, SenderEndsPair, Transitions
<1> QED BY <1>2, <1>3, <1>4, <1>5, <1>6, <1>7, <1>8, <1>9 DEF SenderFlow

\* The phase p belongs to the place w of a receive flow.
Belongs(w, p) ==
  /\ w \in {"claiming", "dialing", "hello", "pake", "confirm"} => p = "Created"
  /\ w \in {"offer", "prompt", "declining"} => p = "Paired"
  /\ w \in {"download", "export", "reporting", "closing"} => p = "Transferring"

\* A receive flow that moves to a place and a phase that belong together, and
\* gets a phase of its own only as the sender's peer with the right words.
Moves(r, w, p) ==
  /\ UNCHANGED <<s_at, s_phase, peer, right_words>>
  /\ r_at' = [r_at EXCEPT ![r] = w]
  /\ r_phase' = [r_phase EXCEPT ![r] = p]
  /\ Belongs(w, p)
  /\ p # "Created" => r_phase[r] # "Created" \/ (r = peer /\ right_words[r])

LEMMA MovePair ==
  ASSUME TypeOK, PairInv, NEW r \in Receivers, NEW w, NEW p, Moves(r, w, p)
  PROVE  PairInv'
<1>1. SenderPlaces'
  BY DEF Moves, PairInv, SenderPlaces
<1>2. ReceiverPlaces'
  BY DEF Moves, PairInv, ReceiverPlaces, TypeOK, Belongs
<1>3. OnlyTheRightPairs'
  BY DEF Moves, PairInv, OnlyTheRightPairs, TypeOK
<1> QED BY <1>1, <1>2, <1>3 DEF PairInv

LEMMA ReceiverPair ==
  ASSUME TypeOK, PairInv, NEW r \in Receivers,
         ReceiverFlow(r) \/ ReceiverAborts(r) \/ ReceiverCtrlC(r) \/ LinkBreaks(r)
  PROVE  PairInv'
<1>1. UNCHANGED <<s_at, s_phase, peer, right_words>>
  BY DEF ReceiverFlow, Claims, Dials, ReceiverHello, ReceiverPake, ReceiverConfirm, ReceiverOffer,
         Answers, Downloads, Exports, ReceiveFails, ReportsResult, PeerClosed,
         ReceiverInterrupted, ReceiverLost, ReceiverTimesOut, ReceiverAborts, ReceiverCtrlC,
         LinkBreaks, ReceiverEnds, s_vars, r_vars
<1>2. Belongs(r_at[r], r_phase[r])
  BY DEF PairInv, ReceiverPlaces, Belongs
<1>3. r_phase' = r_phase => r_phase' = [r_phase EXCEPT ![r] = r_phase[r]]
  BY DEF TypeOK
<1>4. r_at' = r_at => r_at' = [r_at EXCEPT ![r] = r_at[r]]
  BY DEF TypeOK
<1>5. ASSUME NEW o \in Reports, r_at' = [r_at EXCEPT ![r] = o], r_phase' = r_phase
      PROVE  PairInv'
  <2>1. Moves(r, o, r_phase[r])
    BY <1>1, <1>3, <1>5 DEF Moves, Belongs, Reports
  <2> QED BY <2>1, MovePair
<1>6. ASSUME NEW o \in Reports, NEW p, r_phase[r] # "Created",
             r_at' = [r_at EXCEPT ![r] = o], r_phase' = [r_phase EXCEPT ![r] = p]
      PROVE  PairInv'
  <2>1. Moves(r, o, p)
    BY <1>1, <1>6 DEF Moves, Belongs, Reports
  <2> QED BY <2>1, MovePair
<1>7. ASSUME NEW ms, NEW o \in Reports, ReceiverEnds(r, o, ms)
      PROVE  r_at' = [r_at EXCEPT ![r] = o]
  BY <1>7 DEF ReceiverEnds
<1>8. "failed" \in Reports /\ "cancelled" \in Reports /\ "completed" \in Reports
      /\ "declined" \in Reports /\ "aborted" \in Reports
  BY DEF Reports
<1>9. CASE Claims(r) \/ Dials(r) \/ ReceiverHello(r) \/ ReceiverPake(r) \/ ReceiverOffer(r)
           \/ Downloads(r) \/ Exports(r) \/ ReportsResult(r)
  <2>1. PICK w : r_at' = [r_at EXCEPT ![r] = w] /\ Belongs(w, r_phase[r])
    BY <1>2, <1>9 DEF Claims, Dials, ReceiverHello, ReceiverPake, ReceiverOffer, Downloads,
                      Exports, ReportsResult, HasResult, Belongs
  <2>2. r_phase' = r_phase
    BY <1>9 DEF Claims, Dials, ReceiverHello, ReceiverPake, ReceiverOffer, Downloads,
                Exports, ReportsResult
  <2>3. Moves(r, w, r_phase[r])
    BY <1>1, <1>3, <2>1, <2>2 DEF Moves
  <2> QED BY <2>3, MovePair
<1>10. CASE ReceiverConfirm(r)
  <2>1. r = peer
    BY <1>10, ReceiverReadsType DEF ReceiverConfirm
  <2>2. CASE Verifies(r)
    <3>1. /\ r_at' = [r_at EXCEPT ![r] = "offer"]
          /\ r_phase' = [r_phase EXCEPT ![r] = "Paired"]
      BY <1>10, <2>2, Transitions DEF ReceiverConfirm
    <3>2. right_words[r]
      BY <2>2 DEF Verifies
    <3>3. Moves(r, "offer", "Paired")
      BY <1>1, <2>1, <3>1, <3>2 DEF Moves, Belongs
    <3> QED BY <3>3, MovePair
  <2>3. CASE ~Verifies(r)
    <3>1. ReceiverEnds(r, "failed", <<>>) /\ r_phase' = r_phase
      BY <1>10, <2>3 DEF ReceiverConfirm
    <3> QED BY <1>5, <1>7, <1>8, <3>1
  <2> QED BY <2>2, <2>3
<1>11. ASSUME NEW accepted \in BOOLEAN, Answers(r, accepted) PROVE PairInv'
  <2>1. r_phase[r] = "Paired"
    BY <1>2, <1>11 DEF Answers, Belongs
  <2>2. CASE accepted
    <3>1. /\ r_at' = [r_at EXCEPT ![r] = "download"]
          /\ r_phase' = [r_phase EXCEPT ![r] = "Transferring"]
      BY <1>11, <2>1, <2>2, Transitions DEF Answers
    <3>2. Moves(r, "download", "Transferring")
      BY <1>1, <2>1, <3>1 DEF Moves, Belongs
    <3> QED BY <3>2, MovePair
  <2>3. CASE ~accepted
    <3>1. r_at' = [r_at EXCEPT ![r] = "declining"] /\ r_phase' = r_phase
      BY <1>11, <2>3 DEF Answers
    <3>2. Moves(r, "declining", "Paired")
      BY <1>1, <1>3, <2>1, <3>1 DEF Moves, Belongs
    <3> QED BY <3>2, MovePair
  <2> QED BY <2>2, <2>3
<1>12. CASE ReceiveFails(r) \/ PeerClosed(r) \/ ReceiverInterrupted(r)
  <2>1. \E o \in Reports : r_at' = [r_at EXCEPT ![r] = o]
    BY <1>7, <1>8, <1>12 DEF ReceiveFails, PeerClosed, ReceiverInterrupted
  <2>2. \/ r_phase' = r_phase
        \/ /\ \E p : r_phase' = [r_phase EXCEPT ![r] = p]
           /\ r_at[r] \in {"download", "export", "closing", "offer", "prompt"}
    BY <1>12 DEF ReceiveFails, PeerClosed, ReceiverInterrupted
  <2>3. r_at[r] \in {"download", "export", "closing", "offer", "prompt"} =>
          r_phase[r] # "Created"
    BY <1>2 DEF Belongs
  <2> QED BY <1>5, <1>6, <2>1, <2>2, <2>3
<1>13. CASE ReceiverLost(r) \/ ReceiverTimesOut(r) \/ ReceiverAborts(r)
  <2>1. r_phase' = r_phase /\ \E o \in Reports : r_at' = [r_at EXCEPT ![r] = o]
    BY <1>7, <1>8, <1>13 DEF ReceiverLost, ReceiverTimesOut, ReceiverAborts
  <2> QED BY <1>5, <2>1
<1>14. CASE ReceiverCtrlC(r) \/ LinkBreaks(r)
  <2>1. r_at' = r_at /\ r_phase' = r_phase
    BY <1>14 DEF ReceiverCtrlC, LinkBreaks, r_vars
  <2>2. Moves(r, r_at[r], r_phase[r])
    BY <1>1, <1>2, <1>3, <1>4, <2>1 DEF Moves
  <2> QED BY <2>2, MovePair
<1> QED BY <1>9, <1>10, <1>11, <1>12, <1>13, <1>14 DEF ReceiverFlow

LEMMA PairNext == TypeOK /\ PairInv /\ [Next]_vars => PairInv'
<1> SUFFICES ASSUME TypeOK, PairInv, [Next]_vars PROVE PairInv'
  OBVIOUS
<1>1. CASE UNCHANGED vars
  BY <1>1 DEF PairInv, SenderPlaces, ReceiverPlaces, OnlyTheRightPairs, vars, s_vars, r_vars
<1> QED BY <1>1, SenderPair, ReceiverPair DEF Next

LEMMA Paired == Spec => [](TypeOK /\ PairInv)
BY TypeInit, TypeNext, PairInit, PairNext, PTL DEF Spec

\* The state of the flows, the connections and the queues keep their types.
THEOREM TypeCorrect == Spec => []TypeOK
BY Paired, PTL

\* Of any number of receive flows that hold the code, with the right words or
\* not, only the one whose connection the sender took, and only with the
\* sender's words, gets past the key confirmation (wire.rs:195-240).
THEOREM PairsOnlyRight == Spec => []OnlyTheRightPairs
<1>1. PairInv => OnlyTheRightPairs
  BY DEF PairInv
<1> QED BY <1>1, Paired, PTL

-----------------------------------------------------------------------------
(* What the two sides report.                                              *)

LEMMA ReportInit == Init => ReportInv
<1> SUFFICES ASSUME Init PROVE ReportInv
  OBVIOUS
<1>1. ExportPlaces
  BY DEF Init, ExportPlaces
<1>2. TrueOnTheWay
  BY CarriedShort DEF Init, TrueOnTheWay
<1> QED BY <1>1, <1>2 DEF ReportInv, Init, ReportsAgree

\* A step of the sender loses messages or tears one, and reports completed and
\* declined only after it read so.
Hears ==
  /\ UNCHANGED <<r_at, got, answer>>
  /\ \A x \in Receivers : Carried(to_s'[x]) \subseteq Carried(to_s[x]) \cup {"garbled"}
  /\ s_at' = "completed" => peer \in Receivers /\ peer' = peer /\ "result" \in Carried(to_s[peer])
  /\ s_at' = "declined" => peer \in Receivers /\ peer' = peer /\ "decline" \in Carried(to_s[peer])

LEMMA HearsReport ==
  ASSUME TypeOK, ReportInv, Hears
  PROVE  ReportInv'
<1>1. ExportPlaces'
  BY DEF ReportInv, ExportPlaces, Hears
<1>2. \A x \in Receivers : (HasReported(x) => HasReported(x)') /\ (HasDeclined(x) => HasDeclined(x)')
  BY DEF HasReported, HasDeclined, Hears
<1>3. TrueOnTheWay'
  BY <1>2 DEF ReportInv, TrueOnTheWay, Hears
<1>4. ReportsAgree'
  <2>1. s_at' = "completed" => HasReported(peer)
    BY DEF ReportInv, TrueOnTheWay, Hears
  <2>2. s_at' = "declined" => HasDeclined(peer)
    BY DEF ReportInv, TrueOnTheWay, Hears
  <2> QED BY <2>1, <2>2 DEF Hears, ReportsAgree, HasReported, HasDeclined
<1> QED BY <1>1, <1>3, <1>4 DEF ReportInv

LEMMA ReadsCarried ==
  ASSUME TypeOK, NEW m, Incoming(m), SenderReads
  PROVE  /\ peer \in Receivers /\ m \in Carried(to_s[peer])
         /\ \A x \in Receivers : Carried(to_s'[x]) \subseteq Carried(to_s[x]) \cup {"garbled"}
<1>1. to_s \in [Receivers -> Seq(Message)] /\ peer \in Receivers /\ to_s[peer] # <<>>
  BY DEF TypeOK, Incoming
<1>2. Carried(Tail(to_s[peer])) \subseteq Carried(to_s[peer])
      /\ Head(to_s[peer]) \in Carried(to_s[peer])
  BY <1>1, TailType
<1> QED BY <1>1, <1>2 DEF SenderReads, Incoming

LEMMA SenderHears ==
  ASSUME TypeOK, PairInv, SenderFlow \/ TickTearsFrame \/ SenderAborts \/ SenderCtrlC
  PROVE  Hears
<1>1. UNCHANGED <<r_at, got, answer>>
  BY DEF SenderFlow, Publishes, PrepareFails, TakesConnection, SenderHello, SenderPake,
         SenderConfirm, SenderRejectsFrame, SenderAccepted, SenderDeclined, SenderCancelled,
         SenderResult, SenderGarbled, SenderInterrupted, SenderLost, SenderTimesOut,
         TickTearsFrame, SenderAborts, SenderCtrlC, SenderEnds, r_vars, history
<1>2. CASE Publishes \/ PrepareFails \/ TakesConnection \/ SenderInterrupted \/ SenderLost
           \/ SenderTimesOut \/ SenderAborts \/ SenderCtrlC
  <2>1. UNCHANGED to_s
    BY <1>2 DEF Publishes, PrepareFails, TakesConnection, SenderInterrupted, SenderLost,
                SenderTimesOut, SenderAborts, SenderCtrlC
  <2>2. s_at' \notin {"completed", "declined"}
    BY <1>2 DEF Publishes, PrepareFails, TakesConnection, SenderInterrupted, SenderLost,
                SenderTimesOut, SenderAborts, SenderCtrlC, SenderEnds, SenderWaits
  <2> QED BY <1>1, <2>1, <2>2 DEF Hears
<1>3. CASE SenderHello \/ SenderPake \/ SenderConfirm \/ SenderRejectsFrame \/ SenderAccepted
           \/ SenderCancelled \/ SenderGarbled
  <2>1. \E m : Incoming(m) /\ SenderReads
    BY <1>3 DEF SenderHello, SenderPake, SenderConfirm, SenderRejectsFrame, SenderAccepted,
                SenderCancelled, SenderGarbled
  <2>2. s_at' \notin {"completed", "declined"}
    BY <1>3 DEF SenderHello, SenderPake, SenderConfirm, SenderRejectsFrame, SenderAccepted,
                SenderCancelled, SenderGarbled, SenderEnds
  <2> QED BY <1>1, <2>1, <2>2, ReadsCarried DEF Hears
<1>4. CASE SenderDeclined
  <2>1. Incoming("decline") /\ SenderReads /\ s_at' = "declined" /\ peer' = peer
    BY <1>4 DEF SenderDeclined, SenderEnds
  <2> QED BY <1>1, <2>1, ReadsCarried DEF Hears
<1>5. CASE SenderResult
  <2>1. PICK m \in {"result", "short_result"} :
          /\ Incoming(m) /\ SenderReads /\ peer' = peer
          /\ \/ m = "result" /\ s_at' = "completed"
             \/ s_at' = "failed"
    BY <1>5 DEF SenderResult, SenderEnds, ResultMatches
  <2> QED BY <1>1, <2>1, ReadsCarried DEF Hears
<1>6. CASE TickTearsFrame
  <2>1. to_s \in [Receivers -> Seq(Message)] /\ peer \in Receivers /\ to_s[peer] # <<>>
        /\ s_at' = "transfer"
    BY <1>6 DEF TickTearsFrame, TypeOK, PairInv, SenderPlaces, s_vars
  <2>2. PICK rest \in {<<>>, <<"garbled">>} :
          to_s' = [to_s EXCEPT ![peer] = rest \o Tail(to_s[peer])]
    BY <1>6 DEF TickTearsFrame
  <2>3. rest \in Seq(Message) /\ Carried(rest) \subseteq {"garbled"}
    BY CarriedShort, MessageTypes
  <2>4. Tail(to_s[peer]) \in Seq(Message) /\ Carried(Tail(to_s[peer])) \subseteq Carried(to_s[peer])
    BY <2>1, TailType
  <2>5. Carried(rest \o Tail(to_s[peer])) \subseteq Carried(to_s[peer]) \cup {"garbled"}
    BY <2>3, <2>4, ConcatType
  <2> QED BY <1>1, <2>1, <2>2, <2>5 DEF Hears
<1> QED BY <1>2, <1>3, <1>4, <1>5, <1>6 DEF SenderFlow

\* w is no further than v as to what was answered.
Early == {"claiming", "dialing", "hello", "pake", "confirm", "offer", "prompt"}
SamePart(v, w) ==
  /\ w \in Early => v \in Early
  /\ w \in {"download", "export", "reporting", "closing"} =>
       v \in {"download", "export", "reporting", "closing"}
  /\ w = "declining" => v = "declining"

\* A receive flow that goes to w, writing only the messages ms: it exports on
\* the way to its report, and writes a result or a decline only when it is so.
Goes(r, w, ms) ==
  /\ UNCHANGED <<s_at, peer>>
  /\ r_at' = [r_at EXCEPT ![r] = w]
  /\ \A x \in Receivers \ {r} : to_s'[x] = to_s[x]
  /\ Carried(to_s'[r]) \subseteq Carried(to_s[r]) \cup ms
  /\ \/ got' = got /\ (w \in ReceiverWaits \ {"reporting", "closing"} => r \notin got)
                   /\ (w \in {"reporting", "closing"} => r \in got)
     \/ got' = got \cup {r} /\ r_at[r] = "export" /\ w = "reporting"
  /\ ms \cap {"result", "short_result"} # {} => w = "closing"
  /\ "decline" \in ms => w = "declining"
  /\ r_at[r] \in {"closing", "completed", "failed", "aborted"} =>
       w \in {"closing", "completed", "failed", "aborted"}
  /\ r_at[r] \in {"declining", "declined", "failed", "aborted"} =>
       w \in {"declining", "declined", "failed", "aborted"}
  /\ r_at[r] \in Reports => w = r_at[r]
  /\ w = "completed" => r_at[r] \in {"closing", "completed"}
  /\ w = "declined" => r_at[r] \in {"declining", "declined"}
  /\ \/ answer' = answer /\ "decline" \notin ms /\ SamePart(r_at[r], w)
     \/ /\ r_at[r] = "prompt" /\ got' = got
        /\ \/ answer' = [answer EXCEPT ![r] = "yes"] /\ w = "download" /\ "decline" \notin ms
           \/ answer' = [answer EXCEPT ![r] = "no"] /\ w = "declining"

LEMMA GoesReport ==
  ASSUME TypeOK, PairInv, ReportInv, NEW r \in Receivers, NEW w, NEW ms, Goes(r, w, ms)
  PROVE  ReportInv'
<1>1. ExportPlaces'
  BY DEF ReportInv, ExportPlaces, Goes, TypeOK
<1>2. \A x : x \in got => x \in got'
  BY DEF Goes
<1>3. \A x \in Receivers : HasReported(x) => HasReported(x)'
  BY <1>2 DEF HasReported, Goes, TypeOK
<1>4. \A x \in Receivers : HasDeclined(x) => HasDeclined(x)'
  BY DEF HasDeclined, Goes, TypeOK
<1>5. ms \cap {"result", "short_result"} # {} => HasReported(r)'
  BY DEF HasReported, Goes, TypeOK
<1>6. "decline" \in ms => HasDeclined(r)'
  BY DEF HasDeclined, Goes, TypeOK, ReceiverWaits
<1>7. TrueOnTheWay'
  BY <1>3, <1>4, <1>5, <1>6 DEF ReportInv, TrueOnTheWay, Goes
<1>8. ReportsAgree'
  <2>1. s_at = "completed" => HasReported(peer) /\ peer \in Receivers
    BY DEF ReportInv, ReportsAgree, HasReported, TypeOK
  <2>2. s_at = "declined" => HasDeclined(peer) /\ peer \in Receivers
    BY DEF ReportInv, ReportsAgree, HasDeclined, PairInv, SenderPlaces
  <2> QED BY <1>3, <1>4, <2>1, <2>2 DEF Goes, ReportsAgree, HasReported, HasDeclined
<1> QED BY <1>1, <1>7, <1>8 DEF ReportInv

LEMMA WritesGoes ==
  ASSUME TypeOK, NEW r \in Receivers, UNCHANGED to_s
  PROVE  /\ \A x \in Receivers \ {r} : to_s'[x] = to_s[x]
         /\ \A ms : Carried(to_s'[r]) \subseteq Carried(to_s[r]) \cup ms
OBVIOUS

\* A receive flow that ends with o, with a goodbye that is no result.
LEMMA EndsGoes ==
  ASSUME TypeOK, PairInv, ReportInv, NEW r \in Receivers, NEW o \in Reports,
         NEW ms \in Seq(Message), ReceiverEnds(r, o, ms), Carried(ms) \subseteq {"cancel"},
         r_at[r] \in ReceiverWaits,
         r_at[r] = "closing" => o \in {"completed", "failed", "aborted"},
         r_at[r] = "declining" => o \in {"declined", "failed", "aborted"},
         o = "completed" => r_at[r] = "closing",
         o = "declined" => r_at[r] = "declining"
  PROVE  Goes(r, o, {"cancel"})
<1>1. /\ r_at' = [r_at EXCEPT ![r] = o] /\ UNCHANGED ReceiverKept
      /\ \A x \in Receivers \ {r} : to_s'[x] = to_s[x]
      /\ Carried(to_s'[r]) \subseteq Carried(to_s[r]) \cup Carried(ms)
  BY ReceiverEndsType
<1>2. o \notin ReceiverWaits
  BY DEF Reports, ReceiverWaits
<1>3. SamePart(r_at[r], o)
  BY DEF SamePart, Reports, Early
<1>4. r_at[r] \notin Reports
  BY DEF Reports, ReceiverWaits
<1> QED BY <1>1, <1>2, <1>3, <1>4 DEF Goes, ReceiverKept, s_vars, history, ReceiverWaits

LEMMA ReceiverGoes ==
  ASSUME TypeOK, PairInv, ReportInv, NEW r \in Receivers,
         ReceiverFlow(r) \/ ReceiverAborts(r) \/ ReceiverCtrlC(r) \/ LinkBreaks(r)
  PROVE  \E w, ms : Goes(r, w, ms)
<1> USE MessageTypes
<1>1. /\ r_at[r] \in {"reporting", "closing"} => r \in got
      /\ r_at[r] \in ReceiverWaits \ {"reporting", "closing"} => r \notin got
  BY DEF ReportInv, ExportPlaces
<1>2. ASSUME r_at[r] \in ReceiverWaits PROVE r_at[r] \notin Reports
  BY <1>2 DEF Reports, ReceiverWaits
<1>3. UNCHANGED <<s_at, peer>>
  BY DEF ReceiverFlow, Claims, Dials, ReceiverHello, ReceiverPake, ReceiverConfirm, ReceiverOffer,
         Answers, Downloads, Exports, ReceiveFails, ReportsResult, PeerClosed,
         ReceiverInterrupted, ReceiverLost, ReceiverTimesOut, ReceiverAborts, ReceiverCtrlC,
         LinkBreaks, ReceiverEnds, s_vars
<1>4. CASE Claims(r) \/ ReceiverOffer(r) \/ Downloads(r)
  <2>1. UNCHANGED <<to_s, got, answer>>
    BY <1>4 DEF Claims, ReceiverOffer, Downloads, history
  <2>2. PICK w : /\ r_at' = [r_at EXCEPT ![r] = w]
                 /\ \/ r_at[r] = "claiming" /\ w = "dialing"
                    \/ r_at[r] = "offer" /\ w = "prompt"
                    \/ r_at[r] = "download" /\ w = "export"
    BY <1>4 DEF Claims, ReceiverOffer, Downloads
  <2>3. Goes(r, w, {})
    BY <1>1, <1>3, <2>1, <2>2, WritesGoes DEF Goes, SamePart, Early, ReceiverWaits, Reports
  <2> QED BY <2>3
<1>5. CASE Dials(r)
  <2>1. to_s' = [to_s EXCEPT ![r] = <<"hello">>] /\ UNCHANGED <<got, answer>>
        /\ r_at[r] = "dialing" /\ r_at' = [r_at EXCEPT ![r] = "hello"]
    BY <1>5 DEF Dials, history
  <2>2. Carried(to_s'[r]) \subseteq {"hello"} /\ \A x \in Receivers \ {r} : to_s'[x] = to_s[x]
    BY <2>1 DEF TypeOK
  <2>3. Goes(r, "hello", {"hello"})
    BY <1>1, <1>3, <2>1, <2>2 DEF Goes, SamePart, Early, ReceiverWaits, Reports
  <2> QED BY <2>3
<1>6. CASE ReceiverHello(r) \/ ReceiverPake(r)
  <2>1. PICK m \in {"pake", "confirm"} : ReceiverWrites(r, m)
    BY <1>6 DEF ReceiverHello, ReceiverPake
  <2>2. UNCHANGED <<got, answer>> /\ r_at[r] \in {"hello", "pake"}
        /\ \E w \in {"pake", "confirm"} : r_at' = [r_at EXCEPT ![r] = w]
    BY <1>6 DEF ReceiverHello, ReceiverPake, history
  <2>3. /\ \A x \in Receivers \ {r} : to_s'[x] = to_s[x]
        /\ Carried(to_s'[r]) \subseteq Carried(to_s[r]) \cup {m}
    BY <2>1, ReceiverWritesType
  <2>4. PICK w \in {"pake", "confirm"} : r_at' = [r_at EXCEPT ![r] = w]
    BY <2>2
  <2>5. Goes(r, w, {m})
    BY <1>1, <1>3, <2>2, <2>3, <2>4 DEF Goes, SamePart, Early, ReceiverWaits, Reports
  <2> QED BY <2>5
<1>7. CASE ReceiverConfirm(r)
  <2>1. r_at[r] = "confirm"
    BY <1>7 DEF ReceiverConfirm
  <2>2. CASE Verifies(r)
    <3>1. r_at' = [r_at EXCEPT ![r] = "offer"] /\ UNCHANGED <<to_s, got, answer>>
      BY <1>7, <2>2 DEF ReceiverConfirm, history
    <3>2. Goes(r, "offer", {})
      BY <1>1, <1>3, <2>1, <3>1, WritesGoes DEF Goes, SamePart, Early, ReceiverWaits, Reports
    <3> QED BY <3>2
  <2>3. CASE ~Verifies(r)
    <3>1. ReceiverEnds(r, "failed", <<>>)
      BY <1>7, <2>3 DEF ReceiverConfirm
    <3>2. Goes(r, "failed", {"cancel"})
      BY <2>1, <3>1, EndsGoes, CarriedShort DEF ReceiverWaits
    <3> QED BY <3>2
  <2> QED BY <2>2, <2>3
<1>8. ASSUME NEW accepted \in BOOLEAN, Answers(r, accepted) PROVE \E w, ms : Goes(r, w, ms)
  <2>1. r_at[r] = "prompt" /\ got' = got /\ ReceiverWrites(r, OnTheWire(accepted))
        /\ r_at' = [r_at EXCEPT ![r] = IF accepted THEN "download" ELSE "declining"]
        /\ answer' = [answer EXCEPT ![r] = IF accepted THEN "yes" ELSE "no"]
    BY <1>8 DEF Answers
  <2>2. CASE accepted
    <3>1. ReceiverWrites(r, "accept") /\ r_at' = [r_at EXCEPT ![r] = "download"]
          /\ answer' = [answer EXCEPT ![r] = "yes"]
      BY <2>1, <2>2 DEF OnTheWire
    <3>2. Goes(r, "download", {"accept"})
      BY <1>1, <1>3, <2>1, <3>1, ReceiverWritesType DEF Goes, SamePart, Early, ReceiverWaits, Reports
    <3> QED BY <3>2
  <2>3. CASE ~accepted
    <3>1. ReceiverWrites(r, "decline") /\ r_at' = [r_at EXCEPT ![r] = "declining"]
          /\ answer' = [answer EXCEPT ![r] = "no"]
      BY <2>1, <2>3 DEF OnTheWire
    <3>2. Goes(r, "declining", {"decline"})
      BY <1>1, <1>3, <2>1, <3>1, ReceiverWritesType DEF Goes, SamePart, Early, ReceiverWaits, Reports
    <3> QED BY <3>2
  <2> QED BY <2>2, <2>3
<1>9. CASE Exports(r)
  <2>1. r_at[r] = "export" /\ r_at' = [r_at EXCEPT ![r] = "reporting"]
        /\ got' = got \cup {r} /\ UNCHANGED <<to_s, answer>>
    BY <1>9 DEF Exports
  <2>2. Goes(r, "reporting", {})
    BY <1>3, <2>1, WritesGoes DEF Goes, SamePart, Early, Reports
  <2> QED BY <2>2
<1>10. CASE ReportsResult(r)
  <2>1. r_at[r] = "reporting" /\ r_at' = [r_at EXCEPT ![r] = "closing"]
        /\ UNCHANGED <<got, answer>>
    BY <1>10 DEF ReportsResult, HasResult, history
  <2>2. PICK m \in {"result", "short_result"} : ReceiverWrites(r, m)
    BY <1>10 DEF ReportsResult
  <2>3. Goes(r, "closing", {m})
    BY <1>1, <1>3, <2>1, <2>2, ReceiverWritesType DEF Goes, SamePart, Early, Reports
  <2> QED BY <2>3
<1>11. CASE PeerClosed(r)
  <2>1. \/ r_at[r] = "declining" /\ ReceiverEnds(r, "declined", <<>>)
        \/ r_at[r] = "closing" /\ ReceiverEnds(r, "completed", <<>>)
    BY <1>11 DEF PeerClosed
  <2> QED BY <2>1, EndsGoes, CarriedShort DEF ReceiverWaits
<1>12. CASE ReceiveFails(r) \/ ReceiverInterrupted(r)
  <2>1. r_at[r] \in {"download", "export", "claiming", "dialing", "hello", "pake", "confirm",
                     "offer", "prompt"}
    BY <1>12 DEF ReceiveFails, ReceiverInterrupted
  <2>2. PICK o \in {"failed", "cancelled"}, ms \in {<<>>, <<"cancel">>} : ReceiverEnds(r, o, ms)
    BY <1>12 DEF ReceiveFails, ReceiverInterrupted
  <2>3. ms \in Seq(Message) /\ Carried(ms) \subseteq {"cancel"}
    BY CarriedShort
  <2>4. /\ r_at[r] \in ReceiverWaits /\ r_at[r] # "closing" /\ r_at[r] # "declining"
        /\ o \in Reports /\ o # "completed" /\ o # "declined"
    BY <2>1 DEF ReceiverWaits, Reports
  <2>5. Goes(r, o, {"cancel"})
    BY <2>2, <2>3, <2>4, EndsGoes
  <2> QED BY <2>5
<1>13. CASE ReceiverLost(r) \/ ReceiverTimesOut(r) \/ ReceiverAborts(r)
  <2>1. r_at[r] \in ReceiverWaits
    BY <1>13 DEF ReceiverLost, ReceiverTimesOut, ReceiverAborts, ReceiverWaits, ReceiverTimedWaits
  <2>2. ReceiverEnds(r, "failed", <<>>) \/ ReceiverEnds(r, "aborted", <<>>)
    BY <1>13 DEF ReceiverLost, ReceiverTimesOut, ReceiverAborts
  <2>3. <<>> \in Seq(Message) /\ Carried(<<>>) \subseteq {"cancel"}
    BY CarriedShort
  <2>4. CASE ReceiverEnds(r, "failed", <<>>)
    <3>1. "failed" \in Reports
      BY DEF Reports
    <3>2. Goes(r, "failed", {"cancel"})
      BY <2>1, <2>3, <2>4, <3>1, EndsGoes
    <3> QED BY <3>2
  <2>5. CASE ReceiverEnds(r, "aborted", <<>>)
    <3>1. "aborted" \in Reports
      BY DEF Reports
    <3>2. Goes(r, "aborted", {"cancel"})
      BY <2>1, <2>3, <2>5, <3>1, EndsGoes
    <3> QED BY <3>2
  <2> QED BY <2>2, <2>4, <2>5
<1>14. CASE ReceiverCtrlC(r)
  <2>1. UNCHANGED <<to_s, got, answer, r_at>>
    BY <1>14 DEF ReceiverCtrlC, history
  <2>2. r_at' = [r_at EXCEPT ![r] = r_at[r]]
    BY <2>1 DEF TypeOK
  <2>3. Goes(r, r_at[r], {})
    BY <1>1, <1>3, <2>1, <2>2, WritesGoes DEF Goes, SamePart, Early, Reports
  <2> QED BY <2>3
<1>15. CASE LinkBreaks(r)
  <2>1. UNCHANGED <<got, answer, r_at>>
    BY <1>15 DEF LinkBreaks, r_vars, history
  <2>2. PICK q \in Prefixes(to_s[r]) : to_s' = [to_s EXCEPT ![r] = q]
    BY <1>15 DEF LinkBreaks
  <2>3. to_s \in [Receivers -> Seq(Message)] /\ to_s[r] \in Seq(Message)
    BY DEF TypeOK
  <2>4. Carried(q) \subseteq Carried(to_s[r])
    BY <2>3, PrefixType
  <2>5. r_at' = [r_at EXCEPT ![r] = r_at[r]]
    BY <2>1 DEF TypeOK
  <2>6. Goes(r, r_at[r], {})
    BY <1>1, <1>3, <2>1, <2>2, <2>3, <2>4, <2>5 DEF Goes, SamePart, Early, Reports
  <2> QED BY <2>6
<1> QED BY <1>4, <1>5, <1>6, <1>7, <1>8, <1>9, <1>10, <1>11, <1>12, <1>13, <1>14, <1>15
        DEF ReceiverFlow

LEMMA ReportNext == TypeOK /\ PairInv /\ ReportInv /\ [Next]_vars => ReportInv'
<1> SUFFICES ASSUME TypeOK, PairInv, ReportInv, [Next]_vars PROVE ReportInv'
  OBVIOUS
<1>1. CASE UNCHANGED vars
  BY <1>1 DEF ReportInv, ExportPlaces, TrueOnTheWay, ReportsAgree, HasReported, HasDeclined,
              vars, s_vars, r_vars, history
<1> QED BY <1>1, SenderHears, HearsReport, ReceiverGoes, GoesReport DEF Next

\* Whatever is lost, torn or cut short, a sender reports completed only of a
\* receiver that got the files, and declined only of one that declined; and the
\* receiver never reports the opposite (send/transfer.rs:61-83, send/mod.rs:335).
THEOREM ReportsMatch == Spec => []ReportsAgree
<1>1. ReportInv => ReportsAgree
  BY DEF ReportInv
<1> QED BY <1>1, Paired, ReportInit, ReportNext, PTL DEF Spec

-----------------------------------------------------------------------------
(* The hand-over the flows implement.                                      *)

LEMMA AnswerInit == Init => AnswerPlaces
BY CarriedShort DEF Init, AnswerPlaces

LEMMA SenderAnswers ==
  ASSUME TypeOK, PairInv, AnswerPlaces,
         SenderFlow \/ TickTearsFrame \/ SenderAborts \/ SenderCtrlC
  PROVE  AnswerPlaces'
<1>1. Hears
  BY SenderHears
<1>2. peer' = peer \/ peer = Nobody
  <2>1. CASE TakesConnection
    BY <2>1 DEF TakesConnection, PairInv, SenderPlaces
  <2> QED BY <2>1 DEF SenderFlow, Publishes, PrepareFails, SenderHello, SenderPake,
         SenderConfirm, SenderRejectsFrame, SenderAccepted, SenderDeclined, SenderCancelled,
         SenderResult, SenderGarbled, SenderInterrupted, SenderLost, SenderTimesOut,
         TickTearsFrame, SenderAborts, SenderCtrlC, SenderEnds, s_vars
<1> QED BY <1>1, <1>2, SessionAssumption DEF AnswerPlaces, Hears

LEMMA ReceiverAnswers ==
  ASSUME TypeOK, PairInv, AnswerPlaces, NEW r \in Receivers, NEW w, NEW ms, Goes(r, w, ms)
  PROVE  AnswerPlaces'
<1>1. r_at[r] = "prompt" => r = peer
  BY DEF PairInv, ReceiverPlaces, OnlyTheRightPairs
<1>2. \A x \in Receivers \ {r} :
        r_at'[x] = r_at[x] /\ answer'[x] = answer[x] /\ to_s'[x] = to_s[x]
  BY DEF Goes, TypeOK
<1>3. r_at'[r] = w /\ peer' = peer
  BY DEF Goes, TypeOK
<1>4. \A x \in Receivers : answer'[x] # "none" => x = peer'
  BY <1>1, <1>2, <1>3 DEF AnswerPlaces, Goes, TypeOK
<1>5. CASE answer' = answer /\ "decline" \notin ms /\ SamePart(r_at[r], w)
  BY <1>2, <1>3, <1>4, <1>5 DEF AnswerPlaces, Goes, SamePart, Early
<1>6. CASE /\ r_at[r] = "prompt" /\ w = "download" /\ "decline" \notin ms
           /\ answer' = [answer EXCEPT ![r] = "yes"]
  <2>1. answer[r] = "none" /\ "decline" \notin Carried(to_s[r])
    BY <1>6 DEF AnswerPlaces
  <2>2. "decline" \notin Carried(to_s'[r]) /\ answer'[r] = "yes"
    BY <1>6, <2>1 DEF Goes, TypeOK
  <2> QED BY <1>2, <1>3, <1>4, <1>6, <2>2 DEF AnswerPlaces
<1>7. CASE r_at[r] = "prompt" /\ w = "declining" /\ answer' = [answer EXCEPT ![r] = "no"]
  <2>1. answer'[r] = "no"
    BY <1>7 DEF TypeOK
  <2> QED BY <1>2, <1>3, <1>4, <1>7, <2>1 DEF AnswerPlaces
<1> QED BY <1>5, <1>6, <1>7 DEF Goes

LEMMA AnswerNext == TypeOK /\ PairInv /\ ReportInv /\ AnswerPlaces /\ [Next]_vars => AnswerPlaces'
<1> SUFFICES ASSUME TypeOK, PairInv, ReportInv, AnswerPlaces, [Next]_vars PROVE AnswerPlaces'
  OBVIOUS
<1>1. CASE UNCHANGED vars
  BY <1>1 DEF AnswerPlaces, vars, s_vars, r_vars, history
<1> QED BY <1>1, SenderAnswers, ReceiverGoes, ReceiverAnswers DEF Next

\* The receivers' reports as Handover sees them.
rBar == [r \in Receivers |-> IF r_at[r] \in Reports THEN r_at[r] ELSE "running"]

LEMMA AbstractReports == Abstract!Reports = Reports /\ "running" \notin Reports
BY DEF Abstract!Reports, Reports

\* A step of the sender reports nothing, or what it has read.
LEMMA SenderHandsOver ==
  ASSUME TypeOK, PairInv, ReportInv, AnswerPlaces,
         SenderFlow \/ TickTearsFrame \/ SenderAborts \/ SenderCtrlC
  PROVE  [Abstract!Next]_(Abstract!vars)
<1>1. Hears
  BY SenderHears
<1>2. UNCHANGED <<r_at, got, answer>>
  BY <1>1 DEF Hears
<1>3. s_at \notin Reports
  BY DEF SenderFlow, Publishes, PrepareFails, TakesConnection, SenderHello, SenderPake,
         SenderConfirm, SenderRejectsFrame, SenderAccepted, SenderDeclined, SenderCancelled,
         SenderResult, SenderGarbled, SenderInterrupted, SenderLost, SenderTimesOut,
         SenderTimedWaits, TickTearsFrame, SenderAborts, SenderCtrlC, SenderWaits, Reports
<1>4. s_at' = "completed" => got # {}
  BY <1>1 DEF Hears, ReportInv, TrueOnTheWay, HasReported
<1>5. s_at' = "declined" => \E r \in Receivers : answer[r] = "no"
  BY <1>1 DEF Hears, AnswerPlaces
<1>6. CASE s_at' \in Reports
  <2>1. Abstract!SenderReports(s_at')
    BY <1>2, <1>3, <1>4, <1>5, <1>6 DEF Abstract!SenderReports
  <2> QED BY <1>6, <2>1, AbstractReports DEF Abstract!Next
<1>7. CASE s_at' \notin Reports
  BY <1>2, <1>3, <1>7 DEF Abstract!vars
<1> QED BY <1>6, <1>7

\* A step of a receive flow answers, exports, reports what is so, or nothing.
LEMMA ReceiverHandsOver ==
  ASSUME TypeOK, PairInv, ReportInv, AnswerPlaces, NEW r \in Receivers, NEW w, NEW ms,
         Goes(r, w, ms)
  PROVE  [Abstract!Next]_(Abstract!vars)
<1>1. r_at' = [r_at EXCEPT ![r] = w] /\ s_at' = s_at
  BY DEF Goes
<1>2. CASE w \notin Reports
  <2>1. r_at[r] \notin Reports
    BY <1>2 DEF Goes
  <2>2. rBar' = rBar /\ rBar[r] = "running"
    BY <1>1, <1>2, <2>1 DEF rBar, TypeOK
  <2>3. CASE UNCHANGED <<answer, got>>
    BY <1>1, <2>2, <2>3 DEF Abstract!vars, rBar
  <2>4. CASE answer' = answer /\ got' = got \cup {r} /\ r_at[r] = "export"
    <3>1. answer[r] = "yes"
      BY <2>4 DEF AnswerPlaces
    <3>2. Abstract!Deliver(r)
      BY <1>1, <2>2, <2>4, <3>1 DEF Abstract!Deliver, rBar
    <3> QED BY <3>2 DEF Abstract!Next
  <2>5. ASSUME NEW a \in {"yes", "no"}, answer' = [answer EXCEPT ![r] = a],
               r_at[r] = "prompt", got' = got
        PROVE  [Abstract!Next]_(Abstract!vars)
    <3>1. r = peer
      BY <2>5 DEF PairInv, ReceiverPlaces, OnlyTheRightPairs
    <3>2. \A q \in Receivers : answer[q] = "none"
      BY <2>5, <3>1 DEF AnswerPlaces
    <3>3. Abstract!Answer(r, a)
      BY <1>1, <2>2, <2>5, <3>2 DEF Abstract!Answer, rBar
    <3> QED BY <3>3 DEF Abstract!Next
  <2> QED BY <2>3, <2>4, <2>5 DEF Goes
<1>3. CASE w \in Reports
  <2>1. UNCHANGED <<answer, got>>
    BY <1>3 DEF Goes, Reports
  <2>2. CASE r_at[r] \in Reports
    <3>1. r_at' = r_at
      BY <1>1, <2>2 DEF Goes, TypeOK
    <3> QED BY <1>1, <2>1, <3>1 DEF Abstract!vars
  <2>3. CASE r_at[r] \notin Reports
    <3>1. rBar[r] = "running" /\ rBar' = [rBar EXCEPT ![r] = w]
      BY <1>1, <1>3, <2>3 DEF rBar, TypeOK
    <3>2. w = "completed" => r \in got
      BY <2>3 DEF Goes, ReportInv, ExportPlaces, Reports
    <3>3. w = "declined" => answer[r] = "no"
      BY <2>3 DEF Goes, AnswerPlaces, Reports
    <3>4. Abstract!ReceiverReports(r, w)
      BY <1>1, <2>1, <3>1, <3>2, <3>3 DEF Abstract!ReceiverReports, rBar
    <3> QED BY <1>3, <3>4, AbstractReports DEF Abstract!Next
  <2> QED BY <2>2, <2>3
<1> QED BY <1>2, <1>3

\* For any number of receivers the flows, with their messages, timers, lost
\* connections and interrupts, hand the files over as Handover says
\* (send/mod.rs:225-342, receive.rs:239-480).
THEOREM HandsOver == Spec => ImplementsHandover
<1>1. Init => Abstract!Init
  BY DEF Init, Abstract!Init, Reports
<1>2. TypeOK /\ PairInv /\ ReportInv /\ AnswerPlaces /\ [Next]_vars
        => [Abstract!Next]_(Abstract!vars)
  <2> SUFFICES ASSUME TypeOK, PairInv, ReportInv, AnswerPlaces, [Next]_vars
               PROVE  [Abstract!Next]_(Abstract!vars)
    OBVIOUS
  <2>1. CASE UNCHANGED vars
    BY <2>1 DEF vars, s_vars, r_vars, history, Abstract!vars
  <2> QED BY <2>1, SenderHandsOver, ReceiverGoes, ReceiverHandsOver DEF Next
<1> QED BY <1>1, <1>2, Paired, ReportInit, ReportNext, AnswerInit, AnswerNext, PTL
        DEF Spec, ImplementsHandover, Abstract!Spec
=============================================================================
