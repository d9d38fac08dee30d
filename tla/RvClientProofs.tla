--------------------------- MODULE RvClientProofs ---------------------------
(***************************************************************************)
(* The mailbox clients under the flows, for every word list and every      *)
(* number of senders, receivers and nameplates: types, that a claim reads  *)
(* the ticket of its code and not too late, that a waiting sender's ticket *)
(* is kept, and what may be left behind.                                   *)
(***************************************************************************)
EXTENDS RvClient, SequenceTheorems, TLAPS

-----------------------------------------------------------------------------
(* Codes.                                                                  *)

\* A code that was drawn can be typed: it passes validate, and split takes it
\* apart into what it was made of (wordcode.rs).
LEMMA DrawnCodesSplit ==
  ASSUME NEW c \in Codes
  PROVE  /\ Validates(Display(c)) /\ Splits(Display(c)) /\ Split(Display(c)) = c
         /\ c # NoCode /\ c.nameplate \in 1 .. NameplateMax
         /\ \A i \in DOMAIN c.words : c.words[i] \in [word : Wordlist, spelling : {"lower"}]
         /\ c = [nameplate |-> c.nameplate, words |-> c.words]
<1>1. PICK n \in 1 .. NameplateMax : c \in Generate(n)
  BY DEF Codes
<1>2. PICK ws \in [1 .. WordCount -> [word : Wordlist, spelling : {"lower"}]] :
        IsInjective(ws) /\ c = [nameplate |-> n, words |-> ws]
  BY <1>1 DEF Generate
<1>3. WordCount \in Nat /\ WordCount # 0 /\ NameplateMax \in Nat
  BY WordCodeAssumption
<1>4. Len(ws) = WordCount /\ DOMAIN ws = 1 .. WordCount /\ ws # <<>>
  BY <1>3
<1>5. \A i \in DOMAIN ws : ws[i].spelling = "lower"
  BY <1>4
<1> QED BY <1>2, <1>3, <1>4, <1>5 DEF Validates, Splits, Split, Display, ParsesPlate, NoCode

\* validate accepts what generate can draw and nothing else: any other number of
\* words, spelling, repetition or nameplate is refused (wordcode.rs:39-125).
THEOREM ValidatesTheDrawn ==
  ASSUME NEW t \in Text
  PROVE  Validates(t) <=> \E c \in Codes : t = Display(c)
<1>1. ASSUME Validates(t) PROVE \E c \in Codes : t = Display(c)
  <2>1. /\ t.words \in Seq(Word) /\ Len(t.words) = WordCount /\ IsInjective(t.words)
        /\ t.plate \in Plate /\ t.plate.digits /\ t.plate.value \in 1 .. NameplateMax
        /\ t.hyphen
    BY <1>1 DEF Validates, Text, ParsesPlate
  <2>2. DOMAIN t.words = 1 .. WordCount
    BY <2>1, LenProperties
  <2>3. ASSUME NEW i \in 1 .. WordCount
        PROVE  t.words[i] \in [word : Wordlist, spelling : {"lower"}]
    <3>1. t.words[i].spelling = "lower"
      BY <1>1, <2>2 DEF Validates
    <3>2. t.words[i] \in Word
      BY <2>1, ElementOfSeq
    <3> QED BY <3>1, <3>2 DEF Word
  <2>4. t.words \in [1 .. WordCount -> [word : Wordlist, spelling : {"lower"}]]
    BY <2>1, <2>2, <2>3, LenProperties
  <2> DEFINE c == [nameplate |-> t.plate.value, words |-> t.words]
  <2>5. c \in Codes
    BY <2>1, <2>4 DEF Codes, Generate
  <2>6. t.plate = [digits |-> TRUE, value |-> t.plate.value]
    BY <2>1 DEF Plate
  <2>7. t = [hyphen |-> TRUE, plate |-> t.plate, words |-> t.words]
    BY <2>1 DEF Text
  <2>8. t = Display(c)
    BY <2>6, <2>7 DEF Display
  <2> QED BY <2>5, <2>8
<1> QED BY <1>1, DrawnCodesSplit

\* Lower case is how codes are drawn, so the topic's normalisation leaves them.
LEMMA DrawnCodesNormal ==
  ASSUME NEW c \in Codes
  PROVE  Normalised(c.words) = c.words
<1>1. c.words \in [1 .. WordCount -> [word : Wordlist, spelling : {"lower"}]]
  BY DEF Codes, Generate
<1>2. \A i \in 1 .. WordCount : Lower(c.words[i]) = c.words[i]
  BY <1>1 DEF Lower
<1> QED BY <1>1, <1>2 DEF Normalised

\* On a broker two codes that were drawn share an address only if they are one.
LEMMA AddressesApart ==
  ASSUME NEW c \in Codes, NEW d \in Codes, ~Http, Address(c) = Address(d)
  PROVE  c = d
<1>1. c.nameplate = d.nameplate /\ c.words = d.words
  BY DrawnCodesNormal DEF Address
<1> QED BY <1>1, DrawnCodesSplit

LEMMA AddressTypes ==
  /\ \A c \in Codes : Address(c) \in Addresses
  /\ \A t \in Typed : Splits(t) => Address(Split(t)) \in Addresses
<1>1. ASSUME NEW c \in Codes PROVE Address(c) \in Addresses
  BY DrawnCodesSplit DEF Address, Addresses
<1>2. ASSUME NEW t \in Typed, Splits(t) PROVE Address(Split(t)) \in Addresses
  <2>1. Split(t).nameplate \in 1 .. NameplateMax
    BY <1>2 DEF Splits, Split, ParsesPlate
  <2> QED BY <1>2, <2>1 DEF Address, Addresses
<1> QED BY <1>1, <1>2

\* The key confirmation accepts the other side exactly if it has the same words
\* (spake.rs, handshake.rs).
LEMMA AgreeOnTheWords ==
  ASSUME NEW sent, NEW received
  PROVE  Agree(sent, received) <=> sent = received
BY DEF Agree, StartPake, FinishPake, ConfirmToken, VerifyConfirm, IsPake, IsConfirm

-----------------------------------------------------------------------------
(* Connections and what they carry.                                        *)

LEMMA ConnFacts ==
  /\ \A s \in Senders : Open(s) \in Conns /\ Closing(s) \in Conns
  /\ \A r \in Receivers : Claiming(r) \in Conns
  /\ \A s, t \in Senders : Open(s) # Closing(t) /\ (Open(s) = Open(t) => s = t)
                           /\ (Closing(s) = Closing(t) => s = t)
  /\ \A s \in Senders, r \in Receivers : Open(s) # Claiming(r) /\ Closing(s) # Claiming(r)
  /\ \A q, r \in Receivers : Claiming(q) = Claiming(r) => q = r
  /\ \A s \in Senders : Open(s)[1] = s /\ Closing(s)[1] = s
  /\ \A r \in Receivers : Claiming(r)[1] = r
  /\ \A c \in Conns : \/ \E s \in Senders : c = Open(s) \/ c = Closing(s)
                      \/ \E r \in Receivers : c = Claiming(r)
  /\ Senders \cap Receivers = {}
BY RvClientAssumption DEF Conns, Open, Closing, Claiming

LEMMA TicketFacts ==
  NoTicket \notin Senders /\ Claimed \notin Senders /\ NoTicket # Claimed
BY RvClientAssumption

LEMMA RequestTypes ==
  /\ \A s \in Senders : Allocate(s) \in Request
  /\ \A a \in Addresses, s \in Senders : Store(a, s) \in Request
  /\ \A a \in Addresses : Clear(a) \in Request /\ Subscribe(a) \in Request /\ Claim(a) \in Request
BY DEF Request, Allocate, Store, Clear, Subscribe, Claim

LEMMA RequestKinds ==
  /\ \A s \in Senders : Allocate(s).kind = "allocate"
  /\ \A a \in Addresses : \A s \in Senders :
       Store(a, s).kind = "publish" /\ Store(a, s).address = a /\ Store(a, s).ticket = s
                                    /\ Store(a, s).retain
  /\ \A a \in Addresses :
       /\ Clear(a).kind = "publish" /\ Clear(a).address = a /\ Clear(a).ticket = NoTicket
       /\ Clear(a).retain
       /\ Subscribe(a).kind = "subscribe" /\ Subscribe(a).address = a
       /\ Claim(a).kind = "claim" /\ Claim(a).address = a
BY DEF Allocate, Store, Clear, Subscribe, Claim

LEMMA AnswerTypes ==
  /\ \A n \in 1 .. NameplateMax : Created(n) \in Answer
  /\ \A x \in Senders \cup {NoTicket} : Payload(x) \in Answer
  /\ Refused \in Answer
BY WordCodeAssumption DEF Answer, Created, Payload, Refused

\* A queue after its head was taken, or one element was put at its end.
LEMMA QueueFacts ==
  ASSUME NEW S, NEW q \in Seq(S)
  PROVE  /\ \A x \in S : /\ Append(q, x) \in Seq(S) /\ <<x>> \in Seq(S) /\ Append(q, x) # <<>>
                         /\ \A i \in DOMAIN Append(q, x) :
                              \/ i \in DOMAIN q /\ Append(q, x)[i] = q[i]
                              \/ Append(q, x)[i] = x
         /\ q # <<>> => /\ Head(q) \in S /\ Tail(q) \in Seq(S)
                        /\ 1 \in DOMAIN q /\ Head(q) = q[1]
                        /\ \A i \in DOMAIN Tail(q) : i + 1 \in DOMAIN q /\ Tail(q)[i] = q[i + 1]
         /\ <<>> \in Seq(S) /\ \A i \in DOMAIN q : q[i] \in S
<1>1. ASSUME NEW x \in S
      PROVE  /\ Append(q, x) \in Seq(S) /\ <<x>> \in Seq(S) /\ Append(q, x) # <<>>
             /\ \A i \in DOMAIN Append(q, x) :
                  \/ i \in DOMAIN q /\ Append(q, x)[i] = q[i]
                  \/ Append(q, x)[i] = x
  <2>1. /\ Append(q, x) \in Seq(S) /\ DOMAIN Append(q, x) = 1 .. Len(q) + 1
        /\ DOMAIN q = 1 .. Len(q) /\ Len(q) \in Nat
        /\ \A i \in 1 .. Len(q) : Append(q, x)[i] = q[i]
        /\ Append(q, x)[Len(q) + 1] = x
    BY AppendProperties, LenProperties
  <2>2. <<x>> \in Seq(S)
    OBVIOUS
  <2>4. Append(q, x) # <<>>
    BY <2>1
  <2>3. ASSUME NEW i \in DOMAIN Append(q, x), i \notin DOMAIN q PROVE i = Len(q) + 1
    BY <2>1, <2>3
  <2> QED BY <2>1, <2>2, <2>3, <2>4
<1>2. ASSUME q # <<>>
      PROVE  /\ Head(q) \in S /\ Tail(q) \in Seq(S) /\ 1 \in DOMAIN q /\ Head(q) = q[1]
             /\ \A i \in DOMAIN Tail(q) : i + 1 \in DOMAIN q /\ Tail(q)[i] = q[i + 1]
  BY <1>2, HeadTailProperties, LenProperties, EmptySeq
<1> QED BY <1>1, <1>2

LEMMA Singles ==
  ASSUME NEW x
  PROVE  Tail(<<x>>) = <<>> /\ Head(<<x>>) = x /\ <<x>> # <<>> /\ Append(<<>>, x) = <<x>>
OBVIOUS

-----------------------------------------------------------------------------
(* What a step leaves alone.                                               *)

\* Each action changes few variables: who draws codes, reads tickets, begins
\* claims, and who works on what is stored.
LEMMA WhoDoesWhat ==
  ASSUME [Next]_vars
  PROVE  /\ UNCHANGED <<scheme, typed>>
         /\ UNCHANGED code \/ \E s \in Senders : AllocatedHttp(s) \/ AllocatesMqtt(s)
         /\ UNCHANGED ticket \/ \E r \in Receivers : ReadsTicket(r)
         /\ UNCHANGED tooLate \/ \E r \in Receivers : StartsClaim(r)
         /\ \/ UNCHANGED <<slot, landed, spent>>
            \/ \E s \in Senders : ServerAllocates(s)
            \/ \E r \in Receivers : ServerClaims(r)
            \/ \E c \in Conns : BrokerPublishes(c)
         /\ UNCHANGED mate \/ \E r \in Receivers : Pairs(r)
         /\ UNCHANGED subscribed \/ \E r \in Receivers : BrokerSubscribes(r)
<1>1. CASE UNCHANGED vars
  BY <1>1 DEF vars
<1>2. ASSUME NEW s \in Senders, SendFlow(s)
      PROVE  UNCHANGED <<scheme, typed, ticket, tooLate, slot, landed, spent, mate, subscribed>>
             /\ (UNCHANGED code \/ AllocatedHttp(s) \/ AllocatesMqtt(s))
  BY <1>2 DEF SendFlow, AllocatesHttp, Publishes, PublishFails, Unwinds, CleansUp, CleanupFails,
              FlowTimesOut, AllocatedHttp, AllocatesMqtt, broker, history
<1>3. ASSUME NEW r \in Receivers, ReceiveFlow(r)
      PROVE  UNCHANGED <<scheme, typed, code, slot, landed, spent, subscribed>>
             /\ (UNCHANGED ticket \/ ReadsTicket(r))
             /\ (UNCHANGED tooLate \/ StartsClaim(r))
             /\ (UNCHANGED mate \/ Pairs(r))
  BY <1>3 DEF ReceiveFlow, RefusesCode, StartsClaim, SkipsEmpty, ReadsTicket, ClearsTicket,
              ClaimFails, Pairs, PairingFails, broker, history
<1>4. ASSUME NEW r \in Receivers, BrokerSubscribes(r)
      PROVE  UNCHANGED <<scheme, typed, code, ticket, tooLate, slot, landed, spent, mate>>
  BY <1>4 DEF BrokerSubscribes, history
<1>5. ASSUME NEW c \in Conns, Breaks(c)
      PROVE  UNCHANGED <<scheme, typed, code, ticket, tooLate, slot, landed, spent, mate, subscribed>>
  BY <1>5 DEF Breaks, broker
<1>6. ASSUME NEW s \in Senders, ServerAllocates(s)
      PROVE  UNCHANGED <<scheme, typed, code, ticket, tooLate, mate, subscribed>>
  BY <1>6 DEF ServerAllocates
<1>7. ASSUME NEW r \in Receivers, ServerClaims(r)
      PROVE  UNCHANGED <<scheme, typed, code, ticket, tooLate, mate, subscribed>>
  BY <1>7 DEF ServerClaims
<1>8. ASSUME NEW c \in Conns, BrokerPublishes(c)
      PROVE  UNCHANGED <<scheme, typed, code, ticket, tooLate, mate, subscribed>>
  BY <1>8 DEF BrokerPublishes
<1>a. CASE \E s \in Senders : SendFlow(s)
  BY <1>2, <1>a
<1>b. CASE \E r \in Receivers : ReceiveFlow(r)
  BY <1>3, <1>b
<1>c. CASE \E s \in Senders : ServerAllocates(s)
  <2>1. PICK s \in Senders : ServerAllocates(s)
    BY <1>c
  <2> QED BY <2>1, <1>6
<1>d. CASE \E r \in Receivers : ServerClaims(r)
  <2>1. PICK r \in Receivers : ServerClaims(r)
    BY <1>d
  <2> QED BY <2>1, <1>7
<1>e. CASE \E r \in Receivers : BrokerSubscribes(r)
  <2>1. PICK r \in Receivers : BrokerSubscribes(r)
    BY <1>e
  <2> QED BY <2>1, <1>4
<1>f. CASE \E c \in Conns : BrokerPublishes(c)
  <2>1. PICK c \in Conns : BrokerPublishes(c)
    BY <1>f
  <2> QED BY <2>1, <1>8
<1>g. CASE \E c \in Conns : Breaks(c)
  <2>1. PICK c \in Conns : Breaks(c)
    BY <1>g
  <2> QED BY <2>1, <1>5
<1> QED BY <1>1, <1>a, <1>b, <1>c, <1>d, <1>e, <1>f, <1>g DEF Next, Network

LEMMA WhoMoves ==
  ASSUME [Next]_vars
  PROVE  /\ \/ UNCHANGED at
            \/ \E s \in Senders : SendFlow(s)
            \/ \E r \in Receivers : ReceiveFlow(r)
            \/ \E c \in Conns : Breaks(c)
         /\ \/ UNCHANGED why
            \/ \E s \in Senders : PublishFails(s) \/ CleanupFails(s) \/ FlowTimesOut(s)
            \/ \E c \in Conns : BrokerPublishes(c) \/ Breaks(c)
<1>1. CASE UNCHANGED vars
  BY <1>1 DEF vars
<1>2. ASSUME NEW s \in Senders, SendFlow(s)
      PROVE  UNCHANGED why \/ PublishFails(s) \/ CleanupFails(s) \/ FlowTimesOut(s)
  BY <1>2 DEF SendFlow, AllocatesHttp, Publishes, Unwinds, CleansUp, AllocatedHttp, AllocatesMqtt,
              history
<1>3. ASSUME NEW r \in Receivers, ReceiveFlow(r) PROVE UNCHANGED why
  BY <1>3 DEF ReceiveFlow, RefusesCode, StartsClaim, SkipsEmpty, ReadsTicket, ClearsTicket,
              ClaimFails, Pairs, PairingFails, history
<1>4. ASSUME NEW s \in Senders, ServerAllocates(s) PROVE UNCHANGED <<at, why>>
  BY <1>4 DEF ServerAllocates
<1>5. ASSUME NEW r \in Receivers, ServerClaims(r) \/ BrokerSubscribes(r)
      PROVE  UNCHANGED <<at, why>>
  BY <1>5 DEF ServerClaims, BrokerSubscribes, history
<1>6. ASSUME NEW c \in Conns, BrokerPublishes(c) PROVE UNCHANGED at
  BY <1>6 DEF BrokerPublishes
<1>a. CASE \E s \in Senders : SendFlow(s)
  BY <1>2, <1>a
<1>b. CASE \E r \in Receivers : ReceiveFlow(r)
  BY <1>3, <1>b
<1>c. CASE \E s \in Senders : ServerAllocates(s)
  <2>1. PICK s \in Senders : ServerAllocates(s)
    BY <1>c
  <2> QED BY <2>1, <1>4
<1>d. CASE \E r \in Receivers : ServerClaims(r)
  <2>1. PICK r \in Receivers : ServerClaims(r)
    BY <1>d
  <2> QED BY <2>1, <1>5
<1>e. CASE \E r \in Receivers : BrokerSubscribes(r)
  <2>1. PICK r \in Receivers : BrokerSubscribes(r)
    BY <1>e
  <2> QED BY <2>1, <1>5
<1>f. CASE \E c \in Conns : BrokerPublishes(c)
  <2>1. PICK c \in Conns : BrokerPublishes(c)
    BY <1>f
  <2> QED BY <2>1, <1>6
<1>g. CASE \E c \in Conns : Breaks(c)
  <2>1. PICK c \in Conns : Breaks(c)
    BY <1>g
  <2> QED BY <2>1
<1> QED BY <1>1, <1>a, <1>b, <1>c, <1>d, <1>e, <1>f, <1>g DEF Next, Network

\* A code, once drawn, and a ticket, once read, stay; what landed and what was
\* spent stay so; and a sender whose ticket landed is told no other nameplate.
LEMMA Steady ==
  ASSUME Inv, [Next]_vars
  PROVE  /\ landed \subseteq landed' /\ spent \subseteq spent'
         /\ \A s \in Senders : code[s] # NoCode => code'[s] = code[s]
         /\ \A s \in landed : Mqtt => code'[s] = code[s]
         /\ \A r \in Receivers : ticket[r] # NoTicket => ticket'[r] = ticket[r]
<1> USE DEF Inv, PlaceInv
<1>1. landed \subseteq landed' /\ spent \subseteq spent'
  BY WhoDoesWhat DEF ServerAllocates, ServerClaims, BrokerPublishes
<1>2. ASSUME NEW s \in Senders, AllocatedHttp(s)
      PROVE  code[s] = NoCode /\ Http /\ \A t \in Senders \ {s} : code'[t] = code[t]
  BY <1>2 DEF AllocatedHttp, Queues, CodePlaces, WireInv, ToldOnce
<1>3. ASSUME NEW s \in Senders, AllocatesMqtt(s)
      PROVE  code[s] = NoCode /\ s \notin landed /\ \A t \in Senders \ {s} : code'[t] = code[t]
  BY <1>3 DEF AllocatesMqtt, Queues, CodePlaces
<1>4. \A s \in Senders : code[s] # NoCode => code'[s] = code[s]
  BY <1>2, <1>3, WhoDoesWhat
<1>5. landed \subseteq Senders
  BY DEF TypeOK
<1>6. ASSUME NEW s \in landed, Mqtt PROVE code'[s] = code[s]
  <2>1. ~Http
    BY <1>6 DEF Mqtt, Http
  <2> QED BY <1>2, <1>3, <1>5, <2>1, WhoDoesWhat
<1>7. ASSUME NEW r \in Receivers, ticket[r] # NoTicket PROVE ticket'[r] = ticket[r]
  BY <1>7, WhoDoesWhat DEF ReadsTicket, TicketPlaces, TypeOK
<1> QED BY <1>1, <1>4, <1>6, <1>7

-----------------------------------------------------------------------------
(* Types and places.                                                       *)

LEMMA InvParts ==
  ASSUME Inv
  PROVE  /\ TypeOK /\ Queues /\ CodePlaces /\ TicketPlaces
         /\ OpensOnce /\ ClosesItsOwn /\ ClaimsAsAsked /\ ToldOnce /\ AnswersAsAsked
         /\ StoredWhereLed /\ StoredOnce /\ OnlyServerMarks /\ SpentLanded /\ ServerKeeps
         /\ KeptWhileWaiting /\ ClearedBehind /\ MatesPlaces /\ PairedWithTheWords
BY DEF Inv, PlaceInv, WireInv, StoreInv, EndInv

LEMMA TypeParts ==
  ASSUME Inv
  PROVE  /\ scheme \in Schemes
         /\ at \in [Senders \cup Receivers -> SenderPlaces \cup ReceiverPlaces]
         /\ \A s \in Senders : at[s] \in SenderPlaces
         /\ \A r \in Receivers : at[r] \in ReceiverPlaces
         /\ code \in [Senders -> Codes \cup {NoCode}]
         /\ typed \in [Receivers -> Typed]
         /\ ticket \in [Receivers -> Senders \cup {NoTicket}]
         /\ slot \in [Addresses -> Senders \cup {NoTicket, Claimed}]
         /\ subscribed \subseteq Receivers
         /\ up \in [Conns -> Seq(Request)] /\ down \in [Conns -> Seq(Answer)]
         /\ mate \in [Receivers -> Senders \cup {NoTicket}]
         /\ landed \subseteq Senders /\ spent \subseteq Senders
         /\ tooLate \in [Receivers -> SUBSET Senders]
         /\ why \in [Senders -> SUBSET {"publish failed", "cleanup failed", "dropped", "overtaken"}]
<1>1. Queues /\ TypeOK
  BY InvParts
<1>2. /\ at \in [Senders \cup Receivers -> SenderPlaces \cup ReceiverPlaces]
      /\ code \in [Senders -> Codes \cup {NoCode}]
      /\ up \in [Conns -> Seq(Request)] /\ down \in [Conns -> Seq(Answer)]
  BY <1>1 DEF Queues
<1>3. /\ \A s \in Senders : at[s] \in SenderPlaces
      /\ \A r \in Receivers : at[r] \in ReceiverPlaces
  BY <1>1 DEF TypeOK, SenderPlaces, ReceiverPlaces
<1>4. /\ scheme \in Schemes /\ typed \in [Receivers -> Typed]
      /\ ticket \in [Receivers -> Senders \cup {NoTicket}]
      /\ slot \in [Addresses -> Senders \cup {NoTicket, Claimed}]
      /\ subscribed \subseteq Receivers
      /\ mate \in [Receivers -> Senders \cup {NoTicket}]
      /\ landed \subseteq Senders /\ spent \subseteq Senders
      /\ tooLate \in [Receivers -> SUBSET Senders]
      /\ why \in [Senders -> SUBSET {"publish failed", "cleanup failed", "dropped", "overtaken"}]
  BY <1>1 DEF TypeOK
<1> QED BY <1>2, <1>3, <1>4

\* What the server or broker takes from a connection.
LEMMA HeadOfQueue ==
  ASSUME Inv, NEW c \in Conns, up[c] # <<>>
  PROVE  /\ up[c] \in Seq(Request) /\ Head(up[c]) \in Request /\ Tail(up[c]) \in Seq(Request)
         /\ 1 \in DOMAIN up[c] /\ Head(up[c]) = up[c][1]
         /\ \A i \in DOMAIN Tail(up[c]) : i + 1 \in DOMAIN up[c] /\ Tail(up[c])[i] = up[c][i + 1]
<1>1. up[c] \in Seq(Request)
  BY TypeParts
<1> QED BY <1>1, QueueFacts

LEMMA ClaimHead ==
  ASSUME Inv, NEW r \in Receivers, up[Claiming(r)] # <<>>
  PROVE  /\ Splits(typed[r]) /\ Asked(r) \in Addresses
         /\ \/ Http /\ Head(up[Claiming(r)]) = Claim(Asked(r))
            \/ Mqtt /\ Head(up[Claiming(r)]) = Subscribe(Asked(r))
            \/ Mqtt /\ Head(up[Claiming(r)]) = Clear(Asked(r)) /\ ticket[r] \in Senders
<1>1. 1 \in DOMAIN up[Claiming(r)] /\ Head(up[Claiming(r)]) = up[Claiming(r)][1]
  BY HeadOfQueue, ConnFacts
<1>2. /\ Splits(typed[r])
      /\ \/ Http /\ Head(up[Claiming(r)]) = Claim(Asked(r))
         \/ Mqtt /\ Head(up[Claiming(r)]) = Subscribe(Asked(r))
         \/ Mqtt /\ Head(up[Claiming(r)]) = Clear(Asked(r)) /\ ticket[r] # NoTicket
  BY <1>1, InvParts DEF ClaimsAsAsked
<1>3. typed[r] \in Typed /\ (ticket[r] # NoTicket => ticket[r] \in Senders)
  BY TypeParts
<1> QED BY <1>2, <1>3, AddressTypes DEF Asked

LEMMA AllocateFacts ==
  ASSUME Inv, NEW s \in Senders, ServerAllocates(s)
  PROVE  /\ Http /\ code[s] = NoCode /\ at[s] # "start" /\ s \notin landed
         /\ up[Open(s)] = <<Allocate(s)>> /\ up' = [up EXCEPT ![Open(s)] = <<>>]
<1>1. up[Open(s)] # <<>> /\ Head(up[Open(s)]).kind = "allocate"
      /\ up' = [up EXCEPT ![Open(s)] = Tail(@)]
  BY DEF ServerAllocates, Takes, Taken
<1>2. up[Open(s)] # <<Store(Address(code[s]), s)>>
  BY <1>1 DEF Store
<1>3. /\ Http /\ code[s] = NoCode /\ at[s] # "start" /\ s \notin landed
      /\ up[Open(s)] = <<Allocate(s)>>
  BY <1>1, <1>2, InvParts DEF OpensOnce
<1>4. Tail(up[Open(s)]) = <<>>
  BY <1>3
<1> QED BY <1>1, <1>3, <1>4

LEMMA ClaimFacts ==
  ASSUME Inv, NEW r \in Receivers, ServerClaims(r)
  PROVE  /\ Http /\ Splits(typed[r]) /\ Asked(r) \in Addresses
         /\ Head(up[Claiming(r)]) = Claim(Asked(r)) /\ Head(up[Claiming(r)]).address = Asked(r)
<1>1. up[Claiming(r)] # <<>> /\ Head(up[Claiming(r)]).kind = "claim"
  BY DEF ServerClaims, Takes
<1>2. /\ Splits(typed[r]) /\ Asked(r) \in Addresses
      /\ \/ Http /\ Head(up[Claiming(r)]) = Claim(Asked(r))
         \/ Head(up[Claiming(r)]) = Subscribe(Asked(r)) \/ Head(up[Claiming(r)]) = Clear(Asked(r))
  BY <1>1, ClaimHead
<1> QED BY <1>1, <1>2, RequestKinds

LEMMA SubscribeFacts ==
  ASSUME Inv, NEW r \in Receivers, BrokerSubscribes(r)
  PROVE  /\ Mqtt /\ Splits(typed[r]) /\ Asked(r) \in Addresses
         /\ Head(up[Claiming(r)]) = Subscribe(Asked(r)) /\ Head(up[Claiming(r)]).address = Asked(r)
<1>1. up[Claiming(r)] # <<>> /\ Head(up[Claiming(r)]).kind = "subscribe"
  BY DEF BrokerSubscribes, Takes
<1>2. /\ Splits(typed[r]) /\ Asked(r) \in Addresses
      /\ \/ Mqtt /\ Head(up[Claiming(r)]) = Subscribe(Asked(r))
         \/ Head(up[Claiming(r)]) = Claim(Asked(r)) \/ Head(up[Claiming(r)]) = Clear(Asked(r))
  BY <1>1, ClaimHead
<1> QED BY <1>1, <1>2, RequestKinds

LEMMA PublishFacts ==
  ASSUME Inv, NEW c \in Conns, BrokerPublishes(c)
  PROVE  /\ Mqtt /\ up[c] # <<>>
         /\ \/ \E s \in Senders :
                 /\ c = Open(s) /\ code[s] \in Codes /\ at[s] \notin {"start", "publishing"}
                 /\ s \notin landed
                 /\ up[c] = <<Store(Address(code[s]), s)>> /\ Head(up[c]) = Store(Address(code[s]), s)
            \/ \E s \in Senders :
                 /\ c = Closing(s) /\ code[s] \in Codes /\ at[s] = "done"
                 /\ up[c] = <<Clear(Address(code[s]))>> /\ Head(up[c]) = Clear(Address(code[s]))
            \/ \E r \in Receivers :
                 /\ c = Claiming(r) /\ Splits(typed[r]) /\ Asked(r) \in Addresses
                 /\ ticket[r] \in Senders /\ Head(up[c]) = Clear(Asked(r))
<1>1. up[c] # <<>> /\ Head(up[c]).kind = "publish"
  BY DEF BrokerPublishes, Takes
<1>2. CASE \E s \in Senders : c = Open(s)
  <2>1. PICK s \in Senders : c = Open(s)
    BY <1>2
  <2>2. up[c] # <<Allocate(s)>>
    BY <1>1 DEF Allocate
  <2>3. /\ s \notin landed /\ Mqtt /\ code[s] \in Codes /\ at[s] \notin {"start", "publishing"}
        /\ up[c] = <<Store(Address(code[s]), s)>>
    BY <1>1, <2>1, <2>2, InvParts DEF OpensOnce
  <2> QED BY <1>1, <2>1, <2>3
<1>3. CASE \E s \in Senders : c = Closing(s)
  <2>1. PICK s \in Senders : c = Closing(s)
    BY <1>3
  <2>2. Mqtt /\ at[s] = "done" /\ code[s] \in Codes /\ up[c] = <<Clear(Address(code[s]))>>
    BY <1>1, <2>1, InvParts DEF ClosesItsOwn
  <2> QED BY <1>1, <2>1, <2>2
<1>4. CASE \E r \in Receivers : c = Claiming(r)
  <2>1. PICK r \in Receivers : c = Claiming(r)
    BY <1>4
  <2>2. /\ Splits(typed[r]) /\ Asked(r) \in Addresses
        /\ \/ Mqtt /\ Head(up[c]) = Clear(Asked(r)) /\ ticket[r] \in Senders
           \/ Head(up[c]) = Claim(Asked(r)) \/ Head(up[c]) = Subscribe(Asked(r))
    BY <1>1, <2>1, ClaimHead
  <2> QED BY <1>1, <2>1, <2>2, RequestKinds
<1> QED BY <1>2, <1>3, <1>4, ConnFacts

\* A server tells a sender a nameplate that it can draw words for.
LEMMA ToldPlate ==
  ASSUME Inv, NEW s \in Senders, down[Open(s)] # <<>>
  PROVE  /\ at[s] = "allocating" /\ Http /\ s \in landed
         /\ \E n \in 1 .. NameplateMax : /\ down[Open(s)] = <<Created(n)>>
                                         /\ Head(down[Open(s)]).nameplate = n
                                         /\ Generate(n) \subseteq Codes
<1>1. PICK n \in 1 .. NameplateMax : down[Open(s)] = <<Created(n)>>
  BY InvParts DEF ToldOnce
<1>2. Head(down[Open(s)]).nameplate = n
  BY <1>1 DEF Created
<1>3. Generate(n) \subseteq Codes
  BY DEF Codes
<1> QED BY <1>1, <1>2, <1>3, InvParts DEF ToldOnce

\* Where a step of a send flow leads.
LEMMA SenderMoves ==
  ASSUME Inv, NEW s \in Senders, SendFlow(s)
  PROVE  \E w \in SenderPlaces :
           /\ at' = [at EXCEPT ![s] = w]
           /\ \/ at[s] = "start" /\ w = "allocating" /\ Http /\ UNCHANGED code
              \/ at[s] = "start" /\ w = "publishing" /\ Mqtt /\ AllocatesMqtt(s)
              \/ at[s] = "allocating" /\ w = "waiting" /\ Http /\ AllocatedHttp(s)
              \/ at[s] = "publishing" /\ w = "waiting" /\ UNCHANGED code
              \/ at[s] \in {"waiting", "paired"} /\ w = "cleaning" /\ UNCHANGED code
              \/ at[s] # "done" /\ w = "done" /\ UNCHANGED code
<1>1. CASE AllocatesHttp(s)
  BY <1>1 DEF AllocatesHttp, Goes, SenderPlaces
<1>2. CASE AllocatedHttp(s)
  <2>1. at[s] = "allocating" /\ Http
    BY <1>2, ToldPlate DEF AllocatedHttp
  <2> QED BY <1>2, <2>1 DEF AllocatedHttp, Goes, SenderPlaces
<1>3. CASE AllocatesMqtt(s)
  BY <1>3 DEF AllocatesMqtt, Goes, SenderPlaces
<1>4. CASE Publishes(s)
  BY <1>4 DEF Publishes, Goes, SenderPlaces
<1>5. CASE PublishFails(s) \/ CleansUp(s) \/ CleanupFails(s) \/ FlowTimesOut(s)
  BY <1>5 DEF PublishFails, CleansUp, CleanupFails, FlowTimesOut, Goes, SenderPlaces
<1>6. CASE Unwinds(s)
  BY <1>6 DEF Unwinds, Goes, SenderPlaces
<1> QED BY <1>1, <1>2, <1>3, <1>4, <1>5, <1>6 DEF SendFlow

\* Where a step of a receive flow leads.
LEMMA ReceiverMoves ==
  ASSUME Inv, NEW r \in Receivers, ReceiveFlow(r)
  PROVE  \/ /\ Pairs(r) /\ UNCHANGED ticket
            /\ ticket[r] \in Senders /\ at[ticket[r]] = "waiting" /\ at[r] = "claimed"
            /\ \/ at' = [at EXCEPT ![r] = "paired", ![ticket[r]] = "paired"]
               \/ at' = [at EXCEPT ![r] = "failed", ![ticket[r]] = "cleaning"]
         \/ \E w \in ReceiverPlaces :
              /\ at' = [at EXCEPT ![r] = w]
              /\ \/ at[r] = "start" /\ w \in {"claiming", "failed"} /\ UNCHANGED ticket
                 \/ at[r] = "claiming" /\ w = "claiming" /\ UNCHANGED ticket
                 \/ at[r] = "claiming" /\ w \in {"clearing", "claimed"} /\ ReadsTicket(r)
                 \/ at[r] = "clearing" /\ w = "claimed" /\ UNCHANGED ticket
                 \/ at[r] \in {"claiming", "clearing", "claimed"} /\ w = "failed" /\ UNCHANGED ticket
<1>1. CASE RefusesCode(r)
  BY <1>1 DEF RefusesCode, Goes, ReceiverPlaces
<1>2. CASE StartsClaim(r)
  BY <1>2 DEF StartsClaim, Goes, ReceiverPlaces
<1>3. CASE SkipsEmpty(r)
  <2>1. at' = [at EXCEPT ![r] = "claiming"]
    BY <1>3, InvParts DEF SkipsEmpty, Queues
  <2> QED BY <1>3, <2>1 DEF SkipsEmpty, ReceiverPlaces
<1>4. CASE ReadsTicket(r)
  BY <1>4 DEF ReadsTicket, Goes, ReceiverPlaces
<1>5. CASE ClearsTicket(r)
  BY <1>5 DEF ClearsTicket, Goes, ReceiverPlaces
<1>6. CASE ClaimFails(r)
  BY <1>6 DEF ClaimFails, Goes, ReceiverPlaces
<1>7. CASE Pairs(r)
  <2>1. ticket[r] \in Senders
    <3>1. at[r] = "claimed"
      BY <1>7 DEF Pairs
    <3>2. ticket[r] # NoTicket
      BY <3>1, InvParts DEF TicketPlaces
    <3> QED BY <3>2, TypeParts
  <2> QED BY <1>7, <2>1 DEF Pairs
<1>8. CASE PairingFails(r)
  BY <1>8 DEF PairingFails, Goes, ReceiverPlaces
<1> QED BY <1>1, <1>2, <1>3, <1>4, <1>5, <1>6, <1>7, <1>8 DEF ReceiveFlow

\* A connection that breaks moves its own flow, which may fail or have to do
\* without its clear.
LEMMA BreakMoves ==
  ASSUME Inv, NEW c \in Conns, Breaks(c)
  PROVE  /\ UNCHANGED <<code, ticket>>
         /\ \/ UNCHANGED at
            \/ \E s \in Senders : at[s] = "allocating" /\ at' = [at EXCEPT ![s] = "done"]
            \/ \E r \in Receivers :
                 \/ at[r] = "claiming" /\ at' = [at EXCEPT ![r] = "failed"]
                 \/ at[r] = "clearing" /\ at' = [at EXCEPT ![r] = "claimed"]
<1>1. UNCHANGED <<code, ticket>>
  BY DEF Breaks
<1>2. DOMAIN at = Senders \cup Receivers /\ at = [f \in Senders \cup Receivers |-> at[f]]
  BY InvParts DEF Queues
<1>3. at' = [at EXCEPT ![c[1]] = CASE at[c[1]] = "claiming" -> "failed"
                                    [] at[c[1]] = "clearing" -> "claimed"
                                    [] at[c[1]] = "allocating" -> "done"
                                    [] OTHER -> at[c[1]]]
  BY DEF Breaks
<1>4. CASE \E s \in Senders : c = Open(s) \/ c = Closing(s)
  <2>1. PICK s \in Senders : c = Open(s) \/ c = Closing(s)
    BY <1>4
  <2>2. c[1] = s /\ at[s] \in SenderPlaces
    BY <2>1, ConnFacts, InvParts DEF TypeOK, SenderPlaces
  <2>3. CASE at[s] = "allocating"
    BY <1>1, <1>3, <2>2, <2>3
  <2>4. CASE at[s] # "allocating"
    <3>1. at' = [at EXCEPT ![s] = at[s]]
      BY <1>3, <2>2, <2>4 DEF SenderPlaces
    <3> QED BY <1>1, <1>2, <3>1
  <2> QED BY <2>3, <2>4
<1>5. CASE \E r \in Receivers : c = Claiming(r)
  <2>1. PICK r \in Receivers : c = Claiming(r)
    BY <1>5
  <2>2. c[1] = r /\ at[r] \in ReceiverPlaces
    BY <2>1, ConnFacts, InvParts DEF TypeOK, ReceiverPlaces
  <2>3. CASE at[r] = "claiming"
    BY <1>1, <1>3, <2>2, <2>3
  <2>4. CASE at[r] = "clearing"
    BY <1>1, <1>3, <2>2, <2>4
  <2>5. CASE at[r] \notin {"claiming", "clearing"}
    <3>1. at' = [at EXCEPT ![r] = at[r]]
      BY <1>3, <2>2, <2>5 DEF ReceiverPlaces
    <3> QED BY <1>1, <1>2, <3>1
  <2> QED BY <2>3, <2>4, <2>5
<1> QED BY <1>4, <1>5, ConnFacts

\* Every flow stays at a place of its kind, and keeps the code and the ticket
\* that go with it.
LEMMA PlacesNext ==
  ASSUME Inv, [Next]_vars
  PROVE  /\ at' \in [Senders \cup Receivers -> SenderPlaces \cup ReceiverPlaces]
         /\ \A s \in Senders : at'[s] \in SenderPlaces
         /\ \A r \in Receivers : at'[r] \in ReceiverPlaces
         /\ code' \in [Senders -> Codes \cup {NoCode}]
         /\ ticket' \in [Receivers -> Senders \cup {NoTicket}]
<1>0. /\ at \in [Senders \cup Receivers -> SenderPlaces \cup ReceiverPlaces]
      /\ code \in [Senders -> Codes \cup {NoCode}]
      /\ ticket \in [Receivers -> Senders \cup {NoTicket}]
      /\ \A s \in Senders : at[s] \in SenderPlaces
      /\ \A r \in Receivers : at[r] \in ReceiverPlaces
  BY TypeParts
<1>1. /\ at' \in [Senders \cup Receivers -> SenderPlaces \cup ReceiverPlaces]
      /\ \A s \in Senders : at'[s] \in SenderPlaces
      /\ \A r \in Receivers : at'[r] \in ReceiverPlaces
  <2>1. CASE UNCHANGED at
    BY <1>0, <2>1
  <2>2. ASSUME NEW s \in Senders, SendFlow(s)
        PROVE  \E w \in SenderPlaces : at' = [at EXCEPT ![s] = w]
    BY <2>2, SenderMoves
  <2>3. ASSUME NEW s \in Senders, NEW w \in SenderPlaces, at' = [at EXCEPT ![s] = w]
        PROVE  <1>1!1 /\ <1>1!2 /\ <1>1!3
    BY <1>0, <2>3, ConnFacts
  <2>4. ASSUME NEW r \in Receivers, NEW w \in ReceiverPlaces, at' = [at EXCEPT ![r] = w]
        PROVE  <1>1!1 /\ <1>1!2 /\ <1>1!3
    BY <1>0, <2>4, ConnFacts
  <2>5. ASSUME NEW r \in Receivers, NEW s \in Senders,
               NEW v \in ReceiverPlaces, NEW w \in SenderPlaces,
               at' = [at EXCEPT ![r] = v, ![s] = w]
        PROVE  <1>1!1 /\ <1>1!2 /\ <1>1!3
    BY <1>0, <2>5, ConnFacts
  <2>6. ASSUME NEW r \in Receivers, ReceiveFlow(r)
        PROVE  \/ \E w \in ReceiverPlaces : at' = [at EXCEPT ![r] = w]
               \/ \E s \in Senders, v \in ReceiverPlaces, w \in SenderPlaces :
                    at' = [at EXCEPT ![r] = v, ![s] = w]
    <3>1. "paired" \in ReceiverPlaces /\ "failed" \in ReceiverPlaces
          /\ "paired" \in SenderPlaces /\ "cleaning" \in SenderPlaces
      BY DEF ReceiverPlaces, SenderPlaces
    <3> QED BY <2>6, <3>1, ReceiverMoves
  <2>7. ASSUME NEW c \in Conns, Breaks(c)
        PROVE  \/ UNCHANGED at
               \/ \E s \in Senders, w \in SenderPlaces : at' = [at EXCEPT ![s] = w]
               \/ \E r \in Receivers, w \in ReceiverPlaces : at' = [at EXCEPT ![r] = w]
    <3>1. "claimed" \in ReceiverPlaces /\ "failed" \in ReceiverPlaces /\ "done" \in SenderPlaces
      BY DEF ReceiverPlaces, SenderPlaces
    <3> QED BY <2>7, <3>1, BreakMoves
  <2>a. CASE \E s \in Senders : SendFlow(s)
    BY <2>a, <2>2, <2>3
  <2>b. CASE \E r \in Receivers : ReceiveFlow(r)
    BY <2>b, <2>6, <2>4, <2>5
  <2>c. CASE \E c \in Conns : Breaks(c)
    BY <2>c, <2>7, <2>1, <2>3, <2>4
  <2> QED BY <2>1, <2>a, <2>b, <2>c, WhoMoves
<1>2. code' \in [Senders -> Codes \cup {NoCode}]
  <2>1. ASSUME NEW s \in Senders, AllocatedHttp(s) PROVE <1>2
    <3>1. PICK n \in 1 .. NameplateMax :
            Head(down[Open(s)]).nameplate = n /\ Generate(n) \subseteq Codes
      BY <2>1, ToldPlate DEF AllocatedHttp
    <3>2. PICK c \in Codes : code' = [code EXCEPT ![s] = c]
      BY <2>1, <3>1 DEF AllocatedHttp
    <3> QED BY <1>0, <3>2
  <2>2. ASSUME NEW s \in Senders, AllocatesMqtt(s) PROVE <1>2
    BY <1>0, <2>2 DEF AllocatesMqtt
  <2> QED BY <1>0, <2>1, <2>2, WhoDoesWhat
<1>3. ticket' \in [Receivers -> Senders \cup {NoTicket}]
  <2>1. ASSUME NEW r \in Receivers, ReadsTicket(r) PROVE <1>3
    <3>1. /\ Claiming(r) \in Conns /\ down[Claiming(r)] # <<>>
          /\ ticket' = [ticket EXCEPT ![r] = Head(down[Claiming(r)]).ticket]
      BY <2>1, ConnFacts DEF ReadsTicket
    <3>2. down[Claiming(r)] \in Seq(Answer)
      BY <3>1, TypeParts
    <3>3. Head(down[Claiming(r)]) \in Answer
      BY <3>1, <3>2, QueueFacts
    <3>4. Head(down[Claiming(r)]).ticket \in Senders \cup {NoTicket}
      BY <3>3 DEF Answer
    <3> QED BY <1>0, <3>1, <3>4
  <2> QED BY <1>0, <2>1, WhoDoesWhat
<1> QED BY <1>1, <1>2, <1>3

\* What any step does to one sender.
LEMMA SenderStep ==
  ASSUME Inv, [Next]_vars, NEW s \in Senders
  PROVE  \/ at'[s] = at[s] /\ code'[s] = code[s]
         \/ at[s] = "start" /\ at'[s] = "allocating" /\ Http /\ code'[s] = code[s]
         \/ at[s] = "start" /\ at'[s] = "publishing" /\ AllocatesMqtt(s) /\ code'[s] \in Codes
         \/ at[s] = "allocating" /\ at'[s] = "waiting" /\ AllocatedHttp(s) /\ code'[s] \in Codes
         \/ at[s] = "publishing" /\ at'[s] = "waiting" /\ code'[s] = code[s]
         \/ at[s] = "waiting" /\ at'[s] = "paired" /\ code'[s] = code[s]
         \/ at[s] \in {"waiting", "paired"} /\ at'[s] = "cleaning" /\ code'[s] = code[s]
         \/ at[s] # "done" /\ at'[s] = "done" /\ code'[s] = code[s]
<1> DEFINE Goal ==
         \/ at'[s] = at[s] /\ code'[s] = code[s]
         \/ at[s] = "start" /\ at'[s] = "allocating" /\ Http /\ code'[s] = code[s]
         \/ at[s] = "start" /\ at'[s] = "publishing" /\ AllocatesMqtt(s) /\ code'[s] \in Codes
         \/ at[s] = "allocating" /\ at'[s] = "waiting" /\ AllocatedHttp(s) /\ code'[s] \in Codes
         \/ at[s] = "publishing" /\ at'[s] = "waiting" /\ code'[s] = code[s]
         \/ at[s] = "waiting" /\ at'[s] = "paired" /\ code'[s] = code[s]
         \/ at[s] \in {"waiting", "paired"} /\ at'[s] = "cleaning" /\ code'[s] = code[s]
         \/ at[s] # "done" /\ at'[s] = "done" /\ code'[s] = code[s]
<1>0. /\ at \in [Senders \cup Receivers -> SenderPlaces \cup ReceiverPlaces]
      /\ code \in [Senders -> Codes \cup {NoCode}]
      /\ Senders \cap Receivers = {}
  BY TypeParts, ConnFacts
<1>1. CASE SendFlow(s)
  <2>1. PICK w \in SenderPlaces :
           /\ at' = [at EXCEPT ![s] = w]
           /\ \/ at[s] = "start" /\ w = "allocating" /\ Http /\ UNCHANGED code
              \/ at[s] = "start" /\ w = "publishing" /\ Mqtt /\ AllocatesMqtt(s)
              \/ at[s] = "allocating" /\ w = "waiting" /\ Http /\ AllocatedHttp(s)
              \/ at[s] = "publishing" /\ w = "waiting" /\ UNCHANGED code
              \/ at[s] \in {"waiting", "paired"} /\ w = "cleaning" /\ UNCHANGED code
              \/ at[s] # "done" /\ w = "done" /\ UNCHANGED code
    BY <1>1, SenderMoves
  <2>2. at'[s] = w
    BY <1>0, <2>1
  <2>3. AllocatesMqtt(s) => code'[s] \in Codes
    BY <1>0 DEF AllocatesMqtt
  <2>4. AllocatedHttp(s) => code'[s] \in Codes
    <3>1. ASSUME AllocatedHttp(s) PROVE code'[s] \in Codes
      <4>1. PICK n \in 1 .. NameplateMax :
              Head(down[Open(s)]).nameplate = n /\ Generate(n) \subseteq Codes
        BY <3>1, ToldPlate DEF AllocatedHttp
      <4> QED BY <1>0, <3>1, <4>1 DEF AllocatedHttp
    <3> QED BY <3>1
  <2> QED BY <2>1, <2>2, <2>3, <2>4
<1>2. ASSUME NEW t \in Senders, t # s, SendFlow(t) PROVE Goal
  <2>1. \E w \in SenderPlaces : at' = [at EXCEPT ![t] = w]
    BY <1>2, SenderMoves
  <2>2. at'[s] = at[s]
    BY <1>0, <1>2, <2>1
  <2>3. UNCHANGED code \/ AllocatesMqtt(t) \/ AllocatedHttp(t)
    BY <1>2, SenderMoves
  <2>4. code'[s] = code[s]
    BY <1>0, <1>2, <2>3 DEF AllocatesMqtt, AllocatedHttp
  <2> QED BY <2>2, <2>4
<1>3. ASSUME NEW r \in Receivers, ReceiveFlow(r) PROVE Goal
  <2>1. UNCHANGED code
    BY <1>3 DEF ReceiveFlow, RefusesCode, StartsClaim, SkipsEmpty, ReadsTicket, ClearsTicket,
                ClaimFails, Pairs, PairingFails
  <2>2. CASE \E w \in ReceiverPlaces : at' = [at EXCEPT ![r] = w]
    BY <1>0, <2>1, <2>2
  <2>3. CASE /\ ticket[r] \in Senders /\ at[ticket[r]] = "waiting"
             /\ \/ at' = [at EXCEPT ![r] = "paired", ![ticket[r]] = "paired"]
                \/ at' = [at EXCEPT ![r] = "failed", ![ticket[r]] = "cleaning"]
    BY <1>0, <2>1, <2>3
  <2> QED BY <1>3, <2>2, <2>3, ReceiverMoves
<1>4. ASSUME NEW c \in Conns, Breaks(c) PROVE Goal
  <2>1. UNCHANGED code
    BY <1>4, BreakMoves
  <2> QED BY <1>0, <1>4, <2>1, BreakMoves
<1>5. CASE UNCHANGED at
  <2>1. ASSUME NEW t \in Senders, AllocatedHttp(t) \/ AllocatesMqtt(t) PROVE FALSE
    <3>1. t \in DOMAIN at
      BY <1>0
    <3> QED BY <1>0, <1>5, <2>1, <3>1 DEF AllocatedHttp, AllocatesMqtt, Goes
  <2> QED BY <1>5, <2>1, WhoDoesWhat
<1> QED BY <1>1, <1>2, <1>3, <1>4, <1>5, WhoMoves

\* What any step does to one receiver.
LEMMA ReceiverStep ==
  ASSUME Inv, [Next]_vars, NEW r \in Receivers
  PROVE  \/ at'[r] = at[r] /\ ticket'[r] = ticket[r]
         \/ at[r] = "start" /\ at'[r] \in {"claiming", "failed"} /\ ticket'[r] = ticket[r]
         \/ /\ at[r] = "claiming" /\ at'[r] \in {"clearing", "claimed"} /\ ReadsTicket(r)
            /\ ticket'[r] # NoTicket
         \/ at[r] = "clearing" /\ at'[r] = "claimed" /\ ticket'[r] = ticket[r]
         \/ at[r] = "claimed" /\ at'[r] = "paired" /\ Pairs(r) /\ ticket'[r] = ticket[r]
         \/ /\ at[r] \in {"claiming", "clearing", "claimed"} /\ at'[r] = "failed"
            /\ ticket'[r] = ticket[r]
<1> DEFINE Goal ==
         \/ at'[r] = at[r] /\ ticket'[r] = ticket[r]
         \/ at[r] = "start" /\ at'[r] \in {"claiming", "failed"} /\ ticket'[r] = ticket[r]
         \/ /\ at[r] = "claiming" /\ at'[r] \in {"clearing", "claimed"} /\ ReadsTicket(r)
            /\ ticket'[r] # NoTicket
         \/ at[r] = "clearing" /\ at'[r] = "claimed" /\ ticket'[r] = ticket[r]
         \/ at[r] = "claimed" /\ at'[r] = "paired" /\ Pairs(r) /\ ticket'[r] = ticket[r]
         \/ /\ at[r] \in {"claiming", "clearing", "claimed"} /\ at'[r] = "failed"
            /\ ticket'[r] = ticket[r]
<1>0. /\ at \in [Senders \cup Receivers -> SenderPlaces \cup ReceiverPlaces]
      /\ ticket \in [Receivers -> Senders \cup {NoTicket}]
      /\ Senders \cap Receivers = {}
  BY TypeParts, ConnFacts
<1>1. ASSUME NEW s \in Senders, SendFlow(s) PROVE Goal
  <2>1. \E w \in SenderPlaces : at' = [at EXCEPT ![s] = w]
    BY <1>1, SenderMoves
  <2>2. UNCHANGED ticket
    BY <1>1 DEF SendFlow, AllocatesHttp, Publishes, PublishFails, Unwinds, CleansUp, CleanupFails,
                FlowTimesOut, AllocatedHttp, AllocatesMqtt
  <2> QED BY <1>0, <2>1, <2>2
<1>2. CASE ReceiveFlow(r)
  <2>1. CASE /\ Pairs(r) /\ UNCHANGED ticket
             /\ ticket[r] \in Senders /\ at[ticket[r]] = "waiting" /\ at[r] = "claimed"
             /\ \/ at' = [at EXCEPT ![r] = "paired", ![ticket[r]] = "paired"]
                \/ at' = [at EXCEPT ![r] = "failed", ![ticket[r]] = "cleaning"]
    <3>1. ticket[r] # r
      BY <1>0, <2>1
    <3>2. at'[r] \in {"paired", "failed"}
      BY <1>0, <2>1, <3>1
    <3> QED BY <2>1, <3>2
  <2>2. ASSUME NEW w \in ReceiverPlaces,
               /\ at' = [at EXCEPT ![r] = w]
               /\ \/ at[r] = "start" /\ w \in {"claiming", "failed"} /\ UNCHANGED ticket
                  \/ at[r] = "claiming" /\ w = "claiming" /\ UNCHANGED ticket
                  \/ at[r] = "claiming" /\ w \in {"clearing", "claimed"} /\ ReadsTicket(r)
                  \/ at[r] = "clearing" /\ w = "claimed" /\ UNCHANGED ticket
                  \/ at[r] \in {"claiming", "clearing", "claimed"} /\ w = "failed" /\ UNCHANGED ticket
        PROVE  Goal
    <3>1. at'[r] = w
      BY <1>0, <2>2
    <3>2. ReadsTicket(r) => ticket'[r] # NoTicket
      BY <1>0 DEF ReadsTicket
    <3> QED BY <2>2, <3>1, <3>2
  <2> QED BY <1>2, <2>1, <2>2, ReceiverMoves
<1>3. ASSUME NEW q \in Receivers, q # r, ReceiveFlow(q) PROVE Goal
  <2>1. at'[r] = at[r]
    <3>1. CASE \E w \in ReceiverPlaces : at' = [at EXCEPT ![q] = w]
      BY <1>0, <1>3, <3>1
    <3>2. CASE /\ ticket[q] \in Senders
               /\ \/ at' = [at EXCEPT ![q] = "paired", ![ticket[q]] = "paired"]
                  \/ at' = [at EXCEPT ![q] = "failed", ![ticket[q]] = "cleaning"]
      BY <1>0, <1>3, <3>2
    <3> QED BY <1>3, <3>1, <3>2, ReceiverMoves
  <2>2. UNCHANGED ticket \/ ReadsTicket(q)
    BY <1>3, ReceiverMoves
  <2>3. ticket'[r] = ticket[r]
    BY <1>0, <1>3, <2>2 DEF ReadsTicket
  <2> QED BY <2>1, <2>3
<1>4. ASSUME NEW c \in Conns, Breaks(c) PROVE Goal
  <2>1. UNCHANGED ticket
    BY <1>4, BreakMoves
  <2> QED BY <1>0, <1>4, <2>1, BreakMoves
<1>5. ASSUME UNCHANGED at, UNCHANGED ticket PROVE Goal
  BY <1>5
<1>6. CASE UNCHANGED at
  <2>1. ASSUME NEW q \in Receivers, ReadsTicket(q) PROVE FALSE
    <3>1. q \in DOMAIN at
      BY <1>0
    <3> QED BY <1>0, <1>6, <2>1, <3>1 DEF ReadsTicket, Goes
  <2> QED BY <1>5, <1>6, <2>1, WhoDoesWhat
<1> QED BY <1>1, <1>2, <1>3, <1>4, <1>6, WhoMoves

LEMMA TicketPlacesNext ==
  ASSUME Inv, [Next]_vars
  PROVE  TicketPlaces'
<1>1. SUFFICES ASSUME NEW r \in Receivers
               PROVE /\ at'[r] \in {"start", "claiming"} => ticket'[r] = NoTicket
                     /\ at'[r] \in {"clearing", "claimed", "paired"} => ticket'[r] # NoTicket
                     /\ at'[r] = "clearing" => Mqtt'
                     /\ at'[r] = "claiming" => Splits(typed'[r])
  BY DEF TicketPlaces
<1>2. /\ at[r] \in {"start", "claiming"} => ticket[r] = NoTicket
      /\ at[r] \in {"clearing", "claimed", "paired"} => ticket[r] # NoTicket
      /\ at[r] = "clearing" => Mqtt
      /\ at[r] = "claiming" => Splits(typed[r])
  BY InvParts DEF TicketPlaces
<1>3. at'[r] = "clearing" => Mqtt'
  <2>1. /\ scheme' = scheme
        /\ scheme \in Schemes
    BY WhoDoesWhat, TypeParts
  <2>2. Mqtt' = Mqtt /\ Http' = Http
    BY <2>1 DEF Mqtt, Http
  <2>3. ASSUME at[r] = "claiming", ReadsTicket(r), at'[r] = "clearing" PROVE Mqtt
    <3>1. at' = [at EXCEPT ![r] = IF Http THEN "claimed" ELSE "clearing"] /\ r \in DOMAIN at
      BY <2>3, TypeParts DEF ReadsTicket, Goes
    <3>2. ~Http
      BY <2>3, <3>1
    <3>3. ticket'[r] \in Senders /\ down[Claiming(r)] # <<>>
      BY <2>3, TypeParts, PlacesNext, ReceiverStep DEF ReadsTicket
    <3>4. Head(down[Claiming(r)]).ticket # NoTicket /\ 1 \in DOMAIN down[Claiming(r)]
          /\ Head(down[Claiming(r)]) = down[Claiming(r)][1]
      <4>1. down[Claiming(r)] \in Seq(Answer)
        BY TypeParts, ConnFacts
      <4> QED BY <2>3, <4>1, QueueFacts DEF ReadsTicket
    <3> QED BY <3>2, <3>4, InvParts DEF AnswersAsAsked, ReadBy
  <2> QED BY <1>2, <2>2, <2>3, ReceiverStep
<1>4. at'[r] = "claiming" => Splits(typed'[r])
  <2>1. ASSUME at[r] = "start", at'[r] = "claiming" PROVE Splits(typed[r])
    <3>1. /\ at \in [Senders \cup Receivers -> SenderPlaces \cup ReceiverPlaces]
          /\ Senders \cap Receivers = {}
      BY TypeParts, ConnFacts
    <3>2. ASSUME NEW q \in Receivers, ReceiveFlow(q) PROVE q = r
      <4>1. CASE \E w : at' = [at EXCEPT ![q] = w]
        BY <2>1, <3>1, <4>1
      <4>2. CASE /\ ticket[q] \in Senders
                 /\ \/ at' = [at EXCEPT ![q] = "paired", ![ticket[q]] = "paired"]
                    \/ at' = [at EXCEPT ![q] = "failed", ![ticket[q]] = "cleaning"]
        BY <2>1, <3>1, <4>2
      <4> QED BY <3>2, <4>1, <4>2, ReceiverMoves
    <3>3. ASSUME NEW s \in Senders, SendFlow(s) PROVE FALSE
      <4>1. \E w : at' = [at EXCEPT ![s] = w]
        BY <3>3, SenderMoves
      <4> QED BY <2>1, <3>1, <4>1
    <3>4. ASSUME NEW c \in Conns, Breaks(c) PROVE FALSE
      BY <2>1, <3>1, <3>4, BreakMoves
    <3>5. ReceiveFlow(r)
      BY <2>1, <3>2, <3>3, <3>4, WhoMoves
    <3>6. CASE StartsClaim(r)
      BY <3>6 DEF StartsClaim
    <3>7. CASE RefusesCode(r) \/ SkipsEmpty(r) \/ ReadsTicket(r) \/ ClearsTicket(r) \/ ClaimFails(r)
               \/ Pairs(r) \/ PairingFails(r)
      <4>1. at[r] # "start" \/ at'[r] = "failed"
        BY <3>1, <3>7 DEF RefusesCode, SkipsEmpty, ReadsTicket, ClearsTicket, ClaimFails, Pairs,
                          PairingFails, Goes
      <4> QED BY <2>1, <4>1
    <3> QED BY <3>5, <3>6, <3>7 DEF ReceiveFlow
  <2>2. typed' = typed
    BY WhoDoesWhat
  <2> QED BY <1>2, <2>1, <2>2, ReceiverStep
<1> QED BY <1>2, <1>3, <1>4, ReceiverStep

\* A ticket lands after its sender has begun, and on a broker after it knows its code.
LEMMA CodePlacesNext ==
  ASSUME Inv, [Next]_vars
  PROVE  CodePlaces'
<1>1. SUFFICES ASSUME NEW s \in Senders
               PROVE /\ at'[s] \in {"publishing", "waiting", "paired", "cleaning"} => code'[s] \in Codes
                     /\ at'[s] \in {"start", "allocating"} => code'[s] = NoCode
                     /\ s \in landed' => at'[s] \notin {"start", "publishing"}
                     /\ at'[s] = "publishing" => Mqtt'
  BY DEF CodePlaces
<1>2. /\ at[s] \in {"publishing", "waiting", "paired", "cleaning"} => code[s] \in Codes
      /\ at[s] \in {"start", "allocating"} => code[s] = NoCode
      /\ s \in landed => at[s] \notin {"start", "publishing"}
      /\ at[s] = "publishing" => Mqtt
  BY InvParts DEF CodePlaces
<1>3. s \in landed' => s \in landed \/ at[s] \notin {"start", "publishing"}
  <2>1. CASE UNCHANGED landed
    BY <2>1
  <2>2. ASSUME NEW t \in Senders, ServerAllocates(t) PROVE <1>3
    <3>1. code[t] = NoCode /\ at[t] # "start" /\ landed' = landed \cup {t}
      BY <2>2, AllocateFacts DEF ServerAllocates
    <3>2. at[t] = "publishing" => code[t] \in Codes
      BY InvParts DEF CodePlaces
    <3> QED BY <3>1, <3>2, DrawnCodesSplit
  <2>3. ASSUME NEW r \in Receivers, ServerClaims(r) PROVE <1>3
    BY <2>3 DEF ServerClaims
  <2>4. ASSUME NEW c \in Conns, BrokerPublishes(c) PROVE <1>3
    <3>1. landed' = landed \cup ({Head(up[c]).ticket} \cap Senders)
      BY <2>4 DEF BrokerPublishes
    <3>2. ASSUME NEW t \in Senders, Head(up[c]).ticket = t
          PROVE at[t] \notin {"start", "publishing"}
      <4>1. CASE \E v \in Senders : /\ code[v] \in Codes /\ at[v] \notin {"start", "publishing"}
                                    /\ Head(up[c]) = Store(Address(code[v]), v)
        BY <3>2, <4>1, RequestKinds, AddressTypes
      <4>2. CASE \E a \in Addresses : Head(up[c]) = Clear(a)
        BY <3>2, <4>2, RequestKinds, TicketFacts
      <4> QED BY <2>4, <4>1, <4>2, PublishFacts, AddressTypes
    <3> QED BY <3>1, <3>2
  <2> QED BY <2>1, <2>2, <2>3, <2>4, WhoDoesWhat
<1>4. s \in landed' /\ s \notin landed => at'[s] = at[s]
  <2>1. UNCHANGED <<slot, landed, spent>> \/ UNCHANGED at
    BY WhoDoesWhat DEF ServerAllocates, ServerClaims, BrokerPublishes
  <2> QED BY <2>1
<1>5. s \in landed /\ at[s] \notin {"start", "publishing"} => at'[s] \notin {"start", "publishing"}
  BY SenderStep
<1>6. at'[s] = "publishing" => Mqtt'
  <2>1. Mqtt' = Mqtt
    BY WhoDoesWhat DEF Mqtt
  <2>2. AllocatesMqtt(s) => Mqtt
    BY DEF AllocatesMqtt
  <2> QED BY <1>2, <2>1, <2>2, SenderStep
<1> QED BY <1>2, <1>3, <1>4, <1>5, <1>6, SenderStep

-----------------------------------------------------------------------------
(* The queues.                                                             *)

\* What a step puts on its way to the server or broker, or takes from it.
LEMMA UpMoves ==
  ASSUME Inv, [Next]_vars
  PROVE  \/ UNCHANGED up
         \/ \E c \in Conns : up' = [up EXCEPT ![c] = <<>>] /\ Breaks(c)
         \/ \E c \in Conns : /\ up[c] # <<>> /\ up' = [up EXCEPT ![c] = Tail(@)]
                             /\ \/ \E s \in Senders : c = Open(s) /\ ServerAllocates(s)
                                \/ \E r \in Receivers : /\ c = Claiming(r)
                                                        /\ ServerClaims(r) \/ BrokerSubscribes(r)
                                \/ BrokerPublishes(c)
         \/ \E s \in Senders : /\ AllocatesHttp(s)
                               /\ up' = [up EXCEPT ![Open(s)] = Append(@, Allocate(s))]
         \/ \E s \in Senders : /\ Publishes(s) \/ PublishFails(s)
                               /\ at[s] = "publishing" /\ code[s] \in Codes
                               /\ up' = [up EXCEPT ![Open(s)] = Append(@, Store(Address(code[s]), s))]
         \/ \E s \in Senders : /\ CleansUp(s) /\ Mqtt /\ at[s] = "cleaning" /\ code[s] \in Codes
                               /\ up' = [up EXCEPT ![Closing(s)] = Append(@, Clear(Address(code[s])))]
         \/ \E r \in Receivers : /\ StartsClaim(r)
                                 /\ up' = [up EXCEPT ![Claiming(r)] = IF Http THEN <<Claim(Asked(r))>>
                                             ELSE <<Subscribe(Asked(r)), Subscribe(Asked(r))>>]
         \/ \E r \in Receivers : /\ ClearsTicket(r) \/ ClaimFails(r)
                                 /\ at[r] = "clearing"
                                 /\ up' = [up EXCEPT ![Claiming(r)] = Append(@, Clear(Asked(r)))]
<1> DEFINE Goal ==
         \/ UNCHANGED up
         \/ \E c \in Conns : up' = [up EXCEPT ![c] = <<>>] /\ Breaks(c)
         \/ \E c \in Conns : /\ up[c] # <<>> /\ up' = [up EXCEPT ![c] = Tail(@)]
                             /\ \/ \E s \in Senders : c = Open(s) /\ ServerAllocates(s)
                                \/ \E r \in Receivers : /\ c = Claiming(r)
                                                        /\ ServerClaims(r) \/ BrokerSubscribes(r)
                                \/ BrokerPublishes(c)
         \/ \E s \in Senders : /\ AllocatesHttp(s)
                               /\ up' = [up EXCEPT ![Open(s)] = Append(@, Allocate(s))]
         \/ \E s \in Senders : /\ Publishes(s) \/ PublishFails(s)
                               /\ at[s] = "publishing" /\ code[s] \in Codes
                               /\ up' = [up EXCEPT ![Open(s)] = Append(@, Store(Address(code[s]), s))]
         \/ \E s \in Senders : /\ CleansUp(s) /\ Mqtt /\ at[s] = "cleaning" /\ code[s] \in Codes
                               /\ up' = [up EXCEPT ![Closing(s)] = Append(@, Clear(Address(code[s])))]
         \/ \E r \in Receivers : /\ StartsClaim(r)
                                 /\ up' = [up EXCEPT ![Claiming(r)] = IF Http THEN <<Claim(Asked(r))>>
                                             ELSE <<Subscribe(Asked(r)), Subscribe(Asked(r))>>]
         \/ \E r \in Receivers : /\ ClearsTicket(r) \/ ClaimFails(r)
                                 /\ at[r] = "clearing"
                                 /\ up' = [up EXCEPT ![Claiming(r)] = Append(@, Clear(Asked(r)))]
<1>1. CASE UNCHANGED vars
  BY <1>1 DEF vars
<1>2. ASSUME NEW s \in Senders, SendFlow(s) PROVE Goal
  <2>1. at[s] \in {"publishing", "cleaning"} => code[s] \in Codes
    BY InvParts DEF CodePlaces
  <2>2. CASE AllocatesHttp(s)
    BY <2>2 DEF AllocatesHttp, Sends
  <2>3. CASE Publishes(s) \/ PublishFails(s)
    BY <2>1, <2>3 DEF Publishes, PublishFails, Sends
  <2>4. CASE CleansUp(s)
    BY <2>1, <2>4 DEF CleansUp, Sends
  <2>5. CASE AllocatedHttp(s) \/ AllocatesMqtt(s) \/ Unwinds(s) \/ CleanupFails(s) \/ FlowTimesOut(s)
    BY <2>5 DEF AllocatedHttp, AllocatesMqtt, Unwinds, CleanupFails, FlowTimesOut, net
  <2> QED BY <1>2, <2>2, <2>3, <2>4, <2>5 DEF SendFlow
<1>3. ASSUME NEW r \in Receivers, ReceiveFlow(r) PROVE Goal
  <2>1. CASE StartsClaim(r)
    BY <2>1 DEF StartsClaim, Asked
  <2>2. CASE ClearsTicket(r) \/ ClaimFails(r)
    BY <2>2 DEF ClearsTicket, ClaimFails, Sends, Asked
  <2>3. CASE RefusesCode(r) \/ SkipsEmpty(r) \/ ReadsTicket(r) \/ Pairs(r) \/ PairingFails(r)
    BY <2>3 DEF RefusesCode, SkipsEmpty, ReadsTicket, Pairs, PairingFails, net
  <2> QED BY <1>3, <2>1, <2>2, <2>3 DEF ReceiveFlow
<1>4. ASSUME NEW s \in Senders, ServerAllocates(s) PROVE Goal
  BY <1>4, ConnFacts DEF ServerAllocates, Takes, Taken
<1>5. ASSUME NEW r \in Receivers, ServerClaims(r) \/ BrokerSubscribes(r) PROVE Goal
  BY <1>5, ConnFacts DEF ServerClaims, BrokerSubscribes, Takes, Taken
<1>6. ASSUME NEW c \in Conns, BrokerPublishes(c) PROVE Goal
  BY <1>6 DEF BrokerPublishes, Takes, Taken
<1>7. ASSUME NEW c \in Conns, Breaks(c) PROVE Goal
  BY <1>7 DEF Breaks
<1>8. CASE \E s \in Senders : SendFlow(s)
  BY <1>2, <1>8
<1>9. CASE \E r \in Receivers : ReceiveFlow(r)
  BY <1>3, <1>9
<1>10. CASE Network
  BY <1>4, <1>5, <1>6, <1>7, <1>10 DEF Network
<1> QED BY <1>1, <1>8, <1>9, <1>10 DEF Next

\* What a step does to the answers, and to those that wait for one: a flow that
\* no longer waits has dropped its connection.
LEMMA DownMoves ==
  ASSUME Inv, [Next]_vars
  PROVE  \/ /\ UNCHANGED down
            /\ \A s \in Senders : at[s] = "allocating" => at'[s] = "allocating"
            /\ \A r \in Receivers : at[r] = "claiming" => at'[r] = "claiming"
         \/ \E c \in Conns :
              /\ down' = [down EXCEPT ![c] = <<>>]
              /\ \A s \in Senders : at[s] = "allocating" /\ c # Open(s) => at'[s] = "allocating"
              /\ \A r \in Receivers : at[r] = "claiming" /\ c # Claiming(r) => at'[r] = "claiming"
         \/ \E r \in Receivers : SkipsEmpty(r)
         \/ \E s \in Senders : ServerAllocates(s)
         \/ \E r \in Receivers : ServerClaims(r) \/ BrokerSubscribes(r)
         \/ \E c \in Conns : BrokerPublishes(c)
<1> DEFINE Same ==
              /\ UNCHANGED down
              /\ \A s \in Senders : at[s] = "allocating" => at'[s] = "allocating"
              /\ \A r \in Receivers : at[r] = "claiming" => at'[r] = "claiming"
           Dropped(c) ==
              /\ down' = [down EXCEPT ![c] = <<>>]
              /\ \A s \in Senders : at[s] = "allocating" /\ c # Open(s) => at'[s] = "allocating"
              /\ \A r \in Receivers : at[r] = "claiming" /\ c # Claiming(r) => at'[r] = "claiming"
<1>0. /\ at \in [Senders \cup Receivers -> SenderPlaces \cup ReceiverPlaces]
      /\ Senders \cap Receivers = {}
  BY TypeParts, ConnFacts
<1>1. CASE UNCHANGED vars
  <2>1. Same
    BY <1>1 DEF vars
  <2> QED BY <2>1
<1>2. ASSUME NEW s \in Senders, SendFlow(s) PROVE Same \/ Dropped(Open(s))
  <2>0. PICK w : at' = [at EXCEPT ![s] = w]
    BY <1>2, SenderMoves
  <2>1. /\ \A t \in Senders : t # s => at'[t] = at[t]
        /\ \A r \in Receivers : at'[r] = at[r]
    BY <1>0, <2>0
  <2>2. CASE AllocatesHttp(s) \/ AllocatesMqtt(s) \/ Publishes(s) \/ Unwinds(s) \/ CleansUp(s)
             \/ CleanupFails(s)
    <3>1. UNCHANGED down /\ at[s] # "allocating"
      BY <2>2 DEF AllocatesHttp, AllocatesMqtt, Publishes, Unwinds, CleansUp, CleanupFails, net
    <3> QED BY <2>1, <3>1
  <2>3. CASE AllocatedHttp(s) \/ PublishFails(s) \/ FlowTimesOut(s)
    <3>1. down' = [down EXCEPT ![Open(s)] = <<>>]
      BY <2>3 DEF AllocatedHttp, PublishFails, FlowTimesOut, Drops
    <3> QED BY <2>1, <3>1
  <2> QED BY <1>2, <2>2, <2>3 DEF SendFlow
<1>3. ASSUME NEW r \in Receivers, ReceiveFlow(r) PROVE Same \/ Dropped(Claiming(r)) \/ SkipsEmpty(r)
  <2>1. /\ \A q \in Receivers : q # r => at'[q] = at[q]
        /\ \A s \in Senders : at[s] = "allocating" => at'[s] = "allocating"
    <3>1. CASE \E w \in ReceiverPlaces : at' = [at EXCEPT ![r] = w]
      BY <1>0, <3>1
    <3>2. CASE /\ ticket[r] \in Senders /\ at[ticket[r]] = "waiting"
               /\ \/ at' = [at EXCEPT ![r] = "paired", ![ticket[r]] = "paired"]
                  \/ at' = [at EXCEPT ![r] = "failed", ![ticket[r]] = "cleaning"]
      BY <1>0, <3>2
    <3> QED BY <1>3, <3>1, <3>2, ReceiverMoves
  <2>2. CASE RefusesCode(r) \/ StartsClaim(r) \/ ClearsTicket(r) \/ Pairs(r) \/ PairingFails(r)
    <3>1. UNCHANGED down /\ at[r] # "claiming"
      BY <2>2 DEF RefusesCode, StartsClaim, ClearsTicket, Pairs, PairingFails, net
    <3> QED BY <2>1, <3>1
  <2>3. CASE ReadsTicket(r) \/ ClaimFails(r)
    <3>1. down' = [down EXCEPT ![Claiming(r)] = <<>>]
      BY <2>3 DEF ReadsTicket, ClaimFails, Drops
    <3> QED BY <2>1, <3>1
  <2> QED BY <1>3, <2>2, <2>3 DEF ReceiveFlow
<1>4. ASSUME NEW c \in Conns, Breaks(c) PROVE Dropped(c)
  <2>1. /\ down' = [down EXCEPT ![c] = <<>>]
        /\ \A f \in Senders \cup Receivers : f # c[1] => at'[f] = at[f]
        /\ up[c] # <<>> \/ down[c] # <<>>
    BY <1>0, <1>4 DEF Breaks, Drops
  <2>2. ASSUME NEW s \in Senders, at[s] = "allocating", c # Open(s) PROVE at'[s] = "allocating"
    <3>1. c # Closing(s)
      BY <2>1, <2>2, InvParts DEF ToldOnce, ClosesItsOwn
    <3>2. c[1] # s
      BY <2>2, <3>1, ConnFacts
    <3> QED BY <2>1, <2>2, <3>2
  <2>3. ASSUME NEW r \in Receivers, at[r] = "claiming", c # Claiming(r) PROVE at'[r] = "claiming"
    <3>1. c[1] # r
      BY <2>3, ConnFacts
    <3> QED BY <2>1, <2>3, <3>1
  <2> QED BY <2>1, <2>2, <2>3
<1>5. CASE \E s \in Senders : SendFlow(s)
  BY <1>2, <1>5, ConnFacts
<1>6. CASE \E r \in Receivers : ReceiveFlow(r)
  BY <1>3, <1>6, ConnFacts
<1>7. CASE Network
  BY <1>4, <1>7 DEF Network
<1> QED BY <1>1, <1>5, <1>6, <1>7 DEF Next

LEMMA UpTypes ==
  ASSUME Inv, [Next]_vars
  PROVE  up' \in [Conns -> Seq(Request)]
<1>1. up \in [Conns -> Seq(Request)]
  BY TypeParts
<1>2. ASSUME NEW c \in Conns, NEW p \in Seq(Request), up' = [up EXCEPT ![c] = p]
      PROVE  up' \in [Conns -> Seq(Request)]
  BY <1>1, <1>2
<1>3. <<>> \in Seq(Request)
  OBVIOUS
<1>4. \A c \in Conns : /\ up[c] # <<>> => Tail(up[c]) \in Seq(Request)
                       /\ \A x \in Request : Append(up[c], x) \in Seq(Request)
  BY <1>1, QueueFacts
<1>5. \A s \in Senders : /\ Open(s) \in Conns /\ Closing(s) \in Conns /\ Allocate(s) \in Request
                         /\ code[s] \in Codes => /\ Store(Address(code[s]), s) \in Request
                                                 /\ Clear(Address(code[s])) \in Request
  BY ConnFacts, RequestTypes, AddressTypes
<1>6. \A r \in Receivers :
        /\ Claiming(r) \in Conns
        /\ Splits(typed[r]) => /\ Clear(Asked(r)) \in Request
                               /\ <<Claim(Asked(r))>> \in Seq(Request)
                               /\ <<Subscribe(Asked(r)), Subscribe(Asked(r))>> \in Seq(Request)
  <2>1. ASSUME NEW r \in Receivers, Splits(typed[r])
        PROVE  /\ Clear(Asked(r)) \in Request /\ Claim(Asked(r)) \in Request
               /\ Subscribe(Asked(r)) \in Request
    <3>1. Asked(r) \in Addresses
      BY <2>1, TypeParts, AddressTypes DEF Asked
    <3> QED BY <3>1, RequestTypes
  <2>2. \A x, y \in Request : <<x>> \in Seq(Request) /\ <<x, y>> \in Seq(Request)
    OBVIOUS
  <2> QED BY <2>1, <2>2, ConnFacts
<1>7. ASSUME NEW r \in Receivers, at[r] = "clearing" PROVE Splits(typed[r])
  BY <1>7, InvParts DEF TicketPlaces, AnswersAsAsked, ReadBy
<1>8. CASE UNCHANGED up
  BY <1>1, <1>8
<1>9. CASE \E c \in Conns : up' = [up EXCEPT ![c] = <<>>]
  BY <1>2, <1>3, <1>9
<1>10. CASE \E c \in Conns : up[c] # <<>> /\ up' = [up EXCEPT ![c] = Tail(@)]
  BY <1>2, <1>4, <1>10
<1>11. CASE \E s \in Senders : up' = [up EXCEPT ![Open(s)] = Append(@, Allocate(s))]
  BY <1>2, <1>4, <1>5, <1>11
<1>12. CASE \E s \in Senders : code[s] \in Codes
              /\ \/ up' = [up EXCEPT ![Open(s)] = Append(@, Store(Address(code[s]), s))]
                 \/ up' = [up EXCEPT ![Closing(s)] = Append(@, Clear(Address(code[s])))]
  BY <1>2, <1>4, <1>5, <1>12
<1>13. CASE \E r \in Receivers : /\ StartsClaim(r)
                                 /\ up' = [up EXCEPT ![Claiming(r)] = IF Http THEN <<Claim(Asked(r))>>
                                             ELSE <<Subscribe(Asked(r)), Subscribe(Asked(r))>>]
  BY <1>2, <1>6, <1>13 DEF StartsClaim
<1>14. CASE \E r \in Receivers : /\ at[r] = "clearing"
                                 /\ up' = [up EXCEPT ![Claiming(r)] = Append(@, Clear(Asked(r)))]
  BY <1>2, <1>4, <1>6, <1>7, <1>14
<1> QED BY <1>8, <1>9, <1>10, <1>11, <1>12, <1>13, <1>14, UpMoves

LEMMA DownTypes ==
  ASSUME Inv, [Next]_vars
  PROVE  down' \in [Conns -> Seq(Answer)]
<1>1. /\ down \in [Conns -> Seq(Answer)]
      /\ slot \in [Addresses -> Senders \cup {NoTicket, Claimed}]
  BY TypeParts
<1>2. ASSUME NEW c \in Conns, NEW p \in Seq(Answer), down' = [down EXCEPT ![c] = p]
      PROVE  down' \in [Conns -> Seq(Answer)]
  BY <1>1, <1>2
<1>3. /\ <<>> \in Seq(Answer)
      /\ \A x \in Answer : <<x>> \in Seq(Answer)
      /\ \A c \in Conns : /\ down[c] # <<>> => Tail(down[c]) \in Seq(Answer)
                          /\ \A x \in Answer : Append(down[c], x) \in Seq(Answer)
  BY <1>1, QueueFacts
<1>4. CASE UNCHANGED down
  BY <1>1, <1>4
<1>5. CASE \E c \in Conns : down' = [down EXCEPT ![c] = <<>>]
  BY <1>2, <1>3, <1>5
<1>6. ASSUME NEW r \in Receivers, SkipsEmpty(r) PROVE down' \in [Conns -> Seq(Answer)]
  BY <1>2, <1>3, <1>6, ConnFacts DEF SkipsEmpty
<1>7. ASSUME NEW s \in Senders, ServerAllocates(s) PROVE down' \in [Conns -> Seq(Answer)]
  <2>1. PICK n \in 1 .. NameplateMax :
          down' = [down EXCEPT ![Open(s)] = IF at[s] = "allocating" THEN <<Created(n)>> ELSE @]
    BY <1>7 DEF ServerAllocates
  <2> QED BY <1>1, <1>2, <1>3, <2>1, ConnFacts, AnswerTypes
<1>8. ASSUME NEW r \in Receivers, ServerClaims(r) PROVE down' \in [Conns -> Seq(Answer)]
  <2>1. \E x : down' = [down EXCEPT ![Claiming(r)] =
                     IF at[r] # "claiming" THEN @
                     ELSE IF x \in Senders THEN <<Payload(x)>> ELSE <<Refused>>]
    BY <1>8 DEF ServerClaims
  <2> QED BY <1>1, <1>2, <1>3, <2>1, ConnFacts, AnswerTypes
<1>9. ASSUME NEW r \in Receivers, BrokerSubscribes(r) PROVE down' \in [Conns -> Seq(Answer)]
  <2>1. /\ Mqtt /\ Asked(r) \in Addresses
        /\ down' = IF at[r] = "claiming" /\ slot[Asked(r)] # NoTicket
                   THEN [down EXCEPT ![Claiming(r)] = Append(@, Payload(slot[Asked(r)]))] ELSE down
    BY <1>9, SubscribeFacts DEF BrokerSubscribes
  <2>2. slot[Asked(r)] \in Senders \cup {NoTicket}
    BY <1>1, <2>1, InvParts DEF OnlyServerMarks, Mqtt, Http
  <2>3. Payload(slot[Asked(r)]) \in Answer
    BY <2>2, AnswerTypes
  <2> QED BY <1>1, <1>2, <1>3, <2>1, <2>3, ConnFacts
<1>10. ASSUME NEW c \in Conns, BrokerPublishes(c) PROVE down' \in [Conns -> Seq(Answer)]
  <2>1. Head(up[c]) \in Request
    BY <1>10, PublishFacts, HeadOfQueue
  <2>2. Payload(Head(up[c]).ticket) \in Answer
    BY <2>1, AnswerTypes DEF Request
  <2>3. down' = [d \in Conns |->
                     IF \E r \in Listeners(Head(up[c]).address) : d = Claiming(r)
                     THEN Append(down[d], Payload(Head(up[c]).ticket)) ELSE down[d]]
    BY <1>10 DEF BrokerPublishes
  <2> QED BY <1>1, <1>3, <2>2, <2>3
<1> QED BY <1>4, <1>5, <1>6, <1>7, <1>8, <1>9, <1>10, DownMoves

\* The queue to the server or broker, for each kind of connection.
LEMMA OpenUp ==
  ASSUME Inv, [Next]_vars, NEW s \in Senders
  PROVE  \/ up'[Open(s)] = up[Open(s)] \/ up'[Open(s)] = <<>>
         \/ AllocatesHttp(s) /\ up'[Open(s)] = Append(up[Open(s)], Allocate(s))
         \/ /\ Publishes(s) \/ PublishFails(s)
            /\ at[s] = "publishing"
            /\ up'[Open(s)] = Append(up[Open(s)], Store(Address(code[s]), s))
<1>0. up \in [Conns -> Seq(Request)]
  BY TypeParts
<1>1. up[Open(s)] # <<>> => Tail(up[Open(s)]) = <<>>
  <2>1. up[Open(s)] # <<>> => \E x : up[Open(s)] = <<x>>
    BY InvParts DEF OpensOnce
  <2> QED BY <2>1, Singles
<1>2. CASE \E c \in Conns : up[c] # <<>> /\ up' = [up EXCEPT ![c] = Tail(@)]
  BY <1>0, <1>1, <1>2, ConnFacts
<1>3. CASE \E t \in Senders : /\ AllocatesHttp(t)
                              /\ up' = [up EXCEPT ![Open(t)] = Append(@, Allocate(t))]
  BY <1>0, <1>3, ConnFacts
<1>4. CASE \E t \in Senders : /\ Publishes(t) \/ PublishFails(t)
                              /\ at[t] = "publishing" /\ code[t] \in Codes
                              /\ up' = [up EXCEPT ![Open(t)] = Append(@, Store(Address(code[t]), t))]
  BY <1>0, <1>4, ConnFacts
<1>5. CASE \/ UNCHANGED up
           \/ \E c \in Conns : up' = [up EXCEPT ![c] = <<>>]
           \/ \E t \in Senders : up' = [up EXCEPT ![Closing(t)] = Append(@, Clear(Address(code[t])))]
  BY <1>0, <1>5, ConnFacts
<1>6. ASSUME NEW r \in Receivers, NEW q, up' = [up EXCEPT ![Claiming(r)] = q]
      PROVE  up'[Open(s)] = up[Open(s)]
  BY <1>0, <1>6, ConnFacts
<1> QED BY <1>2, <1>3, <1>4, <1>5, <1>6, UpMoves

LEMMA ClosingUp ==
  ASSUME Inv, [Next]_vars, NEW s \in Senders
  PROVE  \/ up'[Closing(s)] = up[Closing(s)]
         \/ up'[Closing(s)] = <<>> /\ (Breaks(Closing(s)) \/ BrokerPublishes(Closing(s)))
         \/ /\ CleansUp(s) /\ Mqtt /\ at[s] = "cleaning"
            /\ up'[Closing(s)] = Append(up[Closing(s)], Clear(Address(code[s])))
<1>0. up \in [Conns -> Seq(Request)]
  BY TypeParts
<1>1. up[Closing(s)] # <<>> => Tail(up[Closing(s)]) = <<>>
  <2>1. up[Closing(s)] # <<>> => \E x : up[Closing(s)] = <<x>>
    BY InvParts DEF ClosesItsOwn
  <2> QED BY <2>1, Singles
<1>2. CASE \E c \in Conns : /\ up[c] # <<>> /\ up' = [up EXCEPT ![c] = Tail(@)]
                            /\ \/ \E t \in Senders : c = Open(t) /\ ServerAllocates(t)
                               \/ \E r \in Receivers : /\ c = Claiming(r)
                                                       /\ ServerClaims(r) \/ BrokerSubscribes(r)
                               \/ BrokerPublishes(c)
  BY <1>0, <1>1, <1>2, ConnFacts
<1>3. CASE \E t \in Senders :
             /\ CleansUp(t) /\ Mqtt /\ at[t] = "cleaning" /\ code[t] \in Codes
             /\ up' = [up EXCEPT ![Closing(t)] = Append(@, Clear(Address(code[t])))]
  BY <1>0, <1>3, ConnFacts
<1>4. CASE UNCHANGED up \/ \E c \in Conns : up' = [up EXCEPT ![c] = <<>>] /\ Breaks(c)
  BY <1>0, <1>4, ConnFacts
<1>5. ASSUME NEW t \in Senders, NEW q, up' = [up EXCEPT ![Open(t)] = q]
      PROVE  up'[Closing(s)] = up[Closing(s)]
  BY <1>0, <1>5, ConnFacts
<1>6. ASSUME NEW r \in Receivers, NEW q, up' = [up EXCEPT ![Claiming(r)] = q]
      PROVE  up'[Closing(s)] = up[Closing(s)]
  BY <1>0, <1>6, ConnFacts
<1> QED BY <1>2, <1>3, <1>4, <1>5, <1>6, UpMoves

LEMMA ClaimingUp ==
  ASSUME Inv, [Next]_vars, NEW r \in Receivers
  PROVE  \/ up'[Claiming(r)] = up[Claiming(r)] \/ up'[Claiming(r)] = <<>>
         \/ up[Claiming(r)] # <<>> /\ up'[Claiming(r)] = Tail(up[Claiming(r)])
         \/ /\ StartsClaim(r)
            /\ up'[Claiming(r)] = IF Http THEN <<Claim(Asked(r))>>
                                  ELSE <<Subscribe(Asked(r)), Subscribe(Asked(r))>>
         \/ at[r] = "clearing" /\ up'[Claiming(r)] = Append(up[Claiming(r)], Clear(Asked(r)))
<1>0. up \in [Conns -> Seq(Request)]
  BY TypeParts
<1>1. CASE \E c \in Conns : up[c] # <<>> /\ up' = [up EXCEPT ![c] = Tail(@)]
  BY <1>0, <1>1, ConnFacts
<1>2. CASE \E q \in Receivers : /\ StartsClaim(q)
                                /\ up' = [up EXCEPT ![Claiming(q)] = IF Http THEN <<Claim(Asked(q))>>
                                            ELSE <<Subscribe(Asked(q)), Subscribe(Asked(q))>>]
  BY <1>0, <1>2, ConnFacts
<1>3. CASE \E q \in Receivers : /\ at[q] = "clearing"
                                /\ up' = [up EXCEPT ![Claiming(q)] = Append(@, Clear(Asked(q)))]
  BY <1>0, <1>3, ConnFacts
<1>4. CASE UNCHANGED up \/ \E c \in Conns : up' = [up EXCEPT ![c] = <<>>]
  BY <1>0, <1>4, ConnFacts
<1>5. ASSUME NEW t \in Senders, NEW q,
             up' = [up EXCEPT ![Open(t)] = q] \/ up' = [up EXCEPT ![Closing(t)] = q]
      PROVE  up'[Claiming(r)] = up[Claiming(r)]
  BY <1>0, <1>5, ConnFacts
<1> QED BY <1>1, <1>2, <1>3, <1>4, <1>5, UpMoves

\* A ticket lands when its request is taken, which nothing follows.
LEMMA Lands ==
  ASSUME Inv, [Next]_vars, NEW s \in Senders, s \in landed', s \notin landed
  PROVE  /\ up[Open(s)] # <<>> /\ up'[Open(s)] = <<>>
         /\ ServerAllocates(s) \/ BrokerPublishes(Open(s))
<1>0. up \in [Conns -> Seq(Request)]
  BY TypeParts
<1>1. ASSUME NEW t \in Senders, ServerAllocates(t)
      PROVE  t = s /\ up[Open(s)] # <<>> /\ up'[Open(s)] = <<>>
  <2>1. t = s
    BY <1>1 DEF ServerAllocates
  <2>2. up[Open(t)] = <<Allocate(t)>> /\ up' = [up EXCEPT ![Open(t)] = <<>>]
    BY <1>1, AllocateFacts
  <2> QED BY <1>0, <2>1, <2>2, ConnFacts
<1>2. ASSUME NEW c \in Conns, BrokerPublishes(c)
      PROVE  c = Open(s) /\ up[Open(s)] # <<>> /\ up'[Open(s)] = <<>>
  <2>1. Head(up[c]).ticket = s
    BY <1>2 DEF BrokerPublishes
  <2>2. ASSUME NEW a \in Addresses, Head(up[c]) = Clear(a) PROVE FALSE
    BY <2>1, <2>2, RequestKinds, TicketFacts
  <2>3. PICK t \in Senders : c = Open(t) /\ code[t] \in Codes
                             /\ up[c] = <<Store(Address(code[t]), t)>>
                             /\ Head(up[c]) = Store(Address(code[t]), t)
    BY <1>2, <2>2, PublishFacts, AddressTypes
  <2>4. t = s
    BY <2>1, <2>3, AddressTypes, RequestKinds
  <2>5. up' = [up EXCEPT ![c] = Tail(@)] /\ Tail(up[c]) = <<>> /\ up[c] # <<>>
    BY <1>2, <2>3, Singles DEF BrokerPublishes, Taken
  <2> QED BY <1>0, <2>3, <2>4, <2>5
<1>3. ASSUME NEW r \in Receivers, ServerClaims(r) PROVE FALSE
  BY <1>3 DEF ServerClaims
<1> QED BY <1>1, <1>2, <1>3, WhoDoesWhat

LEMMA OpensOnceNext ==
  ASSUME Inv, [Next]_vars
  PROVE  OpensOnce'
<1>0. up \in [Conns -> Seq(Request)]
  BY TypeParts
<1>1. SUFFICES ASSUME NEW s \in Senders, up'[Open(s)] # <<>>
               PROVE  /\ s \notin landed'
                      /\ \/ Http' /\ code'[s] = NoCode /\ at'[s] # "start" /\ up'[Open(s)] = <<Allocate(s)>>
                         \/ Mqtt' /\ code'[s] \in Codes /\ at'[s] \notin {"start", "publishing"}
                                  /\ up'[Open(s)] = <<Store(Address(code[s]), s)>> /\ code'[s] = code[s]
  <2>1. scheme' = scheme
    BY WhoDoesWhat
  <2>2. ASSUME NEW t \in Senders, code'[t] = code[t] PROVE Address(code[t]) = Address(code[t])'
    BY <2>1, <2>2 DEF Address, Http
  <2>3. OpensOnce' <=> \A t \in Senders : up'[Open(t)] # <<>> =>
          /\ t \notin landed'
          /\ \/ Http' /\ code'[t] = NoCode /\ at'[t] # "start" /\ up'[Open(t)] = <<Allocate(t)>>
             \/ Mqtt' /\ code'[t] \in Codes /\ at'[t] \notin {"start", "publishing"}
                      /\ up'[Open(t)] = <<Store(Address(code[t])', t)>>
    BY DEF OpensOnce, Open, Store, Allocate
  <2> QED BY <2>2, <2>3
<1>2. scheme' = scheme /\ Http' = Http /\ Mqtt' = Mqtt
  BY WhoDoesWhat DEF Http, Mqtt
<1>3. s \in landed' => s \in landed
  BY <1>1, Lands
<1>4. /\ s \in landed => at[s] \notin {"start", "publishing"}
      /\ at[s] = "publishing" => Mqtt /\ code[s] \in Codes
      /\ at[s] = "start" => code[s] = NoCode
  BY InvParts DEF CodePlaces
<1>5. CASE up'[Open(s)] = up[Open(s)]
  <2>1. /\ s \notin landed
        /\ \/ Http /\ code[s] = NoCode /\ at[s] # "start" /\ up[Open(s)] = <<Allocate(s)>>
           \/ Mqtt /\ code[s] \in Codes /\ at[s] \notin {"start", "publishing"}
                   /\ up[Open(s)] = <<Store(Address(code[s]), s)>>
    BY <1>1, <1>5, InvParts DEF OpensOnce
  <2>2. ~AllocatedHttp(s)
    BY <2>1, InvParts DEF AllocatedHttp, ToldOnce
  <2>3. at'[s] # "start" /\ code'[s] = code[s]
        /\ (at[s] \notin {"start", "publishing"} => at'[s] \notin {"start", "publishing"})
    BY <2>1, <2>2, SenderStep
  <2> QED BY <1>2, <1>3, <1>5, <2>1, <2>3
<1>6. CASE AllocatesHttp(s) /\ up'[Open(s)] = Append(up[Open(s)], Allocate(s))
  <2>1. /\ at[s] = "start" /\ Http /\ at' = [at EXCEPT ![s] = "allocating"] /\ UNCHANGED code
    BY <1>6 DEF AllocatesHttp, Goes
  <2>2. up[Open(s)] = <<>>
    BY <1>4, <2>1, InvParts DEF OpensOnce
  <2>3. at'[s] = "allocating" /\ up'[Open(s)] = <<Allocate(s)>>
    BY <1>6, <2>1, <2>2, TypeParts, Singles
  <2> QED BY <1>2, <1>3, <1>4, <2>1, <2>3
<1>7. CASE /\ Publishes(s) \/ PublishFails(s)
           /\ at[s] = "publishing"
           /\ up'[Open(s)] = Append(up[Open(s)], Store(Address(code[s]), s))
  <2>1. at'[s] \in {"waiting", "done"} /\ UNCHANGED code
    BY <1>7, TypeParts DEF Publishes, PublishFails, Goes
  <2>2. code[s] \in Codes /\ code[s] # NoCode
    BY <1>4, <1>7, DrawnCodesSplit
  <2>3. up[Open(s)] = <<>>
    BY <1>7, <2>2, InvParts DEF OpensOnce
  <2>4. up'[Open(s)] = <<Store(Address(code[s]), s)>>
    BY <1>7, <2>3, Singles
  <2> QED BY <1>2, <1>3, <1>4, <1>7, <2>1, <2>2, <2>4
<1> QED BY <1>1, <1>5, <1>6, <1>7, OpenUp

LEMMA ClosesItsOwnNext ==
  ASSUME Inv, [Next]_vars
  PROVE  ClosesItsOwn'
<1>0. scheme' = scheme /\ Http' = Http /\ Mqtt' = Mqtt
  BY WhoDoesWhat DEF Http, Mqtt
<1>1. SUFFICES ASSUME NEW s \in Senders, up'[Closing(s)] # <<>>
               PROVE  /\ Mqtt /\ at'[s] = "done" /\ code'[s] \in Codes /\ code'[s] = code[s]
                      /\ up'[Closing(s)] = <<Clear(Address(code[s]))>>
  <2>1. ASSUME NEW t \in Senders, code'[t] = code[t] PROVE Address(code[t]) = Address(code[t])'
    BY <1>0, <2>1 DEF Address, Http
  <2>2. ClosesItsOwn' <=> \A t \in Senders : up'[Closing(t)] # <<>> =>
          /\ Mqtt' /\ at'[t] = "done" /\ code'[t] \in Codes
          /\ up'[Closing(t)] = <<Clear(Address(code[t])')>>
    BY DEF ClosesItsOwn, Closing, Clear
  <2> QED BY <1>0, <2>1, <2>2
<1>2. at[s] = "cleaning" => code[s] \in Codes
  BY InvParts DEF CodePlaces
<1>3. CASE up'[Closing(s)] = up[Closing(s)]
  <2>1. Mqtt /\ at[s] = "done" /\ code[s] \in Codes /\ up[Closing(s)] = <<Clear(Address(code[s]))>>
    BY <1>1, <1>3, InvParts DEF ClosesItsOwn
  <2>2. at'[s] = "done" /\ code'[s] = code[s]
    BY <2>1, SenderStep
  <2> QED BY <1>3, <2>1, <2>2
<1>4. CASE /\ CleansUp(s) /\ Mqtt /\ at[s] = "cleaning"
           /\ up'[Closing(s)] = Append(up[Closing(s)], Clear(Address(code[s])))
  <2>1. up[Closing(s)] = <<>>
    BY <1>4, InvParts DEF ClosesItsOwn
  <2>2. at'[s] = "done" /\ UNCHANGED code
    BY <1>4, TypeParts DEF CleansUp, Goes
  <2> QED BY <1>2, <1>4, <2>1, <2>2, Singles
<1> QED BY <1>1, <1>3, <1>4, ClosingUp

LEMMA ClaimsAsAskedNext ==
  ASSUME Inv, [Next]_vars
  PROVE  ClaimsAsAsked'
<1>0. scheme' = scheme /\ Http' = Http /\ Mqtt' = Mqtt /\ typed' = typed
  BY WhoDoesWhat DEF Http, Mqtt
<1> DEFINE Fits(r, p) ==
      /\ Splits(typed[r])
      /\ \/ Http /\ p = Claim(Asked(r))
         \/ Mqtt /\ p = Subscribe(Asked(r))
         \/ Mqtt /\ p = Clear(Asked(r)) /\ ticket'[r] # NoTicket
<1>1. SUFFICES ASSUME NEW r \in Receivers, NEW i \in DOMAIN up'[Claiming(r)]
               PROVE  Fits(r, up'[Claiming(r)][i])
  <2>1. ASSUME NEW q \in Receivers PROVE Asked(q)' = Asked(q)
    BY <1>0 DEF Asked, Address, Http
  <2>2. ClaimsAsAsked' <=> \A q \in Receivers : \A j \in DOMAIN up'[Claiming(q)] :
          /\ Splits(typed'[q])
          /\ \/ Http' /\ up'[Claiming(q)][j] = Claim(Asked(q)')
             \/ Mqtt' /\ up'[Claiming(q)][j] = Subscribe(Asked(q)')
             \/ Mqtt' /\ up'[Claiming(q)][j] = Clear(Asked(q)') /\ ticket'[q] # NoTicket
    BY DEF ClaimsAsAsked, Claiming, Claim, Subscribe, Clear
  <2> QED BY <1>0, <2>1, <2>2
<1>2. up[Claiming(r)] \in Seq(Request)
  BY TypeParts, ConnFacts
<1>3. \A j \in DOMAIN up[Claiming(r)] : Fits(r, up[Claiming(r)][j])
  BY InvParts, Steady DEF ClaimsAsAsked
<1>4. CASE up'[Claiming(r)] = up[Claiming(r)]
  BY <1>3, <1>4
<1>5. CASE up'[Claiming(r)] = <<>>
  BY <1>5
<1>6. CASE up[Claiming(r)] # <<>> /\ up'[Claiming(r)] = Tail(up[Claiming(r)])
  BY <1>2, <1>3, <1>6, QueueFacts
<1>7. CASE /\ StartsClaim(r)
           /\ up'[Claiming(r)] = IF Http THEN <<Claim(Asked(r))>>
                                 ELSE <<Subscribe(Asked(r)), Subscribe(Asked(r))>>
  <2>1. Splits(typed[r]) /\ Usable
    BY <1>7 DEF StartsClaim
  <2>2. CASE Http
    BY <1>7, <2>1, <2>2
  <2>3. CASE ~Http
    <3>1. Mqtt
      BY <2>1, <2>3 DEF Usable
    <3>2. up'[Claiming(r)][i] = Subscribe(Asked(r))
      BY <1>7, <2>3
    <3> QED BY <2>1, <3>1, <3>2
  <2> QED BY <2>2, <2>3
<1>8. CASE at[r] = "clearing" /\ up'[Claiming(r)] = Append(up[Claiming(r)], Clear(Asked(r)))
  <2>1. Mqtt /\ ticket[r] # NoTicket
    BY <1>8, InvParts DEF TicketPlaces
  <2>2. ticket'[r] # NoTicket
    BY <2>1, Steady
  <2>3. Splits(typed[r])
    BY <2>1, InvParts DEF AnswersAsAsked, ReadBy
  <2>4. Clear(Asked(r)) \in Request
    <3>1. typed[r] \in Typed
      BY TypeParts
    <3> QED BY <2>3, <3>1, AddressTypes, RequestTypes DEF Asked
  <2>5. \/ i \in DOMAIN up[Claiming(r)] /\ up'[Claiming(r)][i] = up[Claiming(r)][i]
        \/ up'[Claiming(r)][i] = Clear(Asked(r))
    BY <1>2, <1>8, <2>4, QueueFacts
  <2> QED BY <1>3, <2>1, <2>2, <2>3, <2>5
<1> QED BY <1>4, <1>5, <1>6, <1>7, <1>8, ClaimingUp

-----------------------------------------------------------------------------
(* Answers.                                                                *)

LEMMA OpenDown ==
  ASSUME Inv, [Next]_vars, NEW s \in Senders
  PROVE  /\ down'[Closing(s)] = <<>>
         /\ \/ /\ down'[Open(s)] = down[Open(s)]
               /\ at[s] = "allocating" => at'[s] = "allocating"
            \/ down'[Open(s)] = <<>>
            \/ /\ ServerAllocates(s) /\ at[s] = "allocating" /\ at'[s] = "allocating"
               /\ \E n \in 1 .. NameplateMax :
                    /\ slot[ServerSlot(n)] = NoTicket /\ slot' = [slot EXCEPT ![ServerSlot(n)] = s]
                    /\ down'[Open(s)] = <<Created(n)>>
<1>0. down \in [Conns -> Seq(Answer)] /\ down[Closing(s)] = <<>>
  BY TypeParts, InvParts DEF ToldOnce
<1>1. CASE /\ UNCHANGED down
           /\ \A t \in Senders : at[t] = "allocating" => at'[t] = "allocating"
  BY <1>0, <1>1
<1>2. CASE \E c \in Conns :
              /\ down' = [down EXCEPT ![c] = <<>>]
              /\ \A t \in Senders : at[t] = "allocating" /\ c # Open(t) => at'[t] = "allocating"
  BY <1>0, <1>2, ConnFacts
<1>3. ASSUME NEW r \in Receivers, NEW q, down' = [down EXCEPT ![Claiming(r)] = q]
      PROVE  down'[Closing(s)] = down[Closing(s)] /\ down'[Open(s)] = down[Open(s)]
  BY <1>0, <1>3, ConnFacts
<1>4. CASE \E r \in Receivers : SkipsEmpty(r)
  BY <1>0, <1>3, <1>4 DEF SkipsEmpty
<1>5. ASSUME NEW t \in Senders, ServerAllocates(t), t # s
      PROVE  UNCHANGED at /\ down'[Closing(s)] = down[Closing(s)] /\ down'[Open(s)] = down[Open(s)]
  <2>1. UNCHANGED at /\ \E q : down' = [down EXCEPT ![Open(t)] = q]
    BY <1>5 DEF ServerAllocates
  <2> QED BY <1>0, <1>5, <2>1, ConnFacts
<1>6. CASE ServerAllocates(s)
  <2>1. PICK n \in 1 .. NameplateMax :
          /\ slot[ServerSlot(n)] = NoTicket /\ slot' = [slot EXCEPT ![ServerSlot(n)] = s]
          /\ down' = [down EXCEPT ![Open(s)] = IF at[s] = "allocating" THEN <<Created(n)>> ELSE @]
    BY <1>6 DEF ServerAllocates, ServerSlot
  <2>2. UNCHANGED at
    BY <1>6 DEF ServerAllocates
  <2>3. down'[Closing(s)] = down[Closing(s)]
        /\ down'[Open(s)] = IF at[s] = "allocating" THEN <<Created(n)>> ELSE down[Open(s)]
    BY <1>0, <2>1, ConnFacts
  <2> QED BY <1>0, <1>6, <2>1, <2>2, <2>3
<1>7. ASSUME NEW r \in Receivers, ServerClaims(r) \/ BrokerSubscribes(r)
      PROVE  UNCHANGED at /\ down'[Closing(s)] = down[Closing(s)] /\ down'[Open(s)] = down[Open(s)]
  <2>1. UNCHANGED at /\ (UNCHANGED down \/ \E q : down' = [down EXCEPT ![Claiming(r)] = q])
    BY <1>7 DEF ServerClaims, BrokerSubscribes
  <2> QED BY <1>3, <2>1
<1>8. ASSUME NEW c \in Conns, BrokerPublishes(c)
      PROVE  UNCHANGED at /\ down'[Closing(s)] = down[Closing(s)] /\ down'[Open(s)] = down[Open(s)]
  <2>1. UNCHANGED at
    BY <1>8 DEF BrokerPublishes
  <2>2. down' = [d \in Conns |->
                     IF \E r \in Listeners(Head(up[c]).address) : d = Claiming(r)
                     THEN Append(down[d], Payload(Head(up[c]).ticket)) ELSE down[d]]
    BY <1>8 DEF BrokerPublishes
  <2>3. Listeners(Head(up[c]).address) \subseteq Receivers
    BY TypeParts DEF Listeners
  <2> QED BY <2>1, <2>2, <2>3, ConnFacts
<1> QED BY <1>0, <1>1, <1>2, <1>4, <1>5, <1>6, <1>7, <1>8, DownMoves

LEMMA ClaimingDown ==
  ASSUME Inv, [Next]_vars, NEW r \in Receivers
  PROVE  \/ /\ down'[Claiming(r)] = down[Claiming(r)]
            /\ at[r] = "claiming" => at'[r] = "claiming"
         \/ down'[Claiming(r)] = <<>>
         \/ /\ SkipsEmpty(r) /\ at[r] = "claiming" /\ at'[r] = "claiming" /\ down[Claiming(r)] # <<>>
            /\ down'[Claiming(r)] = Tail(down[Claiming(r)])
         \/ /\ ServerClaims(r) /\ at[r] = "claiming" /\ at'[r] = "claiming"
            /\ down'[Claiming(r)] = IF slot[Asked(r)] \in Senders THEN <<Payload(slot[Asked(r)])>>
                                    ELSE <<Refused>>
         \/ /\ BrokerSubscribes(r) /\ at[r] = "claiming" /\ at'[r] = "claiming"
            /\ slot[Asked(r)] \in Senders
            /\ down'[Claiming(r)] = Append(down[Claiming(r)], Payload(slot[Asked(r)]))
         \/ \E c \in Conns :
              /\ BrokerPublishes(c) /\ at[r] = "claiming" /\ at'[r] = "claiming"
              /\ Asked(r) = Head(up[c]).address
              /\ down'[Claiming(r)] = Append(down[Claiming(r)], Payload(Head(up[c]).ticket))
<1>0. down \in [Conns -> Seq(Answer)] /\ Claiming(r) \in Conns
  BY TypeParts, ConnFacts
<1>1. CASE /\ UNCHANGED down
           /\ \A q \in Receivers : at[q] = "claiming" => at'[q] = "claiming"
  BY <1>0, <1>1
<1>2. CASE \E c \in Conns :
              /\ down' = [down EXCEPT ![c] = <<>>]
              /\ \A q \in Receivers : at[q] = "claiming" /\ c # Claiming(q) => at'[q] = "claiming"
  BY <1>0, <1>2, ConnFacts
<1>3. ASSUME NEW p \in Receivers, p # r, NEW q, down' = [down EXCEPT ![Claiming(p)] = q]
      PROVE  down'[Claiming(r)] = down[Claiming(r)]
  BY <1>0, <1>3, ConnFacts
<1>4. ASSUME NEW q \in Receivers, SkipsEmpty(q)
      PROVE  \/ q = r /\ at[r] = "claiming" /\ at'[r] = "claiming" /\ down[Claiming(r)] # <<>>
                      /\ down'[Claiming(r)] = Tail(down[Claiming(r)])
             \/ UNCHANGED at /\ down'[Claiming(r)] = down[Claiming(r)]
  BY <1>0, <1>3, <1>4 DEF SkipsEmpty
<1>5. ASSUME NEW s \in Senders, ServerAllocates(s)
      PROVE  UNCHANGED at /\ down'[Claiming(r)] = down[Claiming(r)]
  <2>1. UNCHANGED at /\ \E q : down' = [down EXCEPT ![Open(s)] = q]
    BY <1>5 DEF ServerAllocates
  <2> QED BY <1>0, <2>1, ConnFacts
<1>6. ASSUME NEW q \in Receivers, q # r, ServerClaims(q) \/ BrokerSubscribes(q)
      PROVE  UNCHANGED at /\ down'[Claiming(r)] = down[Claiming(r)]
  <2>1. UNCHANGED at /\ (UNCHANGED down \/ \E x : down' = [down EXCEPT ![Claiming(q)] = x])
    BY <1>6 DEF ServerClaims, BrokerSubscribes
  <2> QED BY <1>3, <1>6, <2>1
<1>7. CASE ServerClaims(r)
  <2>1. /\ UNCHANGED at
        /\ down' = [down EXCEPT ![Claiming(r)] =
                     IF at[r] # "claiming" THEN @
                     ELSE IF slot[Asked(r)] \in Senders THEN <<Payload(slot[Asked(r)])>>
                     ELSE <<Refused>>]
    BY <1>7, ClaimFacts DEF ServerClaims
  <2> QED BY <1>0, <1>7, <2>1
<1>8. CASE BrokerSubscribes(r)
  <2>1. /\ UNCHANGED at /\ Mqtt /\ Asked(r) \in Addresses
        /\ down' = IF at[r] = "claiming" /\ slot[Asked(r)] # NoTicket
                   THEN [down EXCEPT ![Claiming(r)] = Append(@, Payload(slot[Asked(r)]))] ELSE down
    BY <1>8, SubscribeFacts DEF BrokerSubscribes
  <2>2. slot[Asked(r)] \in Senders \cup {NoTicket}
    BY <2>1, TypeParts, InvParts DEF OnlyServerMarks, Mqtt, Http
  <2> QED BY <1>0, <1>8, <2>1, <2>2
<1>9. ASSUME NEW c \in Conns, BrokerPublishes(c)
      PROVE  /\ UNCHANGED at
             /\ \/ down'[Claiming(r)] = down[Claiming(r)]
                \/ /\ at[r] = "claiming" /\ Asked(r) = Head(up[c]).address
                   /\ down'[Claiming(r)] = Append(down[Claiming(r)], Payload(Head(up[c]).ticket))
  <2>1. UNCHANGED at
    BY <1>9 DEF BrokerPublishes
  <2>2. down' = [d \in Conns |->
                     IF \E q \in Listeners(Head(up[c]).address) : d = Claiming(q)
                     THEN Append(down[d], Payload(Head(up[c]).ticket)) ELSE down[d]]
    BY <1>9 DEF BrokerPublishes
  <2>3. ASSUME NEW q \in Listeners(Head(up[c]).address), Claiming(r) = Claiming(q)
        PROVE  at[r] = "claiming" /\ Asked(r) = Head(up[c]).address
    <3>1. q \in Receivers
      BY TypeParts DEF Listeners
    <3> QED BY <2>3, <3>1, ConnFacts DEF Listeners, Asked
  <2> QED BY <1>0, <2>1, <2>2, <2>3
<1> QED BY <1>0, <1>1, <1>2, <1>4, <1>5, <1>6, <1>7, <1>8, <1>9, DownMoves

-----------------------------------------------------------------------------
(* What is stored.                                                         *)

\* The steps that work on what is stored move no flow.
LEMMA SlotMoves ==
  ASSUME Inv, [Next]_vars
  PROVE  \/ UNCHANGED <<slot, landed, spent>>
         \/ /\ UNCHANGED <<at, code, ticket, tooLate>> /\ Http
            /\ \/ \E s \in Senders, n \in 1 .. NameplateMax :
                    /\ s \notin landed /\ code[s] = NoCode /\ at[s] # "start"
                    /\ slot[ServerSlot(n)] = NoTicket /\ slot' = [slot EXCEPT ![ServerSlot(n)] = s]
                    /\ landed' = landed \cup {s} /\ spent' = spent
                    /\ down'[Open(s)] \in {<<Created(n)>>, <<>>}
               \/ \E r \in Receivers :
                    /\ Splits(typed[r]) /\ Asked(r) \in Addresses
                    /\ slot' = IF slot[Asked(r)] \in Senders
                               THEN [slot EXCEPT ![Asked(r)] = Claimed] ELSE slot
                    /\ spent' = spent \cup ({slot[Asked(r)]} \cap Senders) /\ landed' = landed
         \/ /\ UNCHANGED <<at, code, ticket, tooLate>> /\ ~Http /\ Mqtt
            /\ \/ \E s \in Senders :
                    /\ BrokerPublishes(Open(s))
                    /\ s \notin landed /\ code[s] \in Codes /\ at[s] \notin {"start", "publishing"}
                    /\ slot' = [slot EXCEPT ![Address(code[s])] = s]
                    /\ landed' = landed \cup {s} /\ spent' = spent
               \/ \E s \in Senders :
                    /\ BrokerPublishes(Closing(s)) /\ up[Closing(s)] # <<>>
                    /\ code[s] \in Codes /\ at[s] = "done"
                    /\ slot' = [slot EXCEPT ![Address(code[s])] = NoTicket]
                    /\ landed' = landed /\ spent' = spent
               \/ \E r \in Receivers :
                    /\ Splits(typed[r]) /\ Asked(r) \in Addresses /\ ticket[r] \in Senders
                    /\ slot' = [slot EXCEPT ![Asked(r)] = NoTicket]
                    /\ landed' = landed /\ spent' = spent \cup {ticket[r]}
<1>1. ASSUME NEW s \in Senders, ServerAllocates(s)
      PROVE  /\ UNCHANGED <<at, code, ticket, tooLate>> /\ Http
             /\ \E n \in 1 .. NameplateMax :
                    /\ s \notin landed /\ code[s] = NoCode /\ at[s] # "start"
                    /\ slot[ServerSlot(n)] = NoTicket /\ slot' = [slot EXCEPT ![ServerSlot(n)] = s]
                    /\ landed' = landed \cup {s} /\ spent' = spent
                    /\ down'[Open(s)] \in {<<Created(n)>>, <<>>}
  <2>1. /\ UNCHANGED <<at, code, ticket, tooLate, spent>> /\ landed' = landed \cup {s}
    BY <1>1 DEF ServerAllocates
  <2>2. Http /\ code[s] = NoCode /\ at[s] # "start" /\ s \notin landed
    BY <1>1, AllocateFacts
  <2>3. PICK n \in 1 .. NameplateMax :
          /\ slot[ServerSlot(n)] = NoTicket /\ slot' = [slot EXCEPT ![ServerSlot(n)] = s]
          /\ down' = [down EXCEPT ![Open(s)] = IF at[s] = "allocating" THEN <<Created(n)>> ELSE @]
    BY <1>1 DEF ServerAllocates, ServerSlot
  <2>4. down[Open(s)] = <<>>
    BY <2>2, InvParts DEF ToldOnce
  <2>5. down'[Open(s)] \in {<<Created(n)>>, <<>>}
    BY <2>3, <2>4, TypeParts, ConnFacts
  <2> QED BY <2>1, <2>2, <2>3, <2>5
<1>2. ASSUME NEW r \in Receivers, ServerClaims(r)
      PROVE  /\ UNCHANGED <<at, code, ticket, tooLate>> /\ Http
             /\ Splits(typed[r]) /\ Asked(r) \in Addresses
             /\ slot' = IF slot[Asked(r)] \in Senders
                        THEN [slot EXCEPT ![Asked(r)] = Claimed] ELSE slot
             /\ spent' = spent \cup ({slot[Asked(r)]} \cap Senders) /\ landed' = landed
  BY <1>2, ClaimFacts DEF ServerClaims
<1>3. ASSUME NEW c \in Conns, BrokerPublishes(c)
      PROVE  /\ UNCHANGED <<at, code, ticket, tooLate>> /\ ~Http /\ Mqtt
             /\ \/ \E s \in Senders :
                     /\ c = Open(s)
                     /\ s \notin landed /\ code[s] \in Codes /\ at[s] \notin {"start", "publishing"}
                     /\ slot' = [slot EXCEPT ![Address(code[s])] = s]
                     /\ landed' = landed \cup {s} /\ spent' = spent
                \/ \E s \in Senders :
                     /\ c = Closing(s) /\ up[Closing(s)] # <<>>
                     /\ code[s] \in Codes /\ at[s] = "done"
                     /\ slot' = [slot EXCEPT ![Address(code[s])] = NoTicket]
                     /\ landed' = landed /\ spent' = spent
                \/ \E r \in Receivers :
                     /\ Splits(typed[r]) /\ Asked(r) \in Addresses /\ ticket[r] \in Senders
                     /\ slot' = [slot EXCEPT ![Asked(r)] = NoTicket]
                     /\ landed' = landed /\ spent' = spent \cup {ticket[r]}
  <2>1. /\ UNCHANGED <<at, code, ticket, tooLate>>
        /\ slot' = IF Head(up[c]).retain THEN [slot EXCEPT ![Head(up[c]).address] = Head(up[c]).ticket]
                   ELSE slot
        /\ landed' = landed \cup ({Head(up[c]).ticket} \cap Senders)
        /\ spent' = IF c[1] \in Receivers THEN spent \cup {ticket[c[1]]} ELSE spent
    BY <1>3 DEF BrokerPublishes
  <2>2. Mqtt /\ ~Http /\ up[c] # <<>>
    BY <1>3, PublishFacts DEF Mqtt, Http
  <2>3. CASE \E s \in Senders :
                 /\ c = Open(s) /\ code[s] \in Codes /\ at[s] \notin {"start", "publishing"}
                 /\ s \notin landed /\ Head(up[c]) = Store(Address(code[s]), s)
    <3>1. PICK s \in Senders :
                 /\ c = Open(s) /\ code[s] \in Codes /\ at[s] \notin {"start", "publishing"}
                 /\ s \notin landed /\ Head(up[c]) = Store(Address(code[s]), s)
      BY <2>3
    <3>2. /\ Head(up[c]).address = Address(code[s]) /\ Head(up[c]).ticket = s /\ Head(up[c]).retain
          /\ c[1] = s /\ s \notin Receivers
      BY <3>1, AddressTypes, RequestKinds, ConnFacts
    <3>3. {Head(up[c]).ticket} \cap Senders = {s}
      BY <3>2
    <3> QED BY <2>1, <2>2, <3>1, <3>2, <3>3
  <2>4. CASE \E s \in Senders :
                 /\ c = Closing(s) /\ code[s] \in Codes /\ at[s] = "done"
                 /\ Head(up[c]) = Clear(Address(code[s]))
    <3>1. PICK s \in Senders :
                 /\ c = Closing(s) /\ code[s] \in Codes /\ at[s] = "done"
                 /\ Head(up[c]) = Clear(Address(code[s]))
      BY <2>4
    <3>2. /\ Head(up[c]).address = Address(code[s]) /\ Head(up[c]).ticket = NoTicket
          /\ Head(up[c]).retain /\ c[1] = s /\ s \notin Receivers
      BY <3>1, AddressTypes, RequestKinds, ConnFacts
    <3>3. {Head(up[c]).ticket} \cap Senders = {}
      BY <3>2, TicketFacts
    <3> QED BY <2>1, <2>2, <3>1, <3>2, <3>3
  <2>5. CASE \E r \in Receivers :
                 /\ c = Claiming(r) /\ Splits(typed[r]) /\ Asked(r) \in Addresses
                 /\ ticket[r] \in Senders /\ Head(up[c]) = Clear(Asked(r))
    <3>1. PICK r \in Receivers :
                 /\ c = Claiming(r) /\ Splits(typed[r]) /\ Asked(r) \in Addresses
                 /\ ticket[r] \in Senders /\ Head(up[c]) = Clear(Asked(r))
      BY <2>5
    <3>2. /\ Head(up[c]).address = Asked(r) /\ Head(up[c]).ticket = NoTicket
          /\ Head(up[c]).retain /\ c[1] = r
      BY <3>1, RequestKinds, ConnFacts
    <3>3. {Head(up[c]).ticket} \cap Senders = {}
      BY <3>2, TicketFacts
    <3> QED BY <2>1, <2>2, <3>1, <3>2, <3>3
  <2> QED BY <1>3, <2>3, <2>4, <2>5, PublishFacts
<1>4. CASE \E s \in Senders : ServerAllocates(s)
  BY <1>1, <1>4
<1>5. CASE \E r \in Receivers : ServerClaims(r)
  BY <1>2, <1>5
<1>6. CASE \E c \in Conns : BrokerPublishes(c)
  BY <1>3, <1>6
<1> QED BY <1>4, <1>5, <1>6, WhoDoesWhat

\* A sender whose ticket landed is told no nameplate but its own.
LEMMA PlatesShrink ==
  ASSUME Inv, [Next]_vars, NEW s \in landed
  PROVE  Plates(s)' \subseteq Plates(s)
<1>0. s \in Senders /\ at[s] # "start"
  BY TypeParts, InvParts DEF CodePlaces
<1>1. SUFFICES ASSUME NEW n \in 1 .. NameplateMax,
                      down'[Open(s)] = <<Created(n)>> \/ code'[s].nameplate = n
               PROVE  down[Open(s)] = <<Created(n)>> \/ code[s].nameplate = n
  BY DEF Plates, Open, Created
<1>2. CASE down'[Open(s)] = <<Created(n)>>
  <2>1. ~ServerAllocates(s)
    BY AllocateFacts, <1>0
  <2> QED BY <1>0, <1>2, <2>1, OpenDown, Singles
<1>3. CASE code'[s].nameplate = n /\ code'[s] = code[s]
  BY <1>3
<1>4. CASE code'[s].nameplate = n /\ AllocatedHttp(s)
  <2>1. down[Open(s)] # <<>>
    BY <1>4 DEF AllocatedHttp
  <2>2. PICK m \in 1 .. NameplateMax :
          down[Open(s)] = <<Created(m)>> /\ Head(down[Open(s)]).nameplate = m
    BY <1>0, <2>1, ToldPlate
  <2>3. code'[s] \in Generate(m)
    BY <1>0, <1>4, <2>2, TypeParts DEF AllocatedHttp
  <2>4. code'[s].nameplate = m
    BY <2>3 DEF Generate
  <2> QED BY <1>4, <2>2, <2>4
<1> QED BY <1>0, <1>1, <1>2, <1>3, <1>4, SenderStep

\* The addresses of a step's start are those of its end.
LEMMA SameAddresses ==
  ASSUME [Next]_vars
  PROVE  /\ scheme' = scheme /\ typed' = typed /\ (Http <=> Http') /\ (Mqtt <=> Mqtt')
         /\ \A r \in Receivers : Asked(r)' = Asked(r)
         /\ \A s \in Senders : code'[s] = code[s] => Address(code[s])' = Address(code[s])
BY WhoDoesWhat DEF Http, Mqtt, Asked, Address

\* What a claim read, or is about to, stays right.
LEMMA StillReadBy ==
  ASSUME Inv, [Next]_vars, NEW r \in Receivers, NEW s \in Senders, ReadBy(r, s),
         tooLate'[r] = tooLate[r]
  PROVE  ReadBy(r, s)'
<1>1. s \in landed' /\ s \notin tooLate'[r] /\ Splits(typed'[r])
  BY Steady, SameAddresses DEF ReadBy
<1>2. Http' => \A n \in Plates(s)' : n = typed'[r].plate.value
  BY PlatesShrink, SameAddresses DEF ReadBy
<1>3. ~Http' => Mqtt' /\ code'[s] \in Codes /\ Asked(r)' = Address(code[s])'
  BY Steady, SameAddresses, DrawnCodesSplit DEF ReadBy
<1> QED BY <1>1, <1>2, <1>3 DEF ReadBy

\* What a claim finds under its address is what it may read.
LEMMA StoredReadBy ==
  ASSUME Inv, NEW r \in Receivers, Splits(typed[r]), Asked(r) \in Addresses,
         slot[Asked(r)] \in Senders
  PROVE  ReadBy(r, slot[Asked(r)])
<1> DEFINE s == slot[Asked(r)]
<1>1. s \in landed \ spent /\ tooLate[r] \subseteq spent
  BY InvParts DEF StoredWhereLed, SpentLanded
<1>2. ASSUME Http, NEW n \in Plates(s) PROVE n = typed[r].plate.value
  <2>1. Asked(r) = ServerSlot(n)
    BY <1>2, InvParts DEF StoredWhereLed
  <2>2. Asked(r).nameplate = typed[r].plate.value /\ ServerSlot(n).nameplate = n
    BY <1>2 DEF Asked, Address, Split, ServerSlot
  <2> QED BY <2>1, <2>2
<1>3. ~Http => Mqtt /\ code[s] \in Codes /\ Asked(r) = Address(code[s])
  BY InvParts DEF StoredWhereLed
<1> QED BY <1>1, <1>2, <1>3 DEF ReadBy

LEMMA ToldOnceNext ==
  ASSUME Inv, [Next]_vars
  PROVE  ToldOnce'
<1>1. SUFFICES ASSUME NEW s \in Senders
               PROVE  /\ down'[Closing(s)] = <<>>
                      /\ down'[Open(s)] # <<>> =>
                           /\ Http' /\ at'[s] = "allocating" /\ s \in landed'
                           /\ \E n \in 1 .. NameplateMax : down'[Open(s)] = <<Created(n)>>
  BY DEF ToldOnce, Open, Closing, Created
<1>2. down'[Closing(s)] = <<>>
  BY OpenDown
<1>3. ASSUME down'[Open(s)] # <<>>
      PROVE  /\ Http' /\ at'[s] = "allocating" /\ s \in landed'
             /\ \E n \in 1 .. NameplateMax : down'[Open(s)] = <<Created(n)>>
  <2>1. CASE /\ down'[Open(s)] = down[Open(s)]
             /\ at[s] = "allocating" => at'[s] = "allocating"
    <3>1. /\ Http /\ at[s] = "allocating" /\ s \in landed
          /\ \E n \in 1 .. NameplateMax : down[Open(s)] = <<Created(n)>>
      BY <1>3, <2>1, InvParts DEF ToldOnce
    <3> QED BY <2>1, <3>1, Steady, SameAddresses
  <2>2. CASE /\ ServerAllocates(s) /\ at'[s] = "allocating"
             /\ \E n \in 1 .. NameplateMax : down'[Open(s)] = <<Created(n)>>
    <3>1. landed' = landed \cup {s} /\ Http
      BY <2>2, AllocateFacts DEF ServerAllocates
    <3> QED BY <2>2, <3>1, SameAddresses
  <2> QED BY <1>3, <2>1, <2>2, OpenDown
<1> QED BY <1>2, <1>3

\* Claims begin where no ticket was read and none is on its way.
LEMMA TooLateStays ==
  ASSUME Inv, [Next]_vars, NEW r \in Receivers
  PROVE  \/ tooLate'[r] = tooLate[r]
         \/ /\ tooLate'[r] = spent /\ spent' = spent
            /\ ticket[r] = NoTicket /\ ticket'[r] = NoTicket
            /\ down[Claiming(r)] = <<>> /\ down'[Claiming(r)] = <<>>
<1>1. ASSUME NEW q \in Receivers, StartsClaim(q)
      PROVE  q # r => tooLate'[r] = tooLate[r]
  BY <1>1, TypeParts DEF StartsClaim
<1>2. CASE StartsClaim(r)
  <2>1. at[r] = "start" /\ UNCHANGED <<down, ticket, spent>> /\ tooLate'[r] = spent
    BY <1>2, TypeParts DEF StartsClaim
  <2>2. ticket[r] = NoTicket
    BY <2>1, InvParts DEF TicketPlaces
  <2>3. down[Claiming(r)] = <<>>
    BY <2>1, InvParts DEF AnswersAsAsked
  <2> QED BY <2>1, <2>2, <2>3
<1> QED BY <1>1, <1>2, WhoDoesWhat

LEMMA AnswersAsAskedNext ==
  ASSUME Inv, [Next]_vars
  PROVE  AnswersAsAsked'
<1>1. SUFFICES ASSUME NEW r \in Receivers
               PROVE  /\ down'[Claiming(r)] # <<>> => at'[r] = "claiming"
                      /\ \A i \in DOMAIN down'[Claiming(r)] : \A s \in Senders :
                           down'[Claiming(r)][i].ticket = s => ReadBy(r, s)'
                      /\ \A s \in Senders : ticket'[r] = s => ReadBy(r, s)'
  <2>1. ASSUME NEW r \in Receivers, NEW i \in DOMAIN down'[Claiming(r)]
        PROVE  down'[Claiming(r)][i].ticket \in Senders \cup {NoTicket}
    <3>1. down'[Claiming(r)] \in Seq(Answer)
      BY DownTypes, ConnFacts
    <3>2. down'[Claiming(r)][i] \in Answer
      BY <3>1, QueueFacts
    <3> QED BY <3>2 DEF Answer
  <2>2. \A r \in Receivers : ticket'[r] \in Senders \cup {NoTicket}
    BY PlacesNext
  <2>3. SUFFICES ASSUME NEW r \in Receivers
                 PROVE  (/\ down[Claiming(r)] # <<>> => at[r] = "claiming"
                         /\ \A i \in DOMAIN down[Claiming(r)] :
                              down[Claiming(r)][i].ticket # NoTicket =>
                                ReadBy(r, down[Claiming(r)][i].ticket)
                         /\ ticket[r] # NoTicket => ReadBy(r, ticket[r]))'
    BY DEF AnswersAsAsked
  <2>4. down'[Claiming(r)] # <<>> => at'[r] = "claiming"
    BY <1>1
  <2>5. ASSUME NEW i \in DOMAIN down'[Claiming(r)], down'[Claiming(r)][i].ticket # NoTicket
        PROVE  ReadBy(r, down[Claiming(r)][i].ticket)'
    <3>1. PICK s \in Senders : down'[Claiming(r)][i].ticket = s
      BY <2>1, <2>5
    <3>2. ReadBy(r, s)'
      BY <1>1, <3>1
    <3> QED BY <3>1, <3>2 DEF ReadBy, Plates, Claiming
  <2>6. ASSUME ticket'[r] # NoTicket PROVE ReadBy(r, ticket[r])'
    <3>1. PICK s \in Senders : ticket'[r] = s
      BY <2>2, <2>6
    <3>2. ReadBy(r, s)'
      BY <1>1, <3>1
    <3> QED BY <3>1, <3>2 DEF ReadBy, Plates
  <2> QED BY <2>4, <2>5, <2>6 DEF Claiming
<1>2. /\ down[Claiming(r)] # <<>> => at[r] = "claiming"
      /\ \A i \in DOMAIN down[Claiming(r)] : \A s \in Senders :
           down[Claiming(r)][i].ticket = s => ReadBy(r, s)
      /\ \A s \in Senders : ticket[r] = s => ReadBy(r, s)
  BY InvParts, TicketFacts DEF AnswersAsAsked
<1>3. down'[Claiming(r)] # <<>> => at'[r] = "claiming"
  BY <1>2, ClaimingDown
<1>4. down[Claiming(r)] \in Seq(Answer)
  BY TypeParts, ConnFacts
<1>5. ASSUME NEW i \in DOMAIN down'[Claiming(r)], NEW s \in Senders,
             down'[Claiming(r)][i].ticket = s
      PROVE  ReadBy(r, s)'
  <2>1. down'[Claiming(r)] # <<>>
    BY <1>5
  <2>2. tooLate'[r] = tooLate[r]
    BY <2>1, TooLateStays
  <2>3. SUFFICES ReadBy(r, s) \/ ReadBy(r, s)'
    BY <2>2, StillReadBy
  <2>4. CASE down'[Claiming(r)] = down[Claiming(r)]
    BY <1>2, <1>5, <2>4
  <2>5. CASE down[Claiming(r)] # <<>> /\ down'[Claiming(r)] = Tail(down[Claiming(r)])
    <3>1. i + 1 \in DOMAIN down[Claiming(r)] /\ down'[Claiming(r)][i] = down[Claiming(r)][i + 1]
      BY <1>4, <1>5, <2>5, QueueFacts
    <3> QED BY <1>2, <1>5, <3>1
  <2>6. ASSUME NEW x, down'[Claiming(r)] = <<Payload(x)>> PROVE x = s
    <3>1. down'[Claiming(r)][i] = Payload(x)
      BY <1>5, <2>6
    <3> QED BY <1>5, <3>1 DEF Payload
  <2>7. CASE /\ ServerClaims(r)
             /\ down'[Claiming(r)] = IF slot[Asked(r)] \in Senders THEN <<Payload(slot[Asked(r)])>>
                                     ELSE <<Refused>>
    <3>1. CASE slot[Asked(r)] \in Senders
      BY <2>6, <2>7, <3>1, ClaimFacts, StoredReadBy
    <3>2. CASE slot[Asked(r)] \notin Senders
      <4>1. down'[Claiming(r)][i] = Refused
        BY <1>5, <2>7, <3>2
      <4> QED BY <1>5, <4>1, TicketFacts DEF Refused
    <3> QED BY <3>1, <3>2
  <2>8. ASSUME NEW x \in Senders \cup {NoTicket},
               down'[Claiming(r)] = Append(down[Claiming(r)], Payload(x)), x # s
        PROVE  ReadBy(r, s)
    <3>1. \/ i \in DOMAIN down[Claiming(r)] /\ down'[Claiming(r)][i] = down[Claiming(r)][i]
          \/ down'[Claiming(r)][i] = Payload(x)
      BY <1>4, <1>5, <2>8, QueueFacts, AnswerTypes
    <3>2. down'[Claiming(r)][i] # Payload(x)
      BY <1>5, <2>8 DEF Payload
    <3> QED BY <1>2, <1>5, <3>1, <3>2
  <2>9. CASE /\ BrokerSubscribes(r)
             /\ slot[Asked(r)] \in Senders
             /\ down'[Claiming(r)] = Append(down[Claiming(r)], Payload(slot[Asked(r)]))
    BY <2>8, <2>9, SubscribeFacts, StoredReadBy
  <2>10. ASSUME NEW c \in Conns, BrokerPublishes(c), at[r] = "claiming",
                Asked(r) = Head(up[c]).address,
                down'[Claiming(r)] = Append(down[Claiming(r)], Payload(Head(up[c]).ticket))
         PROVE  ReadBy(r, s) \/ ReadBy(r, s)'
    <3>1. Head(up[c]).ticket \in Senders \cup {NoTicket}
      BY <2>10, PublishFacts, HeadOfQueue DEF Request
    <3>2. CASE Head(up[c]).ticket # s
      BY <2>8, <2>10, <3>1, <3>2
    <3>3. CASE Head(up[c]).ticket = s
      <4>1. ASSUME NEW a \in Addresses PROVE Head(up[c]) # Clear(a)
        BY <3>3, RequestKinds, TicketFacts
      <4>2. PICK t \in Senders : /\ code[t] \in Codes /\ t \notin landed
                                 /\ Head(up[c]) = Store(Address(code[t]), t)
        BY <2>10, <4>1, PublishFacts, AddressTypes
      <4>3. t = s /\ Asked(r) = Address(code[s])
        BY <2>10, <3>3, <4>2, RequestKinds, AddressTypes
      <4>4. s \in landed' /\ UNCHANGED code
        BY <2>10, <3>3 DEF BrokerPublishes
      <4>5. s \notin tooLate'[r]
        BY <2>2, <4>2, <4>3, InvParts DEF SpentLanded
      <4>6. Splits(typed[r])
        BY <2>10, InvParts DEF TicketPlaces
      <4>7. Mqtt /\ ~Http
        BY <2>10, PublishFacts DEF Mqtt, Http
      <4>8. ~Http' /\ Mqtt' /\ typed' = typed /\ Asked(r)' = Address(code[s])'
        BY <4>3, <4>4, <4>7, SameAddresses
      <4> QED BY <4>2, <4>3, <4>4, <4>5, <4>6, <4>8 DEF ReadBy
    <3> QED BY <3>2, <3>3
  <2> QED BY <2>1, <2>4, <2>5, <2>7, <2>9, <2>10, ClaimingDown
<1>6. ASSUME NEW s \in Senders, ticket'[r] = s PROVE ReadBy(r, s)'
  <2>1. tooLate'[r] = tooLate[r]
    BY <1>6, TooLateStays, TicketFacts
  <2>2. CASE ticket[r] = s
    BY <1>2, <2>1, <2>2, StillReadBy
  <2>3. CASE ReadsTicket(r) /\ ticket[r] # s
    <3>1. /\ down[Claiming(r)] # <<>>
          /\ ticket'[r] = Head(down[Claiming(r)]).ticket
      BY <2>3, TypeParts DEF ReadsTicket
    <3>2. 1 \in DOMAIN down[Claiming(r)] /\ Head(down[Claiming(r)]) = down[Claiming(r)][1]
      BY <1>4, <3>1, QueueFacts
    <3> QED BY <1>2, <1>6, <2>1, <3>1, <3>2, StillReadBy
  <2> QED BY <1>6, <2>2, <2>3, ReceiverStep
<1> QED BY <1>3, <1>5, <1>6

LEMMA SpentLandedNext ==
  ASSUME Inv, [Next]_vars
  PROVE  SpentLanded'
<1>1. /\ spent \subseteq landed /\ (\A r \in Receivers : tooLate[r] \subseteq spent)
      /\ \A a \in Addresses : slot[a] \in Senders => slot[a] \in landed
  BY InvParts DEF SpentLanded, StoredWhereLed
<1>2. \A r \in Receivers : ticket[r] \in Senders => ticket[r] \in landed
  BY InvParts, TicketFacts DEF AnswersAsAsked, ReadBy
<1>3. spent' \subseteq landed'
  <2>1. CASE spent' = spent
    BY <1>1, <2>1, Steady
  <2>2. CASE \E r \in Receivers :
               /\ Asked(r) \in Addresses /\ landed' = landed
               /\ spent' = spent \cup ({slot[Asked(r)]} \cap Senders)
    BY <1>1, <2>2
  <2>3. CASE \E r \in Receivers :
               ticket[r] \in Senders /\ landed' = landed /\ spent' = spent \cup {ticket[r]}
    BY <1>1, <1>2, <2>3
  <2> QED BY <2>1, <2>2, <2>3, SlotMoves
<1>4. ASSUME NEW r \in Receivers PROVE tooLate'[r] \subseteq spent'
  BY <1>1, TooLateStays, Steady
<1> QED BY <1>3, <1>4 DEF SpentLanded

LEMMA SlotTypes ==
  ASSUME Inv, [Next]_vars
  PROVE  /\ slot' \in [Addresses -> Senders \cup {NoTicket, Claimed}]
         /\ OnlyServerMarks'
<1>0. /\ slot \in [Addresses -> Senders \cup {NoTicket, Claimed}]
      /\ \A n \in 1 .. NameplateMax : ServerSlot(n) \in Addresses
      /\ NoTicket # Claimed /\ Claimed \notin Senders
  BY TypeParts, TicketFacts DEF Addresses, ServerSlot
<1>1. ASSUME NEW a \in Addresses, NEW x \in Senders \cup {NoTicket, Claimed},
             slot' = [slot EXCEPT ![a] = x]
      PROVE  slot' \in [Addresses -> Senders \cup {NoTicket, Claimed}]
  BY <1>0, <1>1
<1>2. slot' \in [Addresses -> Senders \cup {NoTicket, Claimed}]
  BY <1>0, <1>1, SlotMoves, AddressTypes
<1>3. ASSUME ~Http, NEW a \in Addresses PROVE slot'[a] # Claimed
  <2>1. slot[a] # Claimed
    BY <1>3, InvParts DEF OnlyServerMarks
  <2>2. slot' = slot \/ \E b \in Addresses, x \in Senders \cup {NoTicket} :
                          slot' = [slot EXCEPT ![b] = x]
    BY <1>3, SlotMoves, AddressTypes
  <2> QED BY <1>0, <2>1, <2>2
<1>4. OnlyServerMarks'
  <2>1. Addresses' = Addresses
    BY DEF Addresses
  <2> QED BY <1>3, <2>1, SameAddresses DEF OnlyServerMarks
<1> QED BY <1>2, <1>4

\* Where a ticket was, it stays in place; a new one is put where its code leads.
LEMMA StoredWhereLedNext ==
  ASSUME Inv, [Next]_vars
  PROVE  StoredWhereLed'
<1>0. /\ slot \in [Addresses -> Senders \cup {NoTicket, Claimed}]
      /\ NoTicket \notin Senders /\ Claimed \notin Senders
      /\ spent \subseteq landed /\ landed \subseteq Senders
  BY TypeParts, TicketFacts, InvParts DEF SpentLanded
<1> DEFINE Led(a, s) ==
      /\ s \in landed' \ spent'
      /\ Http => \A n \in Plates(s)' : a = ServerSlot(n)
      /\ ~Http => Mqtt /\ code'[s] \in Codes /\ code'[s] = code[s] /\ a = Address(code[s])
<1>1. SUFFICES ASSUME NEW a \in Addresses, NEW s \in Senders, slot'[a] = s
               PROVE  Led(a, s)
  <2>1. SUFFICES ASSUME NEW b \in Addresses, slot'[b] \in Senders
                 PROVE  (/\ slot[b] \in landed \ spent
                         /\ Http => \A n \in Plates(slot[b]) : b = ServerSlot(n)
                         /\ ~Http => Mqtt /\ code[slot[b]] \in Codes /\ b = Address(code[slot[b]]))'
    BY DEF StoredWhereLed, Addresses
  <2>2. PICK s \in Senders : slot'[b] = s
    BY <2>1
  <2>3. Led(b, s)
    BY <1>1, <2>2
  <2>4. code'[s] = code[s] => Address(code[s])' = Address(code[s])
    BY SameAddresses
  <2>5. ~Http' => Mqtt' /\ code'[s] \in Codes /\ b = Address(code[s])'
    BY <2>3, <2>4, SameAddresses
  <2>6. Http' => \A n \in Plates(s)' : b = ServerSlot(n)
    BY <2>3, SameAddresses
  <2>7. \A n : ServerSlot(n)' = ServerSlot(n)
    BY DEF ServerSlot
  <2>8. (Http => \A n \in Plates(slot[b]) : b = ServerSlot(n))'
    BY <2>2, <2>6, <2>7 DEF Plates, Open, Created
  <2>9. (~Http => Mqtt /\ code[slot[b]] \in Codes /\ b = Address(code[slot[b]]))'
    BY <2>2, <2>5 DEF Address, Http
  <2> QED BY <2>2, <2>3, <2>8, <2>9
<1>2. ASSUME slot[a] = s, s \notin spent' PROVE Led(a, s)
  <2>1. /\ s \in landed
        /\ Http => \A n \in Plates(s) : a = ServerSlot(n)
        /\ ~Http => Mqtt /\ code[s] \in Codes /\ a = Address(code[s])
    BY <1>2, InvParts DEF StoredWhereLed
  <2>2. s \in landed' /\ Plates(s)' \subseteq Plates(s)
    BY <2>1, Steady, PlatesShrink
  <2>3. Mqtt => code'[s] = code[s]
    BY <2>1, Steady
  <2> QED BY <1>2, <2>1, <2>2, <2>3
<1>3. slot[a] = s => s \in landed \ spent
  BY InvParts DEF StoredWhereLed
<1>4. CASE UNCHANGED <<slot, landed, spent>>
  BY <1>1, <1>2, <1>3, <1>4
<1>5. CASE Http
  <2>1. ASSUME NEW t \in Senders, NEW n \in 1 .. NameplateMax,
               t \notin landed, code[t] = NoCode, UNCHANGED code,
               slot' = [slot EXCEPT ![ServerSlot(n)] = t],
               landed' = landed \cup {t}, spent' = spent, down'[Open(t)] \in {<<Created(n)>>, <<>>}
        PROVE  Led(a, s)
    <3>1. CASE a = ServerSlot(n)
      <4>1. s = t
        BY <1>0, <1>1, <2>1, <3>1
      <4>2. \A m \in Plates(t)' : m = n
        <5>1. ASSUME NEW m \in 1 .. NameplateMax,
                     down'[Open(t)] = <<Created(m)>> \/ code'[t].nameplate = m
              PROVE  m = n
          <6>1. code'[t].nameplate = 0 /\ m # 0
            BY <2>1, <5>1 DEF NoCode
          <6>2. <<Created(m)>> = <<Created(n)>> \/ <<Created(m)>> = <<>>
            BY <2>1, <5>1, <6>1
          <6>3. Created(m) = Created(n)
            <7>1. Head(<<Created(m)>>) = Created(m) /\ Head(<<Created(n)>>) = Created(n)
                  /\ <<Created(m)>> # <<>>
              BY Singles
            <7> QED BY <6>2, <7>1
          <6>4. Created(m).nameplate = m /\ Created(n).nameplate = n
            BY DEF Created
          <6> QED BY <6>3, <6>4
        <5> QED BY <5>1 DEF Plates, Open, Created
      <4> QED BY <1>0, <1>5, <2>1, <3>1, <4>1, <4>2
    <3>2. CASE a # ServerSlot(n)
      BY <1>0, <1>1, <1>2, <1>3, <2>1, <3>2
    <3> QED BY <3>1, <3>2
  <2>2. ASSUME NEW r \in Receivers, Asked(r) \in Addresses,
               slot' = IF slot[Asked(r)] \in Senders
                       THEN [slot EXCEPT ![Asked(r)] = Claimed] ELSE slot,
               spent' = spent \cup ({slot[Asked(r)]} \cap Senders)
        PROVE  Led(a, s)
    <3>1. slot[a] = s /\ (slot[Asked(r)] \in Senders => a # Asked(r))
      BY <1>0, <1>1, <2>2
    <3>2. slot[Asked(r)] # s
      BY <2>2, <3>1, InvParts DEF StoredOnce
    <3> QED BY <1>2, <1>3, <2>2, <3>1, <3>2
  <2> QED BY <1>4, <1>5, <2>1, <2>2, SlotMoves
<1>6. CASE ~Http
  <2>1. ASSUME NEW t \in Senders, t \notin landed, code[t] \in Codes, Mqtt, UNCHANGED code,
               slot' = [slot EXCEPT ![Address(code[t])] = t],
               landed' = landed \cup {t}, spent' = spent
        PROVE  Led(a, s)
    <3>1. CASE a = Address(code[t])
      <4>1. s = t
        BY <1>0, <1>1, <2>1, <3>1
      <4> QED BY <1>0, <1>6, <2>1, <3>1, <4>1
    <3>2. CASE a # Address(code[t])
      BY <1>0, <1>1, <1>2, <1>3, <2>1, <3>2
    <3> QED BY <3>1, <3>2
  <2>2. ASSUME NEW b \in Addresses, slot' = [slot EXCEPT ![b] = NoTicket], spent' = spent
        PROVE  Led(a, s)
    <3>1. slot[a] = s
      BY <1>0, <1>1, <2>2
    <3> QED BY <1>2, <1>3, <2>2, <3>1
  <2>3. ASSUME NEW r \in Receivers, ticket[r] \in Senders, Asked(r) \in Addresses,
               slot' = [slot EXCEPT ![Asked(r)] = NoTicket], spent' = spent \cup {ticket[r]}
        PROVE  Led(a, s)
    <3>1. slot[a] = s /\ a # Asked(r)
      BY <1>0, <1>1, <2>3
    <3>2. a = Address(code[s])
      BY <1>6, <3>1, InvParts DEF StoredWhereLed
    <3>3. Asked(r) = Address(code[ticket[r]])
      BY <1>6, <2>3, TicketFacts, InvParts DEF AnswersAsAsked, ReadBy
    <3> QED BY <1>2, <1>3, <2>3, <3>1, <3>2, <3>3
  <2>4. CASE \E t \in Senders : code[t] \in Codes /\ spent' = spent
                                /\ slot' = [slot EXCEPT ![Address(code[t])] = NoTicket]
    BY <2>2, <2>4, AddressTypes
  <2> QED BY <1>4, <1>6, <2>1, <2>3, <2>4, SlotMoves
<1> QED BY <1>5, <1>6

LEMMA StoredOnceNext ==
  ASSUME Inv, [Next]_vars
  PROVE  StoredOnce'
<1>0. /\ slot \in [Addresses -> Senders \cup {NoTicket, Claimed}]
      /\ NoTicket \notin Senders /\ Claimed \notin Senders
      /\ \A n \in 1 .. NameplateMax : ServerSlot(n) \in Addresses
  BY TypeParts, TicketFacts DEF Addresses, ServerSlot
<1>1. /\ \A a, b \in Addresses : slot[a] \in Senders /\ slot[a] = slot[b] => a = b
      /\ \A a \in Addresses : slot[a] \in Senders => slot[a] \in landed
  BY InvParts DEF StoredOnce, StoredWhereLed
<1>2. SUFFICES ASSUME NEW a \in Addresses, NEW b \in Addresses,
                      slot'[a] \in Senders, slot'[a] = slot'[b]
               PROVE  a = b
  BY DEF StoredOnce, Addresses
<1>3. ASSUME NEW c \in Addresses, NEW x \in {NoTicket, Claimed}, slot' = [slot EXCEPT ![c] = x]
      PROVE  a = b
  BY <1>0, <1>1, <1>2, <1>3
<1>4. ASSUME NEW c \in Addresses, NEW t \in Senders, t \notin landed,
             slot' = [slot EXCEPT ![c] = t]
      PROVE  a = b
  BY <1>0, <1>1, <1>2, <1>4
<1>5. CASE slot' = slot
  BY <1>1, <1>2, <1>5
<1>6. \/ slot' = slot
      \/ \E c \in Addresses, x \in {NoTicket, Claimed} : slot' = [slot EXCEPT ![c] = x]
      \/ \E c \in Addresses, t \in Senders : t \notin landed /\ slot' = [slot EXCEPT ![c] = t]
  BY <1>0, SlotMoves, AddressTypes
<1> QED BY <1>3, <1>4, <1>5, <1>6

LEMMA ServerKeepsNext ==
  ASSUME Inv, [Next]_vars
  PROVE  ServerKeeps'
<1>0. /\ slot \in [Addresses -> Senders \cup {NoTicket, Claimed}]
      /\ NoTicket \notin Senders /\ Claimed \notin Senders
      /\ \A n \in 1 .. NameplateMax : ServerSlot(n) \in Addresses
      /\ landed \subseteq Senders
      /\ \A n, m : ServerSlot(n) = ServerSlot(m) => n = m
  <2>1. \A n : ServerSlot(n).nameplate = n
    BY DEF ServerSlot
  <2> QED BY <2>1, TypeParts, TicketFacts DEF Addresses, ServerSlot
<1>1. SUFFICES ASSUME Http, NEW s \in landed' \ spent', NEW n \in 1 .. NameplateMax, n \in Plates(s)'
               PROVE  slot'[ServerSlot(n)] = s
  <2>1. ASSUME Http', NEW t \in landed' \ spent', NEW m \in Plates(t)'
        PROVE  Http /\ m \in 1 .. NameplateMax
    BY <2>1, SameAddresses DEF Plates
  <2> QED BY <1>1, <2>1, SameAddresses DEF ServerKeeps, ServerSlot
<1>2. ASSUME s \in landed PROVE n \in Plates(s) /\ s \notin spent /\ slot[ServerSlot(n)] = s
  BY <1>1, <1>2, PlatesShrink, Steady, InvParts DEF ServerKeeps
<1>3. CASE UNCHANGED <<slot, landed, spent>>
  BY <1>1, <1>2, <1>3
<1>4. ASSUME NEW t \in Senders, NEW m \in 1 .. NameplateMax,
             t \notin landed, code[t] = NoCode, UNCHANGED code,
             slot[ServerSlot(m)] = NoTicket, slot' = [slot EXCEPT ![ServerSlot(m)] = t],
             landed' = landed \cup {t}, down'[Open(t)] \in {<<Created(m)>>, <<>>}
      PROVE  slot'[ServerSlot(n)] = s
  <2>1. CASE s \in landed
    BY <1>0, <1>2, <1>4, <2>1
  <2>2. CASE s \notin landed
    <3>1. s = t
      BY <1>1, <1>4, <2>2
    <3>2. down'[Open(t)] = <<Created(n)>> \/ code'[t].nameplate = n
      BY <1>1, <3>1 DEF Plates, Open, Created
    <3>3. code'[t].nameplate = 0 /\ n # 0
      BY <1>4 DEF NoCode
    <3>4. <<Created(n)>> = <<Created(m)>> \/ <<Created(n)>> = <<>>
      BY <1>4, <3>2, <3>3
    <3>5. Created(n) = Created(m)
      <4>1. Head(<<Created(m)>>) = Created(m) /\ Head(<<Created(n)>>) = Created(n)
            /\ <<Created(n)>> # <<>>
        BY Singles
      <4> QED BY <3>4, <4>1
    <3>6. Created(m).nameplate = m /\ Created(n).nameplate = n
      BY DEF Created
    <3>7. m = n
      BY <3>5, <3>6
    <3> QED BY <1>0, <1>4, <3>1, <3>7
  <2> QED BY <2>1, <2>2
<1>5. ASSUME NEW r \in Receivers, Asked(r) \in Addresses,
             slot' = IF slot[Asked(r)] \in Senders
                     THEN [slot EXCEPT ![Asked(r)] = Claimed] ELSE slot,
             spent' = spent \cup ({slot[Asked(r)]} \cap Senders), landed' = landed
      PROVE  slot'[ServerSlot(n)] = s
  <2>1. slot[ServerSlot(n)] = s /\ s \in Senders
    BY <1>0, <1>1, <1>2, <1>5
  <2>2. Asked(r) # ServerSlot(n)
    BY <1>1, <1>5, <2>1
  <2> QED BY <1>0, <1>5, <2>1, <2>2
<1> QED BY <1>1, <1>3, <1>4, <1>5, SlotMoves

-----------------------------------------------------------------------------
(* How flows end.                                                          *)

LEMMA WhyGrows ==
  ASSUME Inv, [Next]_vars
  PROVE  /\ why' \in [Senders -> SUBSET {"publish failed", "cleanup failed", "dropped", "overtaken"}]
         /\ \A s \in Senders : why[s] \subseteq why'[s]
<1>0. why \in [Senders -> SUBSET {"publish failed", "cleanup failed", "dropped", "overtaken"}]
  BY TypeParts
<1>1. ASSUME NEW s \in Senders,
             NEW x \in {"publish failed", "cleanup failed", "dropped", "overtaken"}, Blames(s, x)
      PROVE  /\ why' \in [Senders -> SUBSET {"publish failed", "cleanup failed", "dropped", "overtaken"}]
             /\ \A t \in Senders : why[t] \subseteq why'[t]
  BY <1>0, <1>1 DEF Blames
<1>2. CASE UNCHANGED why
  BY <1>0, <1>2
<1>3. CASE \E s \in Senders : PublishFails(s) \/ CleanupFails(s) \/ FlowTimesOut(s)
  BY <1>1, <1>3 DEF PublishFails, CleanupFails, FlowTimesOut
<1>4. ASSUME NEW c \in Conns, BrokerPublishes(c) \/ Breaks(c)
      PROVE  \/ UNCHANGED why
             \/ \E s \in Senders : Blames(s, "overtaken") \/ Blames(s, "cleanup failed")
  BY <1>4 DEF BrokerPublishes, Breaks
<1> QED BY <1>1, <1>2, <1>3, <1>4, WhoMoves

\* On a broker a flow ends by its cleanup, or there is a cause.
LEMMA EndsHow ==
  ASSUME Inv, [Next]_vars, NEW s \in Senders, Mqtt, at[s] # "done", at'[s] = "done"
  PROVE  why'[s] # {}
         \/ (CleansUp(s) /\ code[s] \in Codes /\ up' = [up EXCEPT ![Closing(s)] = Append(@, Clear(Address(code[s])))])
<1>0. /\ at \in [Senders \cup Receivers -> SenderPlaces \cup ReceiverPlaces]
      /\ why \in [Senders -> SUBSET {"publish failed", "cleanup failed", "dropped", "overtaken"}]
      /\ Senders \cap Receivers = {} /\ ~Http
  BY TypeParts, ConnFacts DEF Mqtt, Http
<1>1. ASSUME NEW t \in Senders, SendFlow(t) PROVE t = s
  <2>1. \E w : at' = [at EXCEPT ![t] = w]
    BY <1>1, SenderMoves
  <2> QED BY <1>0, <2>1
<1>2. CASE SendFlow(s)
  <2>1. CASE PublishFails(s) \/ CleanupFails(s) \/ FlowTimesOut(s)
    BY <1>0, <2>1 DEF PublishFails, CleanupFails, FlowTimesOut, Blames
  <2>2. CASE CleansUp(s)
    <3>1. at[s] = "cleaning" /\ up' = [up EXCEPT ![Closing(s)] = Append(@, Clear(Address(code[s])))]
      BY <2>2 DEF CleansUp, Sends
    <3> QED BY <2>2, <3>1, InvParts DEF CodePlaces
  <2>3. CASE AllocatesHttp(s) \/ AllocatedHttp(s) \/ AllocatesMqtt(s) \/ Publishes(s) \/ Unwinds(s)
    <3>1. at'[s] # "done"
      BY <1>0, <2>3 DEF AllocatesHttp, AllocatedHttp, AllocatesMqtt, Publishes, Unwinds, Goes
    <3> QED BY <3>1
  <2> QED BY <1>2, <2>1, <2>2, <2>3 DEF SendFlow
<1>3. ASSUME NEW r \in Receivers, ReceiveFlow(r) PROVE FALSE
  <2>1. CASE \E w : at' = [at EXCEPT ![r] = w]
    BY <1>0, <2>1
  <2>2. CASE /\ ticket[r] \in Senders
             /\ \/ at' = [at EXCEPT ![r] = "paired", ![ticket[r]] = "paired"]
                \/ at' = [at EXCEPT ![r] = "failed", ![ticket[r]] = "cleaning"]
    BY <1>0, <2>2
  <2> QED BY <1>3, <2>1, <2>2, ReceiverMoves
<1>4. ASSUME NEW c \in Conns, Breaks(c) PROVE FALSE
  <2>1. at[s] = "allocating"
    BY <1>0, <1>4, BreakMoves
  <2>2. /\ up[c] # <<>> \/ down[c] # <<>>
        /\ \A f \in Senders \cup Receivers : f # c[1] => at'[f] = at[f]
    BY <1>0, <1>4 DEF Breaks
  <2>3. c[1] = s
    BY <2>1, <2>2
  <2>4. c = Open(s) \/ c = Closing(s)
    <3>1. ASSUME NEW t \in Senders, c = Open(t) \/ c = Closing(t) PROVE t = s
      BY <2>3, <3>1, ConnFacts
    <3>2. ASSUME NEW r \in Receivers, c = Claiming(r) PROVE FALSE
      <4>1. c[1] = r
        BY <3>2, ConnFacts
      <4> QED BY <1>0, <2>3, <4>1
    <3> QED BY <3>1, <3>2, ConnFacts
  <2>5. code[s] = NoCode
    BY <2>1, InvParts DEF CodePlaces
  <2>6. up[Open(s)] = <<>> /\ up[Closing(s)] = <<>>
    BY <1>0, <2>1, <2>5, DrawnCodesSplit, InvParts DEF OpensOnce, ClosesItsOwn
  <2>7. down[Open(s)] = <<>> /\ down[Closing(s)] = <<>>
    BY <1>0, InvParts DEF ToldOnce
  <2> QED BY <2>2, <2>4, <2>6, <2>7
<1> QED BY <1>0, <1>1, <1>2, <1>3, <1>4, WhoMoves

LEMMA ClearedBehindNext ==
  ASSUME Inv, [Next]_vars
  PROVE  ClearedBehind'
<1>0. /\ slot \in [Addresses -> Senders \cup {NoTicket, Claimed}]
      /\ up \in [Conns -> Seq(Request)] /\ NoTicket \notin Senders
      /\ why \in [Senders -> SUBSET {"publish failed", "cleanup failed", "dropped", "overtaken"}]
  BY TypeParts, TicketFacts
<1>1. SUFFICES ASSUME NEW s \in Senders, Mqtt, at'[s] = "done", why'[s] = {}
               PROVE  /\ code'[s] \in Codes /\ code'[s] = code[s]
                      /\ up'[Closing(s)] = <<>> => up'[Open(s)] = <<>> /\ slot'[Address(code[s])] # s
  BY SameAddresses DEF ClearedBehind, Closing, Open
<1>2. CASE at[s] # "done"
  <2>1. /\ CleansUp(s) /\ code[s] \in Codes
        /\ up' = [up EXCEPT ![Closing(s)] = Append(@, Clear(Address(code[s])))]
    BY <1>1, <1>2, EndsHow
  <2>2. UNCHANGED code
    BY <2>1 DEF CleansUp
  <2>3. up'[Closing(s)] = Append(up[Closing(s)], Clear(Address(code[s])))
    BY <1>0, <2>1, ConnFacts
  <2>4. up'[Closing(s)] # <<>>
    <3>1. up[Closing(s)] \in Seq(Request) /\ Clear(Address(code[s])) \in Request
      BY <1>0, <2>1, ConnFacts, RequestTypes, AddressTypes
    <3> QED BY <2>3, <3>1, QueueFacts
  <2> QED BY <2>1, <2>2, <2>4
<1>3. CASE at[s] = "done"
  <2>1. why[s] = {}
    BY <1>1, WhyGrows
  <2>2. /\ code[s] \in Codes
        /\ up[Closing(s)] = <<>> => up[Open(s)] = <<>> /\ slot[Address(code[s])] # s
    BY <1>1, <1>3, <2>1, InvParts DEF ClearedBehind
  <2>3. code'[s] = code[s]
    BY <2>2, Steady, DrawnCodesSplit
  <2>4. up[Open(s)] = <<>> => up'[Open(s)] = <<>>
    <3>1. ~AllocatesHttp(s)
      BY <1>3 DEF AllocatesHttp
    <3> QED BY <1>3, <3>1, OpenUp
  <2>5. ASSUME up'[Closing(s)] = <<>> PROVE up'[Open(s)] = <<>> /\ slot'[Address(code[s])] # s
    <3>1. CASE up[Closing(s)] = <<>>
      <4>1. ~BrokerPublishes(Open(s))
        BY <2>2, <3>1, ConnFacts, PublishFacts
      <4>2. slot[Address(code[s])] # s /\ Address(code[s]) \in Addresses
        BY <2>2, <3>1, AddressTypes
      <4>3. ~Http
        BY <1>1 DEF Http, Mqtt
      <4>4. ASSUME NEW a \in Addresses, NEW x, x # s, slot' = [slot EXCEPT ![a] = x]
            PROVE  slot'[Address(code[s])] # s
        BY <1>0, <4>2, <4>4
      <4>5. slot'[Address(code[s])] # s
        BY <1>0, <4>1, <4>2, <4>3, <4>4, SlotMoves, AddressTypes
      <4> QED BY <2>2, <2>4, <3>1, <4>5
    <3>2. CASE up[Closing(s)] # <<>>
      <4>1. ~Breaks(Closing(s))
        <5>1. ASSUME Breaks(Closing(s)) PROVE "cleanup failed" \in why'[s]
          <6>1. Closing(s)[1] = s
            BY ConnFacts
          <6>2. Blames(s, "cleanup failed")
            BY <5>1, <6>1 DEF Breaks
          <6> QED BY <1>0, <6>2 DEF Blames
        <5> QED BY <1>1, <5>1
      <4>2. BrokerPublishes(Closing(s))
        BY <2>5, <3>2, <4>1, ClosingUp, Singles
      <4>3. up[Open(s)] = <<>>
        <5>1. ASSUME up[Open(s)] # <<>> PROVE "overtaken" \in why'[s]
          <6>1. Closing(s)[1] = s
            BY ConnFacts
          <6>2. Blames(s, "overtaken")
            BY <4>2, <5>1, <6>1 DEF BrokerPublishes
          <6> QED BY <1>0, <6>2 DEF Blames
        <5> QED BY <1>1, <5>1
      <4>4. /\ Head(up[Closing(s)]) = Clear(Address(code[s])) /\ Address(code[s]) \in Addresses
        BY <2>2, <3>2, AddressTypes, Singles, InvParts DEF ClosesItsOwn
      <4>5. slot' = [slot EXCEPT ![Address(code[s])] = NoTicket]
        <5>1. /\ Head(up[Closing(s)]).address = Address(code[s])
              /\ Head(up[Closing(s)]).ticket = NoTicket /\ Head(up[Closing(s)]).retain
          BY <4>4, RequestKinds
        <5> QED BY <4>2, <5>1 DEF BrokerPublishes
      <4> QED BY <1>0, <2>4, <4>3, <4>4, <4>5
    <3> QED BY <3>1, <3>2
  <2> QED BY <2>2, <2>3, <2>5
<1> QED BY <1>2, <1>3

LEMMA MatesNext ==
  ASSUME Inv, [Next]_vars
  PROVE  /\ mate' \in [Receivers -> Senders \cup {NoTicket}]
         /\ MatesPlaces' /\ PairedWithTheWords'
<1>0. /\ at \in [Senders \cup Receivers -> SenderPlaces \cup ReceiverPlaces]
      /\ mate \in [Receivers -> Senders \cup {NoTicket}]
      /\ ticket \in [Receivers -> Senders \cup {NoTicket}]
      /\ Senders \cap Receivers = {} /\ NoTicket \notin Senders
  BY TypeParts, ConnFacts, TicketFacts
<1>1. \A r \in Receivers : mate[r] # NoTicket =>
        /\ at[r] = "paired" /\ at[mate[r]] \in {"paired", "cleaning", "done"}
        /\ typed[r].words = code[mate[r]].words
        /\ \A q \in Receivers \ {r} : mate[q] # mate[r]
  BY InvParts DEF MatesPlaces, PairedWithTheWords
<1>2. \A r \in Receivers : mate[r] # NoTicket =>
        /\ at'[r] = "paired" /\ at'[mate[r]] \in {"paired", "cleaning", "done"}
        /\ code'[mate[r]] = code[mate[r]]
  <2>1. ASSUME NEW r \in Receivers, mate[r] # NoTicket
        PROVE  /\ at'[r] = "paired" /\ at'[mate[r]] \in {"paired", "cleaning", "done"}
               /\ code'[mate[r]] = code[mate[r]]
    <3>1. mate[r] \in Senders
      BY <1>0, <2>1
    <3>2. at'[r] = "paired"
      BY <1>1, <2>1, ReceiverStep
    <3>3. at'[mate[r]] \in {"paired", "cleaning", "done"} /\ code'[mate[r]] = code[mate[r]]
      BY <1>1, <2>1, <3>1, SenderStep
    <3> QED BY <3>2, <3>3
  <2> QED BY <2>1
<1>3. CASE UNCHANGED mate
  <2>1. MatesPlaces'
    BY <1>2, <1>3 DEF MatesPlaces
  <2>2. PairedWithTheWords'
    BY <1>1, <1>2, <1>3, SameAddresses DEF PairedWithTheWords
  <2> QED BY <1>0, <1>3, <2>1, <2>2
<1>4. ASSUME NEW r \in Receivers, Pairs(r), ~UNCHANGED mate
      PROVE  /\ mate' \in [Receivers -> Senders \cup {NoTicket}]
             /\ MatesPlaces' /\ PairedWithTheWords'
  <2>1. PICK s \in Senders : /\ s = ticket[r] /\ at[s] = "waiting" /\ at[r] = "claimed"
                             /\ Agree(code[s].words, typed[r].words)
                             /\ at' = [at EXCEPT ![r] = "paired", ![s] = "paired"]
                             /\ mate' = [mate EXCEPT ![r] = s]
                             /\ UNCHANGED code
    <3>1. at[r] = "claimed"
      BY <1>4 DEF Pairs
    <3>2. ticket[r] \in Senders
      BY <1>0, <3>1, InvParts DEF TicketPlaces
    <3> QED BY <1>4, <3>2 DEF Pairs
  <2>2. at'[r] = "paired" /\ at'[s] = "paired"
    BY <1>0, <2>1
  <2>3. typed[r].words = code[s].words
    BY <2>1, AgreeOnTheWords
  <2>4. \A q \in Receivers : mate[q] # s
    BY <1>0, <1>1, <2>1
  <2>5. mate' \in [Receivers -> Senders \cup {NoTicket}] /\ mate'[r] = s
        /\ \A q \in Receivers : q # r => mate'[q] = mate[q]
    BY <1>0, <2>1
  <2>6. MatesPlaces'
    BY <1>2, <2>2, <2>5 DEF MatesPlaces
  <2>7. PairedWithTheWords'
    <3>1. SUFFICES ASSUME NEW p \in Receivers, mate'[p] # NoTicket
                   PROVE  /\ typed[p].words = code[mate'[p]].words
                          /\ \A q \in Receivers \ {p} : mate'[q] # mate'[p]
      BY <2>1, SameAddresses DEF PairedWithTheWords
    <3>2. CASE p = r
      BY <2>3, <2>4, <2>5, <3>2
    <3>3. CASE p # r
      <4>1. mate'[p] = mate[p] /\ mate[p] # s
        BY <2>4, <2>5, <3>3
      <4>2. \A q \in Receivers \ {p} : mate'[q] # mate'[p]
        BY <1>1, <2>5, <3>1, <4>1
      <4> QED BY <1>1, <3>1, <4>1, <4>2
    <3> QED BY <3>2, <3>3
  <2> QED BY <2>5, <2>6, <2>7
<1> QED BY <1>3, <1>4, WhoDoesWhat

\* On HTTP the server keeps what is not claimed.  At a broker only the ticket's
\* own cleanup, a claim that read it and the store of an equal code come to its
\* address.
LEMMA KeptWhileWaitingNext ==
  ASSUME Inv, [Next]_vars
  PROVE  KeptWhileWaiting'
<1>0. /\ slot \in [Addresses -> Senders \cup {NoTicket, Claimed}]
      /\ landed \subseteq Senders
  BY TypeParts
<1>1. SUFFICES ASSUME NEW s \in Senders, at'[s] = "waiting", s \in landed',
                      \A t \in Senders \ {s} : code'[t] # code'[s],
                      IF Http THEN s \notin spent' ELSE \A r \in Receivers : ticket'[r] # s
               PROVE  slot'[Address(code[s])'] = s
  BY SameAddresses DEF KeptWhileWaiting
<1>2. code'[s] \in Codes
  BY <1>1, CodePlacesNext DEF CodePlaces
<1>3. CASE Http
  <2>1. code'[s].nameplate \in Plates(s)'
    BY <1>2, DrawnCodesSplit DEF Plates
  <2>2. slot'[ServerSlot(code'[s].nameplate)] = s
    BY <1>1, <1>3, <2>1, ServerKeepsNext, SameAddresses DEF ServerKeeps, ServerSlot
  <2>3. Address(code[s])' = ServerSlot(code'[s].nameplate)
    BY <1>3, SameAddresses DEF Address, ServerSlot, Http
  <2> QED BY <2>2, <2>3
<1>4. CASE ~Http /\ s \notin landed
  <2>1. BrokerPublishes(Open(s))
    BY <1>1, <1>4, Lands, AllocateFacts
  <2>2. PICK t \in Senders : /\ s \notin landed /\ code[t] \in Codes /\ UNCHANGED code
                             /\ slot' = [slot EXCEPT ![Address(code[t])] = t]
                             /\ landed' = landed \cup {t}
    <3>1. landed' # landed
      BY <1>1, <1>4
    <3> QED BY <1>4, <3>1, SlotMoves
  <2>3. t = s
    BY <1>1, <2>2
  <2> QED BY <1>0, <2>2, <2>3, SameAddresses, AddressTypes
<1>5. CASE ~Http /\ s \in landed
  <2>1. at[s] \notin {"start", "publishing"}
    BY <1>5, InvParts DEF CodePlaces
  <2>2. ~AllocatedHttp(s)
    BY <1>5, ToldPlate DEF AllocatedHttp
  <2>3. at[s] = "waiting" /\ code'[s] = code[s]
    BY <1>1, <2>1, <2>2, SenderStep
  <2>4. \A r \in Receivers : ticket[r] # s
    BY <1>1, <1>5, Steady, TicketFacts
  <2>5. ASSUME NEW t \in Senders, code[t] = code[s] PROVE t = s
    BY <1>1, <1>2, <2>3, <2>5, Steady, DrawnCodesSplit
  <2>6. slot[Address(code[s])] = s /\ Address(code[s]) \in Addresses
    BY <1>2, <1>5, <2>3, <2>4, <2>5, AddressTypes, InvParts DEF KeptWhileWaiting
  <2>7. ASSUME NEW t \in Senders, code[t] \in Codes, NEW x,
               slot' = [slot EXCEPT ![Address(code[t])] = x], t # s
        PROVE  slot'[Address(code[s])] = s
    <3>1. Address(code[t]) # Address(code[s])
      BY <1>2, <1>5, <2>3, <2>5, <2>7, AddressesApart
    <3> QED BY <1>0, <2>6, <2>7, <3>1
  <2>8. ASSUME NEW r \in Receivers, ticket[r] \in Senders, Asked(r) \in Addresses, NEW x,
               slot' = [slot EXCEPT ![Asked(r)] = x]
        PROVE  slot'[Address(code[s])] = s
    <3>1. Asked(r) = Address(code[ticket[r]]) /\ code[ticket[r]] \in Codes
      BY <1>5, <2>8, TicketFacts, InvParts DEF AnswersAsAsked, ReadBy
    <3> QED BY <2>4, <2>7, <2>8, <3>1
  <2>9. slot'[Address(code[s])] = s
    <3>1. CASE UNCHANGED slot
      BY <2>6, <3>1
    <3>2. CASE \E t \in Senders : code[t] \in Codes /\ slot' = [slot EXCEPT ![Address(code[t])] = t]
      BY <1>0, <2>6, <2>7, <3>2
    <3>3. CASE \E t \in Senders : /\ code[t] \in Codes /\ at[t] = "done"
                                  /\ slot' = [slot EXCEPT ![Address(code[t])] = NoTicket]
      BY <2>3, <2>7, <3>3
    <3>4. CASE \E r \in Receivers : /\ ticket[r] \in Senders /\ Asked(r) \in Addresses
                                    /\ slot' = [slot EXCEPT ![Asked(r)] = NoTicket]
      BY <2>8, <3>4
    <3> QED BY <1>5, <3>1, <3>2, <3>3, <3>4, SlotMoves
  <2> QED BY <2>3, <2>9, SameAddresses
<1> QED BY <1>3, <1>4, <1>5

-----------------------------------------------------------------------------
(* The invariant.                                                          *)

LEMMA TypeNext ==
  ASSUME Inv, [Next]_vars
  PROVE  TypeOK' /\ Queues'
<1>1. /\ scheme' \in Schemes /\ typed' \in [Receivers -> Typed]
  BY TypeParts, SameAddresses
<1>2. /\ at' \in [Senders \cup Receivers -> SenderPlaces \cup ReceiverPlaces]
      /\ \A s \in Senders : at'[s] \in SenderPlaces
      /\ \A r \in Receivers : at'[r] \in ReceiverPlaces
      /\ code' \in [Senders -> Codes \cup {NoCode}]
      /\ ticket' \in [Receivers -> Senders \cup {NoTicket}]
  BY PlacesNext
<1>3. \A s \in Senders : at'[s] \in {"waiting", "paired"} =>
        /\ code'[s] \in Codes
        /\ Validates(Display(code'[s])) /\ Split(Display(code'[s])) = code'[s]
  BY CodePlacesNext, DrawnCodesSplit DEF CodePlaces
<1>4. /\ slot' \in [Addresses -> Senders \cup {NoTicket, Claimed}]
      /\ mate' \in [Receivers -> Senders \cup {NoTicket}]
      /\ why' \in [Senders -> SUBSET {"publish failed", "cleanup failed", "dropped", "overtaken"}]
  BY SlotTypes, MatesNext, WhyGrows
<1>5. subscribed' \subseteq Receivers
  <2>1. ASSUME NEW r \in Receivers, BrokerSubscribes(r) PROVE subscribed' \subseteq Receivers
    BY <2>1, TypeParts DEF BrokerSubscribes
  <2> QED BY <2>1, TypeParts, WhoDoesWhat
<1>6. landed' \subseteq Senders /\ spent' \subseteq Senders
  BY TypeParts, SlotMoves
<1>7. tooLate' \in [Receivers -> SUBSET Senders]
  <2>1. ASSUME NEW r \in Receivers, StartsClaim(r) PROVE tooLate' \in [Receivers -> SUBSET Senders]
    BY <2>1, TypeParts DEF StartsClaim
  <2> QED BY <2>1, TypeParts, WhoDoesWhat
<1>8. up' \in [Conns -> Seq(Request)] /\ down' \in [Conns -> Seq(Answer)]
  BY UpTypes, DownTypes
<1>9. /\ \A c \in Conns : \A i \in DOMAIN up'[c] : up'[c][i] \in Request
      /\ \A c \in Conns : \A i \in DOMAIN down'[c] : down'[c][i] \in Answer
  BY <1>8, QueueFacts
<1>10. Queues'
  BY <1>2, <1>8 DEF Queues
<1>11. TypeOK'
  BY <1>1, <1>2, <1>3, <1>4, <1>5, <1>6, <1>7, <1>9 DEF TypeOK, SenderPlaces, ReceiverPlaces
<1> QED BY <1>10, <1>11

LEMMA InvInit == Init => Inv
<1> SUFFICES ASSUME Init PROVE Inv
  OBVIOUS
<1>1. /\ at = [f \in Senders \cup Receivers |-> "start"] /\ code = [s \in Senders |-> NoCode]
      /\ ticket = [r \in Receivers |-> NoTicket] /\ slot = [a \in Addresses |-> NoTicket]
      /\ up = [c \in Conns |-> <<>>] /\ down = [c \in Conns |-> <<>>]
      /\ mate = [r \in Receivers |-> NoTicket] /\ landed = {} /\ spent = {}
      /\ tooLate = [r \in Receivers |-> {}] /\ why = [s \in Senders |-> {}]
      /\ scheme \in Schemes /\ typed \in [Receivers -> Typed] /\ subscribed = {}
  BY DEF Init
<1>2. /\ \A s \in Senders : up[Open(s)] = <<>> /\ up[Closing(s)] = <<>>
      /\ \A s \in Senders : down[Open(s)] = <<>> /\ down[Closing(s)] = <<>>
      /\ \A r \in Receivers : up[Claiming(r)] = <<>> /\ down[Claiming(r)] = <<>>
      /\ \A s \in Senders : at[s] = "start" /\ code[s] = NoCode
      /\ \A r \in Receivers : at[r] = "start" /\ ticket[r] = NoTicket
      /\ \A a \in Addresses : slot[a] = NoTicket
      /\ DOMAIN <<>> = {}
  BY <1>1, ConnFacts
<1>3. TypeOK
  BY <1>1, <1>2 DEF TypeOK
<1>4. PlaceInv
  <2>1. /\ "start" \in SenderPlaces
        /\ \A S : <<>> \in Seq(S)
    BY DEF SenderPlaces
  <2>2. Queues
    BY <1>1, <2>1 DEF Queues
  <2> QED BY <1>1, <1>2, <2>2 DEF PlaceInv, CodePlaces, TicketPlaces
<1>5. WireInv
  BY <1>2 DEF WireInv, OpensOnce, ClosesItsOwn, ClaimsAsAsked, ToldOnce, AnswersAsAsked
<1>6. StoreInv
  BY <1>1, <1>2, TicketFacts
     DEF StoreInv, StoredWhereLed, StoredOnce, OnlyServerMarks, SpentLanded, ServerKeeps
<1>7. EndInv
  BY <1>1, <1>2 DEF EndInv, KeptWhileWaiting, ClearedBehind, MatesPlaces, PairedWithTheWords
<1> QED BY <1>3, <1>4, <1>5, <1>6, <1>7 DEF Inv

LEMMA InvNext == Inv /\ [Next]_vars => Inv'
<1> SUFFICES ASSUME Inv, [Next]_vars PROVE Inv'
  OBVIOUS
<1>1. PlaceInv'
  BY TypeNext, CodePlacesNext, TicketPlacesNext DEF PlaceInv
<1>2. WireInv'
  BY OpensOnceNext, ClosesItsOwnNext, ClaimsAsAskedNext, ToldOnceNext, AnswersAsAskedNext DEF WireInv
<1>3. StoreInv'
  BY StoredWhereLedNext, StoredOnceNext, SlotTypes, SpentLandedNext, ServerKeepsNext DEF StoreInv
<1>4. EndInv'
  BY KeptWhileWaitingNext, ClearedBehindNext, MatesNext DEF EndInv
<1> QED BY <1>1, <1>2, <1>3, <1>4, TypeNext DEF Inv

LEMMA Invariant == Spec => []Inv
BY InvInit, InvNext, PTL DEF Spec

\* The flows, the queues and what is stored keep their types, and a sender that
\* published displays a code which the receive flow takes apart into the same
\* nameplate and words (wordcode.rs:39-125).
THEOREM TypeCorrect == Spec => []TypeOK
<1>1. Inv => TypeOK
  BY DEF Inv
<1> QED BY <1>1, Invariant, PTL

\* Whatever is claimed, published, cleared or lost in between, a claim reads
\* only the ticket of the sender whose nameplate was typed, and at a broker only
\* with its words (derive_topic, rendezvous_client.rs:611).
THEOREM ReadsItsOwn == Spec => []TicketOfTheCode
<1>1. ASSUME Inv PROVE TicketOfTheCode
  <2>1. SUFFICES ASSUME NEW r \in Receivers, ticket[r] # NoTicket, code[ticket[r]] # NoCode
                 PROVE  /\ Split(typed[r]).nameplate = code[ticket[r]].nameplate
                        /\ Mqtt => Normalised(Split(typed[r]).words) = code[ticket[r]].words
    BY DEF TicketOfTheCode
  <2>2. ticket[r] \in Senders /\ code[ticket[r]] \in Codes
    BY <1>1, <2>1, TypeParts
  <2>3. ReadBy(r, ticket[r])
    BY <1>1, <2>1, InvParts DEF AnswersAsAsked
  <2>4. CASE Http
    <3>1. code[ticket[r]].nameplate \in Plates(ticket[r])
      BY <2>2, DrawnCodesSplit DEF Plates
    <3> QED BY <2>3, <2>4, <3>1 DEF ReadBy, Split, Http, Mqtt
  <2>5. CASE ~Http
    <3>1. Address(Split(typed[r])) = Address(code[ticket[r]])
      BY <2>3, <2>5 DEF ReadBy, Asked
    <3>2. /\ Split(typed[r]).nameplate = code[ticket[r]].nameplate
          /\ Normalised(Split(typed[r]).words) = Normalised(code[ticket[r]].words)
      BY <2>5, <3>1 DEF Address
    <3> QED BY <2>2, <3>2, DrawnCodesNormal
  <2> QED BY <2>4, <2>5
<1> QED BY <1>1, Invariant, PTL

\* A claim that begins after a ticket's clear was carried out, or after the
\* server handed it out, does not get that ticket (rendezvous_client.rs:801,
\* mailbox.rs:144-166).
THEOREM NotTooLate == Spec => []NoLateClaim
<1>1. ASSUME Inv PROVE NoLateClaim
  <2>1. SUFFICES ASSUME NEW r \in Receivers, ticket[r] \in tooLate[r] PROVE FALSE
    BY DEF NoLateClaim
  <2>2. ticket[r] \in Senders
    BY <1>1, <2>1, TypeParts
  <2> QED BY <1>1, <2>1, <2>2, TicketFacts, InvParts DEF AnswersAsAsked, ReadBy
<1> QED BY <1>1, Invariant, PTL

\* Nothing takes the ticket of a waiting sender away before a claim read it: not
\* the cleanup of another sender nor the late clear of another claim
\* (rendezvous_client.rs:779-845, send/mod.rs:218).
THEOREM KeptForTheWaiting == Spec => []KeptWhileWaiting
<1>1. Inv => KeptWhileWaiting
  BY InvParts
<1> QED BY <1>1, Invariant, PTL

\* A sender that ended left its ticket at a broker only for one of four causes
\* (send/mod.rs:218, rendezvous_client.rs:757-845).
THEOREM LeftoversHaveACause == Spec => []LeftoversExplained
<1>1. Inv => LeftoversExplained
  BY InvParts DEF ClearedBehind, LeftoversExplained
<1> QED BY <1>1, Invariant, PTL

\* Whoever pairs typed the sender's words, whichever ticket it read, and is the
\* only one (handshake.rs, wire.rs:195-240).
THEOREM PairsKnowTheWords == Spec => []PairedWithTheWords
<1>1. Inv => PairedWithTheWords
  BY InvParts
<1> QED BY <1>1, Invariant, PTL

-----------------------------------------------------------------------------
(* The server is a one-shot box.                                           *)

LEMMA ServerInit == Init => Server!Init
BY DEF Init, Server!Init, BoxOf

\* The server stores a ticket and hands it out; whatever else happens under an
\* http base leaves the box alone, and under another one there is none.
LEMMA ServerNext ==
  ASSUME Inv, [Next]_vars
  PROVE  [Server!Next]_(Server!vars)
<1> DEFINE box == [s \in Senders |-> BoxOf(s)]
           none == [s \in Senders |-> 0]
<1>0. (Http' <=> Http) /\ spent \subseteq landed
  BY WhoDoesWhat, InvParts DEF Http, SpentLanded
<1>1. ASSUME UNCHANGED <<landed, spent>> \/ ~Http PROVE box' = box
  BY <1>0, <1>1 DEF BoxOf
<1>2. box' = box => UNCHANGED Server!vars
  BY DEF Server!vars
<1>3. ASSUME NEW s \in Senders, Http, s \notin landed, landed' = landed \cup {s}, spent' = spent
      PROVE  Server!Deposit(s)
  <2>1. box[s] = "absent" /\ box' = [box EXCEPT ![s] = "open"]
    BY <1>0, <1>3 DEF BoxOf
  <2>2. none[s] \in Nat /\ none = [none EXCEPT ![s] = none[s]]
    OBVIOUS
  <2> HIDE DEF box, none
  <2>3. none' = none
    BY DEF none
  <2> QED BY <2>1, <2>2, <2>3 DEF Server!Deposit, box, none
<1>4. ASSUME NEW s \in Senders, Http, s \in landed \ spent, landed' = landed,
             spent' = spent \cup {s}
      PROVE  Server!HandOut(s)
  <2>1. box[s] = "open" /\ box' = [box EXCEPT ![s] = "taken"]
    BY <1>0, <1>4 DEF BoxOf
  <2> QED BY <2>1 DEF Server!HandOut
<1>5. CASE \E r \in Receivers :
             /\ Http /\ Asked(r) \in Addresses /\ landed' = landed
             /\ spent' = spent \cup ({slot[Asked(r)]} \cap Senders)
  <2>1. PICK r \in Receivers :
          /\ Http /\ Asked(r) \in Addresses /\ landed' = landed
          /\ spent' = spent \cup ({slot[Asked(r)]} \cap Senders)
    BY <1>5
  <2>2. CASE slot[Asked(r)] \in Senders
    <3>1. slot[Asked(r)] \in landed \ spent /\ spent' = spent \cup {slot[Asked(r)]}
      BY <2>1, <2>2, InvParts DEF StoredWhereLed
    <3> QED BY <1>4, <2>1, <2>2, <3>1 DEF Server!Next
  <2>3. CASE slot[Asked(r)] \notin Senders
    BY <1>1, <1>2, <2>1, <2>3
  <2> QED BY <2>2, <2>3
<1>6. CASE \E s \in Senders :
             Http /\ s \notin landed /\ landed' = landed \cup {s} /\ spent' = spent
  BY <1>3, <1>6 DEF Server!Next
<1> HIDE DEF box
<1> QED BY <1>1, <1>2, <1>5, <1>6, SlotMoves

\* What the flows see of the HTTP server is the box that Rendezvous.tla proves the
\* server to be: every ticket is stored once, at most once handed out, and never
\* withdrawn (rendezvous_client.rs:331-376).
THEOREM ServerIsOneShot == Spec => ServesOneShot
<1>1. Inv /\ [Next]_vars => [Server!Next]_(Server!vars)
  BY ServerNext
<1> QED BY <1>1, ServerInit, Invariant, PTL DEF Spec, ServesOneShot, Server!Spec
=============================================================================
