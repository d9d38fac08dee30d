----------------------------- MODULE RvClient -----------------------------
(***************************************************************************)
(* The mailbox as the command-line flows use it: RvClient of crates/cli    *)
(* over either backend, the HTTP server or a public MQTT broker, under      *)
(* run_send and run_receive.                                               *)
(*                                                                         *)
(* Each operation has a connection of its own (HTTP: one exchange; MQTT: a *)
(* fresh client id and a clean session), so a sender's publish and its     *)
(* cleanup may reach the broker in either order.  A connection may break   *)
(* and lose what it carries.  A write is known to be flushed, never to     *)
(* have arrived: publish waits for Outgoing::Publish, not for the PubAck.  *)
(*                                                                         *)
(* The broker is external: it keeps one retained message per topic, sends  *)
(* it on each SUBSCRIBE and forwards a PUBLISH to the live subscribers.    *)
(* The HTTP server is the one-shot box of OneShot.tla, without its clock.  *)
(***************************************************************************)
EXTENDS WordCode, FiniteSets

CONSTANTS
  Senders,     \* send flows; the ticket of a flow is named by the flow
  Receivers,   \* receive flows
  Typed,       \* what a user may type at a receiver
  NoTicket,    \* nothing stored; the empty payload
  Claimed      \* at the HTTP server: an entry whose ticket was handed out

ASSUME RvClientAssumption ==
  /\ Typed \subseteq Text
  /\ Senders \cap {NoTicket, Claimed} = {}
  /\ NoTicket # Claimed
  /\ Senders \cap Receivers = {}

VARIABLES
  scheme,      \* the scheme of the rendezvous URL all the flows are given
  at,          \* where each flow waits, or how it ended
  code,        \* the code of each sender once it has one
  typed,       \* what was typed at each receiver
  ticket,      \* the ticket each receiver's claim read
  slot,        \* at the server or broker: the ticket under each address
  subscribed,  \* at the broker: the claims that are subscribed
  up,          \* requests of each connection on their way
  down,        \* answers of each connection on their way
  mate,        \* the sender that each receiver paired with
  landed,      \* history: senders whose ticket was stored
  spent,       \* history: tickets whose claim was carried out at the server or broker
  tooLate,     \* history: per claim, the tickets spent before it began
  why          \* history: per sender, what kept its ticket from being cleared

net == <<up, down>>
broker == <<slot, subscribed>>
history == <<landed, spent, tooLate, why>>
vars == <<scheme, at, code, typed, ticket, slot, subscribed, up, down, mate,
          landed, spent, tooLate, why>>

Schemes == {"http", "mqtt", "other"}
Http == scheme = "http"
Mqtt == scheme = "mqtt"

\* RvClient::new: an unusable base is an error of the first call.
Usable == Http \/ Mqtt

Nowhere == [nameplate |-> 0, words |-> <<>>]
NoCode == [nameplate |-> 0, words |-> <<>>]
Codes == UNION {Generate(n) : n \in 1 .. NameplateMax}

AddressNoWordsMutant(c) == [nameplate |-> c.nameplate, words |-> <<>>]

\* Where a ticket is kept: derive_topic folds the nameplate and the normalised
\* words into the topic; on HTTP the words never leave the client.
Address(c) ==
  IF Http THEN [nameplate |-> c.nameplate, words |-> <<>>]
  ELSE [nameplate |-> c.nameplate, words |-> Normalised(c.words)]

Addresses ==
  {[nameplate |-> n, words |-> <<>>] : n \in 1 .. NameplateMax}
    \cup {[nameplate |-> c.nameplate, words |-> Normalised(c.words)] :
            c \in Codes \cup {Split(t) : t \in {u \in Typed : Splits(u)}}}

\* A sender has a connection for allocate or publish and one for cleanup.
Conns == (Senders \X {"open", "cleanup"}) \cup (Receivers \X {"claim"})
Open(s) == <<s, "open">>
Closing(s) == <<s, "cleanup">>
Claiming(r) == <<r, "claim">>

Request == [kind : {"allocate", "publish", "subscribe", "claim"},
            address : Addresses \cup {Nowhere}, ticket : Senders \cup {NoTicket},
            retain : BOOLEAN]
Allocate(s) == [kind |-> "allocate", address |-> Nowhere, ticket |-> s, retain |-> TRUE]
StoreNotRetainedMutant(a, s) ==
  [kind |-> "publish", address |-> a, ticket |-> s, retain |-> FALSE]
Store(a, s) == [kind |-> "publish", address |-> a, ticket |-> s, retain |-> TRUE]
ClearNotRetainedMutant(a) ==
  [kind |-> "publish", address |-> a, ticket |-> NoTicket, retain |-> FALSE]
Clear(a) == [kind |-> "publish", address |-> a, ticket |-> NoTicket, retain |-> TRUE]
Subscribe(a) == [kind |-> "subscribe", address |-> a, ticket |-> NoTicket, retain |-> FALSE]
Claim(a) == [kind |-> "claim", address |-> a, ticket |-> NoTicket, retain |-> FALSE]

Answer == [kind : {"created", "payload", "refused"},
           nameplate : 0 .. NameplateMax, ticket : Senders \cup {NoTicket}]
Created(n) == [kind |-> "created", nameplate |-> n, ticket |-> NoTicket]
Payload(x) == [kind |-> "payload", nameplate |-> 0, ticket |-> x]
Refused == [kind |-> "refused", nameplate |-> 0, ticket |-> NoTicket]

Init ==
  /\ scheme \in Schemes
  /\ at = [f \in Senders \cup Receivers |-> "start"]
  /\ code = [s \in Senders |-> NoCode]
  /\ typed \in [Receivers -> Typed]
  /\ ticket = [r \in Receivers |-> NoTicket]
  /\ slot = [a \in Addresses |-> NoTicket]
  /\ subscribed = {}
  /\ up = [c \in Conns |-> <<>>]
  /\ down = [c \in Conns |-> <<>>]
  /\ mate = [r \in Receivers |-> NoTicket]
  /\ landed = {}
  /\ spent = {}
  /\ tooLate = [r \in Receivers |-> {}]
  /\ why = [s \in Senders |-> {}]

Goes(f, where) == at' = [at EXCEPT ![f] = where]
Drops(c) == down' = [down EXCEPT ![c] = <<>>]
Sends(c, p) == up' = [up EXCEPT ![c] = Append(@, p)]
Blames(s, cause) == why' = [why EXCEPT ![s] = @ \cup {cause}]

-----------------------------------------------------------------------------
(* The send flow.                                                          *)

\* HttpBackend::allocate posts the ticket; the server picks the nameplate.
AllocatesHttp(s) ==
  /\ at[s] = "start" /\ Http
  /\ Sends(Open(s), Allocate(s))
  /\ Goes(s, "allocating")
  /\ UNCHANGED <<scheme, code, typed, ticket, broker, down, mate, history>>

\* The 201 arrives; WordCode::generate draws the words; the HTTP publish does
\* nothing, and the pairing is recorded.
AllocatedHttp(s) ==
  /\ at[s] = "allocating"
  /\ down[Open(s)] # <<>>
  /\ \E c \in Generate(Head(down[Open(s)]).nameplate) : code' = [code EXCEPT ![s] = c]
  /\ Drops(Open(s))
  /\ Goes(s, "waiting")
  /\ UNCHANGED <<scheme, typed, ticket, broker, up, mate, history>>

\* MqttBackend::allocate: a random nameplate, reserved nowhere.
AllocatesMqtt(s) ==
  /\ at[s] = "start" /\ Mqtt
  /\ \E c \in Codes : code' = [code EXCEPT ![s] = c]
  /\ Goes(s, "publishing")
  /\ UNCHANGED <<scheme, typed, ticket, broker, net, mate, history>>

\* MqttBackend::publish is Ok once the packet is flushed.
Publishes(s) ==
  /\ at[s] = "publishing"
  /\ Sends(Open(s), Store(Address(code[s]), s))
  /\ Goes(s, "waiting")
  /\ UNCHANGED <<scheme, code, typed, ticket, broker, down, mate, history>>

\* An unusable URL, a refused or broken exchange, or no answer in 15 s: the
\* flow ends without a pairing to release, whatever got through.
PublishFails(s) ==
  /\ at[s] \in {"start", "allocating", "publishing"}
  /\ \/ UNCHANGED up
     \/ at[s] = "publishing" /\ Sends(Open(s), Store(Address(code[s]), s))
  /\ Goes(s, "done")
  /\ Blames(s, "publish failed")
  /\ Drops(Open(s))
  /\ UNCHANGED <<scheme, code, typed, ticket, broker, mate, landed, spent, tooLate>>

UnwindsEarlyReturnMutant(s) ==
  /\ at[s] \in {"waiting", "paired"}
  /\ Goes(s, IF at[s] = "waiting" THEN "done" ELSE "cleaning")
  /\ UNCHANGED <<scheme, code, typed, ticket, broker, net, mate, history>>

\* run_send_inner returns: Ctrl+C, PAIR_TIMEOUT, an error, or the transfer over.
Unwinds(s) ==
  /\ at[s] \in {"waiting", "paired"}
  /\ Goes(s, "cleaning")
  /\ UNCHANGED <<scheme, code, typed, ticket, broker, net, mate, history>>

\* rv.cleanup: nothing on HTTP; on MQTT the retained message is cleared, Ok
\* once the packet is flushed.
CleansUp(s) ==
  /\ at[s] = "cleaning"
  /\ IF Mqtt THEN Sends(Closing(s), Clear(Address(code[s]))) ELSE UNCHANGED up
  /\ Goes(s, "done")
  /\ UNCHANGED <<scheme, code, typed, ticket, broker, down, mate, history>>

\* The error of a failed cleanup is dropped.
CleanupFails(s) ==
  /\ at[s] = "cleaning" /\ Mqtt
  /\ Goes(s, "done")
  /\ Blames(s, "cleanup failed")
  /\ UNCHANGED <<scheme, code, typed, ticket, broker, net, mate, landed, spent, tooLate>>

\* FLOW_TIMEOUT in send_async drops run_send wherever it is.
FlowTimesOut(s) ==
  /\ at[s] \notin {"start", "done"}
  /\ Goes(s, "done")
  /\ Blames(s, "dropped")
  /\ Drops(Open(s))
  /\ UNCHANGED <<scheme, code, typed, ticket, broker, up, mate, landed, spent, tooLate>>

-----------------------------------------------------------------------------
(* The receive flow.                                                       *)

\* A code that does not split ends the flow, and so does an unusable URL.
RefusesCode(r) ==
  /\ at[r] = "start"
  /\ ~Splits(typed[r]) \/ ~Usable
  /\ Goes(r, "failed")
  /\ UNCHANGED <<scheme, code, typed, ticket, broker, net, mate, history>>

\* claim: HTTP posts the nameplate; MQTT subscribes, and subscribes again when
\* the CONNACK says there was no session.
StartsClaim(r) ==
  /\ at[r] = "start" /\ Splits(typed[r]) /\ Usable
  /\ LET a == Address(Split(typed[r])) IN
       up' = [up EXCEPT ![Claiming(r)] =
                IF Http THEN <<Claim(a)>> ELSE <<Subscribe(a), Subscribe(a)>>]
  /\ Goes(r, "claiming")
  /\ tooLate' = [tooLate EXCEPT ![r] = spent]
  /\ UNCHANGED <<scheme, code, typed, ticket, broker, down, mate, landed, spent, why>>

\* An empty payload says that there is no ticket yet: keep polling.
SkipsEmpty(r) ==
  /\ at[r] = "claiming" /\ Mqtt
  /\ down[Claiming(r)] # <<>> /\ Head(down[Claiming(r)]).ticket = NoTicket
  /\ down' = [down EXCEPT ![Claiming(r)] = Tail(@)]
  /\ UNCHANGED <<scheme, at, code, typed, ticket, broker, up, mate, history>>

\* A ticket: on HTTP the claim is over; on MQTT it has to be cleared first, and
\* whatever else comes on the connection is ignored.
ReadsTicket(r) ==
  /\ at[r] = "claiming"
  /\ down[Claiming(r)] # <<>> /\ Head(down[Claiming(r)]).ticket # NoTicket
  /\ ticket' = [ticket EXCEPT ![r] = Head(down[Claiming(r)]).ticket]
  /\ Drops(Claiming(r))
  /\ Goes(r, IF Http THEN "claimed" ELSE "clearing")
  /\ UNCHANGED <<scheme, code, typed, broker, up, mate, history>>

\* The clear is best-effort: the claim succeeds without it too.
ClearsTicket(r) ==
  /\ at[r] = "clearing"
  /\ \/ Sends(Claiming(r), Clear(Address(Split(typed[r]))))
     \/ UNCHANGED up
  /\ Goes(r, "claimed")
  /\ UNCHANGED <<scheme, code, typed, ticket, broker, down, mate, history>>

\* 404, 410 or 429 from the server; the 15 s are over, which includes the
\* clear of a ticket already read; or Ctrl+C drops the claim.
ClaimFails(r) ==
  /\ at[r] \in {"claiming", "clearing"}
  /\ \/ UNCHANGED up
     \/ at[r] = "clearing" /\ Sends(Claiming(r), Clear(Address(Split(typed[r]))))
  /\ Goes(r, "failed")
  /\ Drops(Claiming(r))
  /\ UNCHANGED <<scheme, code, typed, ticket, broker, mate, history>>

\* The receiver dials the sender of its ticket and runs SPAKE2 with the words
\* as they were typed.  A sender takes one connection: when the words differ
\* both flows fail.
Pairs(r) ==
  /\ at[r] = "claimed" /\ at[ticket[r]] = "waiting"
  /\ LET s == ticket[r] IN
       IF Agree(code[s].words, typed[r].words)
       THEN /\ at' = [at EXCEPT ![r] = "paired", ![s] = "paired"]
            /\ mate' = [mate EXCEPT ![r] = s]
       ELSE at' = [at EXCEPT ![r] = "failed", ![s] = "cleaning"] /\ UNCHANGED mate
  /\ UNCHANGED <<scheme, code, typed, ticket, broker, net, history>>

\* No engine, no relay, no sender to dial, or Ctrl+C.
PairingFails(r) ==
  /\ at[r] = "claimed"
  /\ Goes(r, "failed")
  /\ UNCHANGED <<scheme, code, typed, ticket, broker, net, mate, history>>

-----------------------------------------------------------------------------
(* The server, the broker and the network between.                         *)

Takes(c, kind) == up[c] # <<>> /\ Head(up[c]).kind = kind
Taken(c) == up' = [up EXCEPT ![c] = Tail(@)]

\* The HTTP server stores the ticket under a nameplate that is not in use.
ServerAllocates(s) ==
  /\ Takes(Open(s), "allocate") /\ Taken(Open(s))
  /\ \E n \in 1 .. NameplateMax :
       LET a == [nameplate |-> n, words |-> <<>>] IN
       /\ slot[a] = NoTicket
       /\ slot' = [slot EXCEPT ![a] = s]
       /\ down' = [down EXCEPT ![Open(s)] =
                     IF at[s] = "allocating" THEN <<Created(n)>> ELSE @]
  /\ landed' = landed \cup {s}
  /\ UNCHANGED <<scheme, at, code, typed, ticket, subscribed, mate, spent, tooLate, why>>

\* The HTTP server hands a ticket out once, whether or not the answer arrives.
ServerClaims(r) ==
  /\ Takes(Claiming(r), "claim") /\ Taken(Claiming(r))
  /\ LET a == Head(up[Claiming(r)]).address
         x == slot[a] IN
       /\ slot' = IF x \in Senders THEN [slot EXCEPT ![a] = Claimed] ELSE slot
       /\ spent' = spent \cup ({x} \cap Senders)
       /\ down' = [down EXCEPT ![Claiming(r)] =
                     IF at[r] # "claiming" THEN @
                     ELSE IF x \in Senders THEN <<Payload(x)>> ELSE <<Refused>>]
  /\ UNCHANGED <<scheme, at, code, typed, ticket, subscribed, mate, landed, tooLate, why>>

\* The claims that are subscribed to address a and still polling
Listeners(a) ==
  {r \in subscribed : at[r] = "claiming" /\ Address(Split(typed[r])) = a}

\* The broker takes a PUBLISH: a retained one replaces the retained message.
BrokerPublishes(c) ==
  /\ Takes(c, "publish") /\ Taken(c)
  /\ LET p == Head(up[c]) IN
       /\ slot' = IF p.retain THEN [slot EXCEPT ![p.address] = p.ticket] ELSE slot
       /\ down' = [d \in Conns |->
                     IF \E r \in Listeners(p.address) : d = Claiming(r)
                     THEN Append(down[d], Payload(p.ticket)) ELSE down[d]]
       /\ landed' = landed \cup ({p.ticket} \cap Senders)
       /\ spent' = IF c[1] \in Receivers THEN spent \cup {ticket[c[1]]} ELSE spent
  /\ IF c[1] \in Senders /\ c = Closing(c[1]) /\ up[Open(c[1])] # <<>>
     THEN Blames(c[1], "overtaken") ELSE UNCHANGED why
  /\ UNCHANGED <<scheme, at, code, typed, ticket, subscribed, mate, tooLate>>

\* The broker takes a SUBSCRIBE and sends what is retained, if anything is.
BrokerSubscribes(r) ==
  /\ Takes(Claiming(r), "subscribe") /\ Taken(Claiming(r))
  /\ LET x == slot[Head(up[Claiming(r)]).address] IN
       down' = IF at[r] = "claiming" /\ x # NoTicket
               THEN [down EXCEPT ![Claiming(r)] = Append(@, Payload(x))] ELSE down
  /\ subscribed' = subscribed \cup {r}
  /\ UNCHANGED <<scheme, at, code, typed, ticket, slot, mate, history>>

\* A connection breaks: what it carries is lost.  The flow that still waits on
\* it fails, except that a claim which holds its ticket succeeds.
Breaks(c) ==
  /\ up[c] # <<>> \/ down[c] # <<>>
  /\ up' = [up EXCEPT ![c] = <<>>]
  /\ Drops(c)
  /\ at' = [at EXCEPT ![c[1]] =
              CASE @ = "claiming" -> "failed"
                [] @ = "clearing" -> "claimed"
                [] @ = "allocating" -> "done"
                [] OTHER -> @]
  /\ IF c[1] \in Senders /\ c = Closing(c[1])
     THEN Blames(c[1], "cleanup failed") ELSE UNCHANGED why
  /\ UNCHANGED <<scheme, code, typed, ticket, broker, mate, landed, spent, tooLate>>

-----------------------------------------------------------------------------

SendFlow(s) ==
  \/ AllocatesHttp(s) \/ AllocatedHttp(s) \/ AllocatesMqtt(s)
  \/ Publishes(s) \/ PublishFails(s)
  \/ Unwinds(s) \/ CleansUp(s) \/ CleanupFails(s) \/ FlowTimesOut(s)

ReceiveFlow(r) ==
  \/ RefusesCode(r) \/ StartsClaim(r) \/ SkipsEmpty(r) \/ ReadsTicket(r)
  \/ ClearsTicket(r) \/ ClaimFails(r) \/ Pairs(r) \/ PairingFails(r)

Network ==
  \/ \E s \in Senders : ServerAllocates(s)
  \/ \E r \in Receivers : ServerClaims(r) \/ BrokerSubscribes(r)
  \/ \E c \in Conns : BrokerPublishes(c) \/ Breaks(c)

Next ==
  \/ \E s \in Senders : SendFlow(s)
  \/ \E r \in Receivers : ReceiveFlow(r)
  \/ Network

Spec == Init /\ [][Next]_vars

-----------------------------------------------------------------------------
(* Properties.                                                             *)

\* Types; a sender that published has a code it can display, one that the
\* receive flow splits into the same nameplate and words.
TypeOK ==
  /\ scheme \in Schemes
  /\ \A s \in Senders :
       at[s] \in {"start", "allocating", "publishing", "waiting", "paired", "cleaning", "done"}
  /\ \A r \in Receivers :
       at[r] \in {"start", "claiming", "clearing", "claimed", "paired", "failed"}
  /\ \A s \in Senders : code[s] \in Codes \cup {NoCode}
  /\ \A s \in Senders : at[s] \in {"waiting", "paired"} =>
       /\ code[s] \in Codes
       /\ Validates(Display(code[s]))
       /\ Split(Display(code[s])) = code[s]
  /\ typed \in [Receivers -> Typed]
  /\ ticket \in [Receivers -> Senders \cup {NoTicket}]
  /\ slot \in [Addresses -> Senders \cup {NoTicket, Claimed}]
  /\ subscribed \subseteq Receivers
  /\ \A c \in Conns : \A i \in DOMAIN up[c] : up[c][i] \in Request
  /\ \A c \in Conns : \A i \in DOMAIN down[c] : down[c][i] \in Answer
  /\ mate \in [Receivers -> Senders \cup {NoTicket}]
  /\ landed \subseteq Senders /\ spent \subseteq Senders
  /\ tooLate \in [Receivers -> SUBSET Senders]
  /\ why \in [Senders -> SUBSET {"publish failed", "cleanup failed", "dropped", "overtaken"}]

\* A claim reads a ticket only from the sender whose nameplate was typed, and
\* on MQTT only when the words are its words too, but for spelling
\* (derive_topic); however publishes, claims and cleanups of several flows mix.
TicketOfTheCode ==
  \A r \in Receivers : ticket[r] # NoTicket /\ code[ticket[r]] # NoCode =>
    LET mine == code[ticket[r]]
        asked == Split(typed[r])
    IN  /\ asked.nameplate = mine.nameplate
        /\ Mqtt => Normalised(asked.words) = mine.words

\* One-shot as far as it goes: once the clear of a claim was carried out at the
\* broker, or a claim at the HTTP server, no claim that begins later gets the
\* ticket (two that overlap may both get it from a broker).
NoLateClaim == \A r \in Receivers : ticket[r] \notin tooLate[r]

\* While its sender waits, a stored ticket stays where the code leads to, until
\* a claim took it: on MQTT one that has read it, on HTTP one that the server
\* carried out though its answer may be lost.  (A sender that drew the very
\* same code may replace it on a broker.)
KeptWhileWaiting ==
  \A s \in Senders :
    /\ at[s] = "waiting" /\ s \in landed
    /\ \A t \in Senders \ {s} : code[t] # code[s]
    /\ IF Http THEN s \notin spent ELSE \A r \in Receivers : ticket[r] # s
    => slot[Address(code[s])] = s

\* The only ways in which a sender that has ended leaves its ticket at a broker
\* (where nothing expires): publish failed after the packet got through, the
\* overall timeout dropped the flow before its cleanup, the cleanup failed, or
\* it overtook the publish.
LeftoversExplained ==
  \A s \in Senders :
    /\ Mqtt /\ at[s] = "done" /\ code[s] # NoCode
    /\ slot[Address(code[s])] = s
    /\ up[Closing(s)] = <<>>
    => why[s] # {}

\* Whoever pairs typed the words of the sender it pairs with, and no sender
\* pairs with two receivers, however many hold its ticket (wire.rs:195-240).
PairedWithTheWords ==
  \A r \in Receivers : mate[r] # NoTicket =>
    /\ typed[r].words = code[mate[r]].words
    /\ \A q \in Receivers \ {r} : mate[q] # mate[r]

\* Under an http base the slots are the one-shot box that Rendezvous.tla shows the
\* server to be: a ticket is stored once and handed out once.  No time passes
\* here, so none lapses.
BoxOf(s) ==
  IF ~Http \/ s \notin landed THEN "absent" ELSE IF s \in spent THEN "taken" ELSE "open"
Server == INSTANCE OneShot WITH
  Tickets <- Senders,
  clock <- 0,
  box <- [s \in Senders |-> BoxOf(s)],
  deadline <- [s \in Senders |-> 0]

ServesOneShot == Server!Spec

-----------------------------------------------------------------------------
(* The invariants behind them.                                             *)

SenderPlaces ==
  {"start", "allocating", "publishing", "waiting", "paired", "cleaning", "done"}
ReceiverPlaces == {"start", "claiming", "clearing", "claimed", "paired", "failed"}
Queues ==
  /\ at \in [Senders \cup Receivers -> SenderPlaces \cup ReceiverPlaces]
  /\ code \in [Senders -> Codes \cup {NoCode}]
  /\ up \in [Conns -> Seq(Request)]
  /\ down \in [Conns -> Seq(Answer)]

\* Where the claim of r looks for a ticket.
Asked(r) == Address(Split(typed[r]))

\* How far a sender is tells whether it has a code, and on which backend it is.
CodePlaces == \A s \in Senders :
  /\ at[s] \in {"publishing", "waiting", "paired", "cleaning"} => code[s] \in Codes
  /\ at[s] \in {"start", "allocating"} => code[s] = NoCode
  /\ s \in landed => at[s] \notin {"start", "publishing"}
  /\ at[s] = "publishing" => Mqtt

\* How far a receiver is tells whether it has a ticket.
TicketPlaces == \A r \in Receivers :
  /\ at[r] \in {"start", "claiming"} => ticket[r] = NoTicket
  /\ at[r] \in {"clearing", "claimed", "paired"} => ticket[r] # NoTicket
  /\ at[r] = "clearing" => Mqtt
  /\ at[r] = "claiming" => Splits(typed[r])

\* What is on its way to the server or broker: on the first connection of a
\* sender its ticket, before it is stored; on the second the clear of its
\* address; on a receiver's what it asks, and the clear of a ticket it has read.
OpensOnce == \A s \in Senders : up[Open(s)] # <<>> =>
  /\ s \notin landed
  /\ \/ Http /\ code[s] = NoCode /\ at[s] # "start" /\ up[Open(s)] = <<Allocate(s)>>
     \/ Mqtt /\ code[s] \in Codes /\ at[s] \notin {"start", "publishing"}
             /\ up[Open(s)] = <<Store(Address(code[s]), s)>>

ClosesItsOwn == \A s \in Senders : up[Closing(s)] # <<>> =>
  /\ Mqtt /\ at[s] = "done" /\ code[s] \in Codes
  /\ up[Closing(s)] = <<Clear(Address(code[s]))>>

ClaimsAsAsked == \A r \in Receivers : \A i \in DOMAIN up[Claiming(r)] :
  /\ Splits(typed[r])
  /\ \/ Http /\ up[Claiming(r)][i] = Claim(Asked(r))
     \/ Mqtt /\ up[Claiming(r)][i] = Subscribe(Asked(r))
     \/ Mqtt /\ up[Claiming(r)][i] = Clear(Asked(r)) /\ ticket[r] # NoTicket

\* The nameplates that s was told, or is being told, are its own.
Plates(s) ==
  {n \in 1 .. NameplateMax : down[Open(s)] = <<Created(n)>> \/ code[s].nameplate = n}
ServerSlot(n) == [nameplate |-> n, words |-> <<>>]

\* A ticket that r reads is one of those its code leads to, and was not spent
\* when the claim began.
ReadBy(r, s) ==
  /\ s \in landed /\ s \notin tooLate[r]
  /\ Splits(typed[r])
  /\ Http => \A n \in Plates(s) : n = typed[r].plate.value
  /\ ~Http => Mqtt /\ code[s] \in Codes /\ Asked(r) = Address(code[s])

\* What is on its way back, and what was read of it.
ToldOnce == \A s \in Senders :
  /\ down[Closing(s)] = <<>>
  /\ down[Open(s)] # <<>> =>
       /\ Http /\ at[s] = "allocating" /\ s \in landed
       /\ \E n \in 1 .. NameplateMax : down[Open(s)] = <<Created(n)>>

AnswersAsAsked == \A r \in Receivers :
  /\ down[Claiming(r)] # <<>> => at[r] = "claiming"
  /\ \A i \in DOMAIN down[Claiming(r)] :
       down[Claiming(r)][i].ticket # NoTicket => ReadBy(r, down[Claiming(r)][i].ticket)
  /\ ticket[r] # NoTicket => ReadBy(r, ticket[r])

\* A stored ticket is one that landed and is not spent, under the address its
\* code leads to and no other; the server keeps it there until it is spent.
StoredWhereLed == \A a \in Addresses : slot[a] \in Senders =>
  /\ slot[a] \in landed \ spent
  /\ Http => \A n \in Plates(slot[a]) : a = ServerSlot(n)
  /\ ~Http => Mqtt /\ code[slot[a]] \in Codes /\ a = Address(code[slot[a]])

StoredOnce == \A a, b \in Addresses : slot[a] \in Senders /\ slot[a] = slot[b] => a = b
OnlyServerMarks == ~Http => \A a \in Addresses : slot[a] # Claimed
SpentLanded == spent \subseteq landed /\ \A r \in Receivers : tooLate[r] \subseteq spent
ServerKeeps == Http => \A s \in landed \ spent : \A n \in Plates(s) : slot[ServerSlot(n)] = s

\* A sender that ended without a cause for leaving its ticket has sent the
\* clear after it, and once that was carried out the ticket is gone.
ClearedBehind == \A s \in Senders : Mqtt /\ at[s] = "done" /\ why[s] = {} =>
  /\ code[s] \in Codes
  /\ up[Closing(s)] = <<>> => up[Open(s)] = <<>> /\ slot[Address(code[s])] # s

\* Whoever is paired was waited for, once.
MatesPlaces == \A r \in Receivers : mate[r] # NoTicket =>
  at[r] = "paired" /\ at[mate[r]] \in {"paired", "cleaning", "done"}

WireInv == OpensOnce /\ ClosesItsOwn /\ ClaimsAsAsked /\ ToldOnce /\ AnswersAsAsked
StoreInv == StoredWhereLed /\ StoredOnce /\ OnlyServerMarks /\ SpentLanded /\ ServerKeeps
EndInv == KeptWhileWaiting /\ ClearedBehind /\ MatesPlaces /\ PairedWithTheWords

PlaceInv == Queues /\ CodePlaces /\ TicketPlaces
Inv == TypeOK /\ PlaceInv /\ WireInv /\ StoreInv /\ EndInv
=============================================================================
