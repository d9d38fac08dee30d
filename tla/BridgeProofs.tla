---------------------------- MODULE BridgeProofs ----------------------------
(***************************************************************************)
(* A session of the app's bridge, for every number of app threads: types,  *)
(* that a cancel that was granted holds, that one decision is taken, and    *)
(* that a session that is over stays over.                                 *)
(***************************************************************************)
EXTENDS Bridge, TLAPS

\* The transitions a flow makes from where it is are the legal ones, and until
\* it is over it can be cancelled or fail.
LEMMA Legal ==
  /\ Transition("Created", "StartPairing") = "PendingPair"
  /\ Transition("PendingPair", "PairConfirmed") = "Paired"
  /\ Transition("Paired", "TransferStarted") = "Transferring"
  /\ Transition("Transferring", "Completed") = "Done"
BY DEF Transition

LEMMA Cancelling ==
  ASSUME phase \in {"Created", "PendingPair", "Paired", "Transferring"}
  PROVE  After("Cancelled") = "Cancelled" /\ After("Failed") = "Failed"
BY DEF After, Transition

LEMMA AfterType ==
  ASSUME phase \in Phase, NEW event \in {"Cancelled", "Failed"}
  PROVE  After(event) \in Phase
BY DEF After, Transition, Phase

LEMMA EndsCancelledType ==
  ASSUME phase \in Phase, EndsCancelled
  PROVE  phase' \in Phase /\ stage' = "Terminal" /\ flow' = "stopping"
BY AfterType DEF EndsCancelled, Ends

LEMMA EndsFailedType ==
  ASSUME phase \in Phase, EndsFailed
  PROVE  phase' \in Phase /\ stage' = "Terminal" /\ flow' = "stopping"
BY AfterType DEF EndsFailed, Ends

LEMMA EndsCompletedType ==
  ASSUME phase = "Transferring", Ends(Transition(phase, "Completed"), "Terminal")
  PROVE  phase' \in Phase /\ stage' = "Terminal" /\ flow' = "stopping"
BY Legal DEF Ends, Phase

LEMMA ReturnsType ==
  ASSUME call \in [Callers -> Call], NEW cs, Returns(cs)
  PROVE  call' \in [Callers -> Call]
BY DEF Returns, Call

LEMMA TakesType ==
  ASSUME TypeOK, NEW op, Takes(op)
  PROVE  cmds' \in Seq(Command) /\ From \in Callers /\ flow \in Polls
<1>1. cmds \in Seq(Command) /\ cmds # <<>>
  BY DEF TypeOK, Takes
<1>2. Head(cmds) \in Command /\ Tail(cmds) \in Seq(Command)
  BY <1>1
<1> QED BY <1>2 DEF Takes, From, Command

TypeInv == TypeOK /\ PhaseOfFlow

LEMMA TypeInit == Init => TypeInv
<1> SUFFICES ASSUME Init PROVE TypeInv
  OBVIOUS
<1>1. <<>> \in Seq(Command)
  OBVIOUS
<1>2. TypeOK
  BY <1>1 DEF Init, TypeOK, Roles, Stages, Phase, FlowSteps, Call, Operations
<1> QED BY <1>2 DEF TypeInv, PhaseOfFlow, Init, Starting, Offering, Deciding, Moving

LEMMA TypeNext == TypeInv /\ [Next]_vars => TypeInv'
<1> SUFFICES ASSUME TypeOK, PhaseOfFlow, [Next]_vars PROVE TypeOK' /\ PhaseOfFlow'
  BY DEF TypeInv
<1> USE DEF Starting, Offering, Deciding, Moving
<1>1. CASE Api
  <2>1. CASE Builds \/ BuildFails \/ Registers
    BY <2>1 DEF Builds, BuildFails, Registers, StartsFlow, api, history, TypeOK, PhaseOfFlow,
                FlowSteps
  <2>3. CASE Disposes \/ CleanupStarts \/ CleanupEnds
    BY <2>3 DEF Disposes, Registered, CleanupStarts, CleanupEnds, api, history, TypeOK, PhaseOfFlow
  <2>2. ASSUME NEW c \in Callers, NEW op \in Operations, Calls(c, op)
        PROVE  TypeOK' /\ PhaseOfFlow'
    <3>1. stage' \in Stages
      BY <2>2 DEF Calls, StageAfter, TypeOK, Stages
    <3>2. call' \in [Callers -> Call]
      BY <2>2 DEF Calls, TypeOK, Call
    <3> QED BY <2>2, <3>1, <3>2 DEF Calls, history, TypeOK, PhaseOfFlow
  <2> QED BY <1>1, <2>1, <2>2, <2>3 DEF Api
<1>2. ASSUME NEW c \in Callers, Sends(c) PROVE TypeOK' /\ PhaseOfFlow'
  <2>1. call' \in [Callers -> Call]
    BY <1>2 DEF Sends, TypeOK, Call
  <2>2. [op |-> call[c].op, from |-> c] \in Command
    BY DEF TypeOK, Call, Command
  <2>3. cmds' \in Seq(Command)
    BY <1>2, <2>2 DEF Sends, TypeOK
  <2> QED BY <1>2, <2>1, <2>3 DEF Sends, history, TypeOK, PhaseOfFlow
<1>3. CASE PeerFinishes
  <2>1. phase = "Transferring"
    BY <1>3 DEF PeerFinishes, PhaseOfFlow
  <2>2. phase' \in Phase /\ stage' = "Terminal" /\ flow' = "stopping"
    BY <1>3, <2>1, EndsCompletedType, EndsCancelledType, EndsFailedType DEF PeerFinishes, TypeOK
  <2> QED BY <1>3, <2>2 DEF PeerFinishes, api, history, TypeOK, PhaseOfFlow, FlowSteps, Stages
<1>4. CASE TakesCancel
  <2>1. cmds' \in Seq(Command) /\ flow \notin {"none", "building"}
    BY <1>4, TakesType DEF TakesCancel, Polls
  <2>2. phase' \in Phase /\ stage' = "Terminal" /\ flow' = "stopping"
    BY <1>4, EndsCancelledType DEF TakesCancel, TypeOK
  <2>3. call' \in [Callers -> Call]
    BY <1>4, ReturnsType DEF TakesCancel, TypeOK
  <2> QED BY <1>4, <2>1, <2>2, <2>3
    DEF TakesCancel, CancelTold, TypeOK, PhaseOfFlow, FlowSteps, Stages, Operations
<1>5. CASE TakesFirst
  <2>1. cmds' \in Seq(Command) /\ From \in Callers
    BY <1>5, TakesType DEF TakesFirst
  <2>2. phase = "Created"
    BY <1>5 DEF TakesFirst, PhaseOfFlow
  <2>3. call' \in [Callers -> Call]
    BY <1>5, ReturnsType DEF TakesFirst, TypeOK
  <2>4. /\ flow' \in {"preparing", "claiming", "stopping"}
        /\ phase' = IF flow' = "stopping" THEN phase ELSE "PendingPair"
    BY <1>5, <2>2, Legal DEF TakesFirst
  <2>5. serving' \in Callers \cup {Nobody} /\ stage' = stage
    BY <1>5, <2>1 DEF TakesFirst, TypeOK
  <2> QED BY <1>5, <2>1, <2>2, <2>3, <2>4, <2>5
    DEF TakesFirst, history, TypeOK, PhaseOfFlow, FlowSteps, Phase
<1>6. CASE NoticesDispose
  <2>1. CASE flow' = "stopping" /\ UNCHANGED <<stage, phase, told>>
    BY <1>6, <2>1 DEF NoticesDispose, Disposed, api, TypeOK, PhaseOfFlow, FlowSteps
  <2>2. CASE EndsCancelled /\ told' = told \cup {"cancel"}
    BY <1>6, <2>2, EndsCancelledType
    DEF NoticesDispose, Disposed, api, TypeOK, PhaseOfFlow, FlowSteps, Stages
  <2> QED BY <1>6, <2>1, <2>2 DEF NoticesDispose
<1>7. CASE Stops
  <2>1. call' \in [Callers -> Call]
    BY <1>7, ReturnsType DEF Stops, TypeOK
  <2>2. cmds' \in Seq(Command)
    BY <1>7 DEF Stops
  <2> QED BY <1>7, <2>1, <2>2 DEF Stops, history, TypeOK, PhaseOfFlow, FlowSteps
<1>8. CASE Prepares
  <2>1. call' \in [Callers -> Call]
    BY <1>8, ReturnsType DEF Prepares, TypeOK
  <2> QED BY <1>8, <2>1
    DEF Prepares, Prepared, PrepareFailed, TypeOK, PhaseOfFlow, FlowSteps, Stages, Operations
<1>9. CASE ReceiverComes \/ Pairs \/ PeerResponds
  <2>1. CASE EndsFailed \/ EndsCancelled
    BY <1>9, <2>1, EndsCancelledType, EndsFailedType
    DEF ReceiverComes, Pairs, PeerResponds, api, history, TypeOK, PhaseOfFlow, FlowSteps, Stages
  <2>2. CASE Ends(phase, "Terminal")
    BY <1>9, <2>2 DEF ReceiverComes, Pairs, PeerResponds, Ends, api, history, TypeOK,
                       PhaseOfFlow, FlowSteps, Stages
  <2>3. CASE ReceiverComes /\ flow' = "pairing" /\ UNCHANGED <<stage, phase>>
    BY <2>3 DEF ReceiverComes, api, history, TypeOK, PhaseOfFlow, FlowSteps
  <2>4. CASE Pairs /\ flow' = "response" /\ phase' = Transition(phase, "PairConfirmed") /\ UNCHANGED stage
    BY <2>4, Legal DEF Pairs, api, history, TypeOK, PhaseOfFlow, FlowSteps, Phase
  <2>5. CASE PeerResponds /\ flow' = "transfer" /\ phase' = Transition(phase, "TransferStarted")
             /\ stage' = "Transferring"
    BY <2>5, Legal DEF PeerResponds, api, history, TypeOK, PhaseOfFlow, FlowSteps, Phase, Stages
  <2> QED BY <1>9, <2>1, <2>2, <2>3, <2>4, <2>5 DEF ReceiverComes, Pairs, PeerResponds
<1>10. CASE ClaimEnds
  <2>1. call' \in [Callers -> Call]
    BY <1>10, ReturnsType DEF ClaimEnds, TypeOK
  <2>2. CASE OfferRead
    BY <1>10, <2>1, <2>2, Legal
    DEF ClaimEnds, OfferRead, TypeOK, PhaseOfFlow, FlowSteps, Stages, Phase, Operations
  <2>3. CASE EndsFailed /\ UNCHANGED granted
    BY <1>10, <2>1, <2>3, EndsFailedType
    DEF ClaimEnds, TypeOK, PhaseOfFlow, FlowSteps, Stages
  <2> QED BY <1>10, <2>2, <2>3 DEF ClaimEnds
<1>11. CASE TakesAccept \/ TakesDecline
  <2>1. cmds' \in Seq(Command) /\ From \in Callers
    BY <1>11, TakesType DEF TakesAccept, TakesDecline
  <2>2. call' \in [Callers -> Call]
    BY <1>11, ReturnsType DEF TakesAccept, TakesDecline, TypeOK
  <2> QED BY <1>11, <2>1, <2>2
    DEF TakesAccept, TakesDecline, Decides, TypeOK, PhaseOfFlow, FlowSteps, Operations
<1>12. CASE StartsDownload
  <2>1. CASE flow' = "download"
    BY <1>12, <2>1, Legal, EndsFailedType
    DEF StartsDownload, api, TypeOK, PhaseOfFlow, FlowSteps, Stages, Phase
  <2>2. CASE EndsFailed /\ UNCHANGED told
    BY <1>12, <2>2, EndsFailedType
    DEF StartsDownload, api, TypeOK, PhaseOfFlow, FlowSteps, Stages
  <2> QED BY <1>12, <2>1, <2>2 DEF StartsDownload
<1>13. CASE DeclineEnds
  <2>1. call' \in [Callers -> Call]
    BY <1>13, ReturnsType DEF DeclineEnds, TypeOK
  <2>2. granted' \subseteq Operations
    BY <1>13 DEF DeclineEnds, TypeOK, Operations
  <2> QED BY <1>13, <2>1, <2>2
    DEF DeclineEnds, Ends, TypeOK, PhaseOfFlow, FlowSteps, Stages
<1>14. CASE RejectsInDownload
  <2>1. cmds' \in Seq(Command) /\ From \in Callers
    BY <1>14, TakesType DEF RejectsInDownload
  <2>2. call' \in [Callers -> Call]
    BY <1>14, ReturnsType DEF RejectsInDownload, TypeOK
  <2> QED BY <1>14, <2>1, <2>2
    DEF RejectsInDownload, history, TypeOK, PhaseOfFlow, FlowSteps
<1>15. CASE DownloadEnds
  <2>1. CASE flow' = "closing" /\ told' = told \cup {"result"} /\ UNCHANGED <<stage, phase>>
    BY <1>15, <2>1 DEF DownloadEnds, api, TypeOK, PhaseOfFlow, FlowSteps
  <2>2. CASE EndsCancelled /\ told' = told \cup {"cancel"}
    BY <1>15, <2>2, EndsCancelledType
    DEF DownloadEnds, api, TypeOK, PhaseOfFlow, FlowSteps, Stages
  <2>3. CASE EndsFailed /\ UNCHANGED told
    BY <1>15, <2>3, EndsFailedType
    DEF DownloadEnds, api, TypeOK, PhaseOfFlow, FlowSteps, Stages
  <2> QED BY <1>15, <2>1, <2>2, <2>3 DEF DownloadEnds
<1>16. CASE PeerCloses
  <2>1. phase' \in Phase /\ stage' = "Terminal" /\ flow' = "stopping"
    BY <1>16, EndsCompletedType, EndsFailedType DEF PeerCloses, TypeOK, PhaseOfFlow
  <2> QED BY <1>16, <2>1 DEF PeerCloses, api, history, TypeOK, PhaseOfFlow, FlowSteps, Stages
<1>17. CASE UNCHANGED vars
  BY <1>17 DEF vars, api, history, TypeOK, PhaseOfFlow
<1> QED
  BY <1>1, <1>2, <1>3, <1>4, <1>5, <1>6, <1>7, <1>8, <1>9, <1>10, <1>11, <1>12, <1>13,
     <1>14, <1>15, <1>16, <1>17 DEF Next, Flow

\* However many threads call into a session, its state, its queue and what they
\* wait for are what the bridge has them for (TypeOK), and the phase is the one
\* of the flow's place.
LEMMA Typed == Spec => []TypeInv
BY TypeInit, TypeNext, PTL DEF Spec

\* Type correctness of a session and of the calls into it, of however many app
\* threads (session.rs, flows.rs).
THEOREM TypeCorrect == Spec => []TypeOK
<1>1. TypeInv => TypeOK
  BY DEF TypeInv
<1> QED BY <1>1, Typed, PTL

-----------------------------------------------------------------------------
(* Cancels and decisions.                                                  *)

LEMMA DecisionInit == Init => DecisionInv
BY DEF Init, DecisionInv, CancelHonoured, CancelLast, OneDecision, DecisionFollowed, Moving

LEMMA DecisionNext == TypeInv /\ DecisionInv /\ [Next]_vars => DecisionInv'
<1> SUFFICES ASSUME TypeOK, PhaseOfFlow, DecisionInv, [Next]_vars PROVE DecisionInv'
  BY DEF TypeInv
<1> USE DEF Moving, DecisionInv, CancelHonoured, CancelLast, OneDecision, DecisionFollowed
<1>1. CASE Api
  <2>1. CASE Builds \/ BuildFails \/ Registers
    BY <2>1 DEF Builds, BuildFails, Registers, StartsFlow, history, PhaseOfFlow
  <2>2. CASE Disposes \/ CleanupStarts \/ CleanupEnds
    BY <2>2 DEF Disposes, CleanupStarts, CleanupEnds, history
  <2>3. ASSUME NEW c \in Callers, NEW op \in Operations, Calls(c, op) PROVE DecisionInv'
    <3>1. stage = "Terminal" => stage' = "Terminal"
      BY <2>3 DEF Calls, Allows, StageAfter
    <3> QED BY <2>3, <3>1 DEF Calls, history
  <2> QED BY <1>1, <2>1, <2>2, <2>3 DEF Api
<1>2. ASSUME NEW c \in Callers, Sends(c) PROVE DecisionInv'
  BY <1>2 DEF Sends, history
<1>3. CASE PeerFinishes
  <2>1. flow' = "stopping"
    BY <1>3 DEF PeerFinishes, Ends, EndsCancelled, EndsFailed
  <2> QED BY <1>3, <2>1 DEF PeerFinishes, history
<1>4. CASE TakesCancel
  <2>1. phase \in {"Created", "PendingPair", "Paired", "Transferring"} /\ "result" \notin told
    BY <1>4, TakesType DEF TakesCancel, Takes, Polls, PhaseOfFlow, Starting, Offering, Deciding
  <2>2. phase' = "Cancelled" /\ stage' = "Terminal" /\ flow' = "stopping"
    BY <1>4, <2>1, Cancelling DEF TakesCancel, EndsCancelled, Ends
  <2> QED BY <1>4, <2>1, <2>2 DEF TakesCancel, CancelTold
<1>5. CASE TakesFirst
  BY <1>5 DEF TakesFirst, history
<1>6. CASE NoticesDispose
  <2>1. CASE flow' = "stopping" /\ UNCHANGED <<stage, phase, told>>
    BY <1>6, <2>1 DEF NoticesDispose, Disposed, Polls
  <2>2. CASE EndsCancelled /\ told' = told \cup {"cancel"}
    BY <1>6, <2>2 DEF NoticesDispose, Disposed, Polls, EndsCancelled, Ends
  <2> QED BY <1>6, <2>1, <2>2 DEF NoticesDispose
<1>7. CASE Stops
  BY <1>7 DEF Stops, history
<1>8. CASE Prepares
  BY <1>8 DEF Prepares, Prepared, PrepareFailed
<1>9. CASE ReceiverComes \/ Pairs \/ PeerResponds
  <2>1. flow \in {"waiting", "pairing", "response"}
    BY <1>9 DEF ReceiverComes, Pairs, PeerResponds
  <2>2. flow' \in {"pairing", "response", "transfer", "stopping"}
    BY <1>9 DEF ReceiverComes, Pairs, PeerResponds, Ends, EndsCancelled, EndsFailed
  <2>3. UNCHANGED history
    BY <1>9 DEF ReceiverComes, Pairs, PeerResponds
  <2> QED BY <2>1, <2>2, <2>3 DEF history
<1>10. CASE ClaimEnds
  <2>1. flow' \in {"decision", "stopping"}
    BY <1>10 DEF ClaimEnds, OfferRead, EndsFailed, Ends
  <2>2. granted' \in {granted, granted \cup {"claim"}}
    BY <1>10 DEF ClaimEnds, OfferRead
  <2> QED BY <1>10, <2>1, <2>2 DEF ClaimEnds
<1>11. CASE TakesAccept \/ TakesDecline
  BY <1>11 DEF TakesAccept, TakesDecline, Decides
<1>12. CASE StartsDownload
  <2>1. flow = "accepting" /\ flow' \in {"download", "stopping"}
    BY <1>12 DEF StartsDownload, EndsFailed, Ends
  <2>2. told' \in {told, told \cup {"accept"}}
    BY <1>12 DEF StartsDownload
  <2> QED BY <1>12, <2>1, <2>2 DEF StartsDownload
<1>13. CASE DeclineEnds
  <2>1. flow' = "stopping" /\ told' = told
    BY <1>13 DEF DeclineEnds, Ends
  <2>2. granted' \in {granted, granted \cup {"decline"}}
        /\ ("decline" \in granted' => "decline" \in told)
    BY <1>13 DEF DeclineEnds
  <2>3. "accept" \notin granted /\ "accept" \notin told /\ "cancel" \notin granted
    BY <1>13 DEF DeclineEnds
  <2> QED BY <1>13, <2>1, <2>2, <2>3 DEF DeclineEnds
<1>14. CASE RejectsInDownload
  BY <1>14 DEF RejectsInDownload, history
<1>15. CASE DownloadEnds
  <2>1. flow \in {"download", "deaf"} /\ flow' \in {"closing", "stopping"}
    BY <1>15 DEF DownloadEnds, EndsCancelled, EndsFailed, Ends
  <2>2. \/ told' \in {told, told \cup {"cancel"}}
        \/ told' = told \cup {"result"} /\ flow' = "closing"
    BY <1>15 DEF DownloadEnds
  <2> QED BY <1>15, <2>1, <2>2 DEF DownloadEnds
<1>16. CASE PeerCloses
  <2>1. flow' = "stopping"
    BY <1>16 DEF PeerCloses, Ends, EndsFailed
  <2> QED BY <1>16, <2>1 DEF PeerCloses, history
<1>17. CASE UNCHANGED vars
  BY <1>17 DEF vars, history
<1> QED
  BY <1>1, <1>2, <1>3, <1>4, <1>5, <1>6, <1>7, <1>8, <1>9, <1>10, <1>11, <1>12, <1>13,
     <1>14, <1>15, <1>16, <1>17 DEF Next, Flow

LEMMA Decided == Spec => []DecisionInv
BY Typed, DecisionInit, DecisionNext, PTL DEF Spec

\* A cancel that the flow granted, to whichever thread, did cancel: the session
\* is Cancelled for good and no result was told before (session.rs:197-199).
THEOREM CancelHolds == Spec => []CancelHonoured
<1>1. DecisionInv => CancelHonoured
  BY DEF DecisionInv
<1> QED BY <1>1, Decided, PTL

\* Of all the accepts and declines of all threads one decision is taken, and
\* the peer is told that one (flows.rs:451-515).
THEOREM DecidedOnce == Spec => []OneDecision
<1>1. DecisionInv => OneDecision
  BY DEF DecisionInv
<1> QED BY <1>1, Decided, PTL

-----------------------------------------------------------------------------
(* The end of a session.                                                   *)

LEMMA OverNext == PhaseOfFlow /\ OverTogether /\ [Next]_vars => OverTogether'
<1> SUFFICES ASSUME PhaseOfFlow, OverTogether, [Next]_vars PROVE OverTogether'
  OBVIOUS
<1> USE DEF OverTogether
<1>1. CASE Api
  <2>1. CASE Disposes \/ CleanupStarts \/ CleanupEnds
    BY <2>1 DEF Disposes, CleanupStarts, CleanupEnds
  <2>3. CASE Builds \/ BuildFails \/ Registers
    <3>1. flow \in {"none", "building"} /\ stage' = stage
      BY <2>3 DEF Builds, BuildFails, Registers, PhaseOfFlow
    <3> QED BY <3>1
  <2>2. ASSUME NEW c \in Callers, NEW op \in Operations, Calls(c, op) PROVE OverTogether'
    BY <2>2 DEF Calls, StageAfter
  <2> QED BY <1>1, <2>1, <2>2, <2>3 DEF Api
<1>2. CASE \E c \in Callers : Sends(c)
  BY <1>2 DEF Sends
<1>3. CASE PeerFinishes \/ Flow
  BY <1>3 DEF PeerFinishes, Flow, TakesCancel, TakesFirst, NoticesDispose, Stops, Prepares,
              Prepared, PrepareFailed, ReceiverComes, Pairs, PeerResponds, ClaimEnds, OfferRead,
              TakesAccept, StartsDownload, TakesDecline, DeclineEnds, RejectsInDownload,
              DownloadEnds, PeerCloses, Ends, EndsFailed, EndsCancelled, Disposed, Takes,
              Decides, Polls
<1>4. CASE UNCHANGED vars
  BY <1>4 DEF vars
<1> QED BY <1>1, <1>2, <1>3, <1>4 DEF Next

\* A session that was reported over is never revived, by any call of any thread
\* (session.rs:123-139, flows.rs:72-91).
THEOREM OverForGood == Spec => TerminalFinal
<1>1. Init => OverTogether
  BY DEF Init, OverTogether
<1>2. OverTogether /\ [Next]_vars => [stage = "Terminal" => stage' = "Terminal"]_vars
  <2> SUFFICES ASSUME OverTogether, Next, stage = "Terminal" PROVE stage' = "Terminal"
    OBVIOUS
  <2>1. flow \in {"stopping", "ended"}
    BY DEF OverTogether
  <2>2. CASE Api
    BY <2>2 DEF Api, Builds, BuildFails, Registers, Disposes, CleanupStarts, CleanupEnds,
                Calls, Allows, StageAfter
  <2>3. CASE \E c \in Callers : Sends(c)
    BY <2>3 DEF Sends
  <2>4. CASE PeerFinishes \/ Flow
    BY <2>1, <2>4 DEF PeerFinishes, Flow, TakesCancel, TakesFirst, NoticesDispose, Stops,
              Prepares, ReceiverComes, Pairs, PeerResponds, ClaimEnds, TakesAccept,
              StartsDownload, TakesDecline, DeclineEnds, RejectsInDownload, DownloadEnds,
              PeerCloses, Disposed, Takes, Decides, Polls
  <2> QED BY <2>2, <2>3, <2>4 DEF Next
<1>3. TypeInv => PhaseOfFlow
  BY DEF TypeInv
<1> QED BY <1>1, <1>2, <1>3, OverNext, Typed, PTL DEF Spec, TerminalFinal
=============================================================================
