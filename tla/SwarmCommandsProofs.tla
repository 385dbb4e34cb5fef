------------------------ MODULE SwarmCommandsProofs ------------------------
(***************************************************************************)
(* What SwarmCommands guarantees for any messages, conversations, lanes,   *)
(* number of workers and scenario: a command takes effect once, an         *)
(* accepted message has its command on record, a conversation is routed in *)
(* order, and a status card never goes back to a revision it has passed.   *)
(* The status cards play no part in the first three.                       *)
(***************************************************************************)
EXTENDS SwarmCommands, FiniteSetTheorems, TLAPS

IntentStates == {"none", "accepted", "executing"} \cup Terminal

\* The shape of what the proofs are about: all but the status cards and the scenario.
Shape ==
    /\ mode \in Modes
    /\ inbox \in [Messages -> {"absent", "received", "processing", "accepted"}]
    /\ arrived \in [Messages -> Nat] /\ clock \in Nat /\ gen \in Nat
    /\ step \in [Messages -> {"idle", "routing", "routed"}]
    /\ pass \in [live : Nat, blocked : SUBSET Scopes, requested : BOOLEAN, retry : BOOLEAN]
    /\ intent \in [Messages -> [state : IntentStates, gen : Nat]]
    /\ phase \in [Messages -> {"none", "claimed", "acting"}]
    /\ drain \subseteq Lanes
    /\ effects \in [Messages -> Seq(Nat)]

\* A row of inbound_messages has a time, and no time lies ahead of the clock.
RowsHaveTimes ==
    \A m \in Messages : (arrived[m] = 0 <=> inbox[m] = "absent") /\ arrived[m] <= clock

\* A message is being processed while the router has it; a crash breaks the other direction
\* until recovery.
RoutingIsProcessing ==
    \A m \in Messages : /\ step[m] # "idle" => inbox[m] = "processing"
                        /\ mode # "down" /\ inbox[m] = "processing" => step[m] # "idle"

\* Every message the router has keeps a worker of the pass, and there is none outside a pass.
WorkersHoldMessages ==
    /\ IsFiniteSet(Active) /\ Cardinality(Active) <= pass.live
    /\ mode \in {"down", "recovering", "listening", "closing"} => Active = {}

\* A message the router is done with has its command on record.
RoutedIsOnRecord == \A m \in Commands : step[m] = "routed" => intent[m].state # "none"

\* The dispatcher works on executing intents of lanes it drains, and drains none when down.
DrainHasIntent ==
    /\ \A m \in Messages :
          phase[m] # "none" => intent[m].state = "executing" /\ LaneOf[m] \in drain
    /\ mode = "down" => drain = {}

\* An effect belongs to the dispatcher's one attempt and to the frozen generation.
EffectOfAttempt ==
    \A m \in Messages :
        /\ Len(effects[m]) <= 1
        /\ intent[m].state \in {"none", "accepted"} \/ phase[m] = "claimed" => effects[m] = <<>>
        /\ Kind[m] = "primary" => \A i \in 1..Len(effects[m]) : effects[m][i] = intent[m].gen

IInv == /\ Shape /\ RowsHaveTimes /\ RoutingIsProcessing /\ WorkersHoldMessages
        /\ RoutedIsOnRecord /\ DrainHasIntent /\ EffectOfAttempt
        /\ AcceptedIsOnRecord /\ ConversationOrder
-----------------------------------------------------------------------------
\* The messages the router has can be counted.
LEMMA ActiveIsCounted ==
    ASSUME IInv
    PROVE  /\ IsFiniteSet(Active) /\ Cardinality(Active) \in Nat /\ pass.live \in Nat
           /\ Cardinality(Active) <= pass.live
           /\ Cardinality(Active) = 0 <=> Active = {}
  BY FS_CardinalityType, FS_EmptySet DEF IInv, Shape, WorkersHoldMessages

\* A message the router lets go frees its worker.
LEMMA LettingGo ==
    ASSUME IInv, NEW m \in Messages, step[m] # "idle", step' = [step EXCEPT ![m] = "idle"]
    PROVE  /\ IsFiniteSet(Active') /\ Cardinality(Active') <= pass.live
           /\ Active = {} => Active' = {}
  <1>1. Active' = Active \ {m}
    BY DEF Active, IInv, Shape
  <1>2. m \in Active
    BY DEF Active
  <1>3. IsFiniteSet(Active \ {m}) /\ Cardinality(Active \ {m}) = Cardinality(Active) - 1
    BY <1>2, ActiveIsCounted, FS_RemoveElement
  <1> QED BY <1>1, <1>2, <1>3, ActiveIsCounted

\* An intent that moves on keeps its frozen generation.
LEMMA IntentUpdate ==
    ASSUME Shape, NEW m \in Messages, NEW s \in IntentStates
    PROVE  [intent EXCEPT ![m].state = s] \in [Messages -> [state : IntentStates, gen : Nat]]
  <1>1. intent[m] \in [state : IntentStates, gen : Nat]
    BY DEF Shape
  <1>2. [intent[m] EXCEPT !.state = s] \in [state : IntentStates, gen : Nat]
    BY <1>1
  <1> QED BY <1>2 DEF Shape
-----------------------------------------------------------------------------
\* Every step of the pipeline, the router, the dispatcher, the delivery and the process keeps
\* the invariant.
LEMMA StepKeepsInvariant == IInv /\ [Next]_vars => IInv'
  <1> SUFFICES ASSUME IInv, [Next]_vars PROVE IInv'
    OBVIOUS
  <1> USE ConstantsAssumption DEF inVars, cmdVars, cardVars
  <1>1. ASSUME StartPass PROVE IInv'
    <2>1. pass' \in [live : Nat, blocked : SUBSET Scopes, requested : BOOLEAN, retry : BOOLEAN]
      BY <1>1 DEF StartPass, IInv, Shape, Scopes, NoPass
    <2>2. Shape'
      BY <1>1, <2>1 DEF StartPass, IInv, Shape
    <2>3. (RowsHaveTimes /\ RoutingIsProcessing /\ RoutedIsOnRecord /\ DrainHasIntent
           /\ EffectOfAttempt /\ AcceptedIsOnRecord /\ ConversationOrder)'
      BY <1>1
         DEF StartPass, IInv, RowsHaveTimes, RoutingIsProcessing, RoutedIsOnRecord,
             DrainHasIntent, EffectOfAttempt, AcceptedIsOnRecord, ConversationOrder, Before
    <2>4. WorkersHoldMessages'
      <3>1. Active' = Active /\ mode' = mode /\ pass'.live = Concurrency /\ pass.live = 0
        BY <1>1 DEF StartPass, Active, IInv, Shape
      <3>2. Cardinality(Active) <= Concurrency
        BY <3>1, ActiveIsCounted
      <3> QED BY <3>1, <3>2 DEF IInv, WorkersHoldMessages
    <2> QED BY <2>2, <2>3, <2>4 DEF IInv
  <1>2. ASSUME ClaimMessage PROVE IInv'
    <2>1. inbox' \in [Messages -> {"absent", "received", "processing", "accepted"}]
      BY <1>2 DEF ClaimMessage, Claimable, ExcludedScopes, IInv, Shape
    <2>2. step' \in [Messages -> {"idle", "routing", "routed"}]
      BY <1>2 DEF ClaimMessage, Claimable, ExcludedScopes, IInv, Shape
    <2>3. Shape'
      BY <1>2, <2>1, <2>2 DEF ClaimMessage, IInv, Shape
    <2>4. (DrainHasIntent /\ EffectOfAttempt)'
      BY <1>2 DEF ClaimMessage, IInv, DrainHasIntent, EffectOfAttempt
    <2>5. RowsHaveTimes'
      BY <1>2 DEF ClaimMessage, Claimable, ExcludedScopes, IInv, Shape, RowsHaveTimes
    <2>6. RoutingIsProcessing'
      BY <1>2
         DEF ClaimMessage, Claimable, ExcludedScopes, IInv, Shape, RoutingIsProcessing,
             WorkersHoldMessages, Active
    <2>7. WorkersHoldMessages'
      <3>1. PICK m \in Messages : step' = [step EXCEPT ![m] = "routing"] /\ inbox[m] = "received"
        BY <1>2 DEF ClaimMessage, Claimable
      <3>2. m \notin Active
        BY <3>1 DEF Active, IInv, RoutingIsProcessing
      <3>3. Active' = Active \cup {m}
        BY <3>1 DEF Active, IInv, Shape
      <3>4. IsFiniteSet(Active') /\ Cardinality(Active') = Cardinality(Active) + 1
        BY <3>2, <3>3, ActiveIsCounted, FS_AddElement
      <3>5. pass' = pass /\ mode' = "up" /\ pass.live > Cardinality(Active)
        BY <1>2 DEF ClaimMessage, IdleWorker
      <3> QED BY <3>4, <3>5, ActiveIsCounted DEF WorkersHoldMessages
    <2>8. RoutedIsOnRecord'
      BY <1>2
         DEF ClaimMessage, Claimable, ExcludedScopes, IInv, Shape, RoutedIsOnRecord, Commands,
             IntentStates, Terminal
    <2>9. AcceptedIsOnRecord'
      BY <1>2
         DEF ClaimMessage, Claimable, ExcludedScopes, IInv, Shape, AcceptedIsOnRecord,
             RoutedIsOnRecord, Commands, IntentStates, Terminal
    <2>10. ConversationOrder'
      <3>1. PICK m \in Claimable : /\ \A x \in Claimable : arrived[m] <= arrived[x]
                                   /\ inbox' = [inbox EXCEPT ![m] = "processing"]
        BY <1>2 DEF ClaimMessage
      <3>2. m \in Messages /\ inbox[m] = "received" /\ ScopeOf[m] \notin ExcludedScopes
        BY <3>1 DEF Claimable
      <3>3. arrived' = arrived /\ mode = "up"
        BY <1>2 DEF ClaimMessage
      <3>4. ASSUME NEW a \in Messages, ScopeOf[a] = ScopeOf[m], Before(a, m)
            PROVE  inbox[a] = "accepted"
        <4>1. arrived[a] < arrived[m] /\ arrived[a] \in Nat /\ arrived[m] \in Nat
          BY <3>2, <3>4 DEF Before, IInv, Shape
        <4>2. a \notin Claimable
          BY <3>1, <4>1
        <4>3. inbox[a] # "received"
          BY <3>2, <3>4, <4>2 DEF Claimable
        <4>4. inbox[a] # "processing"
          <5>1. a \notin Active
            BY <3>2, <3>4 DEF ExcludedScopes
          <5> QED BY <3>3, <5>1 DEF Active, IInv, RoutingIsProcessing
        <4>5. inbox[a] # "absent"
          BY <3>4 DEF Before, IInv, RowsHaveTimes
        <4> QED BY <4>3, <4>4, <4>5 DEF IInv, Shape
      <3>5. ASSUME NEW a \in Messages, NEW b \in Messages, ScopeOf[a] = ScopeOf[b],
                   Before(a, b), inbox'[b] \in {"processing", "accepted"}
            PROVE  inbox'[a] = "accepted"
        <4>1. inbox[a] = "accepted"
          <5>1. CASE b = m
            BY <3>4, <3>5, <5>1
          <5>2. CASE b # m
            BY <3>1, <3>5, <5>2 DEF IInv, Shape, ConversationOrder
          <5> QED BY <5>1, <5>2
        <4> QED BY <3>1, <3>2, <4>1 DEF IInv, Shape
      <3> QED BY <3>3, <3>5 DEF ConversationOrder, Before
    <2> QED BY <2>3, <2>4, <2>5, <2>6, <2>7, <2>8, <2>9, <2>10 DEF IInv
  <1>3. ASSUME EndWorker PROVE IInv'
    <2>1. pass' \in [live : Nat, blocked : SUBSET Scopes, requested : BOOLEAN, retry : BOOLEAN]
      <3>1. pass.live - 1 \in Nat
        BY <1>3, ActiveIsCounted DEF EndWorker, IdleWorker
      <3>2. \E b \in BOOLEAN : pass' = [pass EXCEPT !.live = @ - 1, !.retry = b]
        <4>1. (IF pass.live > 1 THEN pass.retry ELSE pass.blocked # {} /\ mode = "up") \in BOOLEAN
          BY DEF IInv, Shape
        <4> QED BY <1>3, <4>1 DEF EndWorker
      <3> QED BY ZenonT(40), <3>1, <3>2 DEF IInv, Shape
    <2>2. Shape'
      BY <1>3, <2>1 DEF EndWorker, IInv, Shape
    <2>3. (RowsHaveTimes /\ RoutingIsProcessing /\ RoutedIsOnRecord /\ DrainHasIntent
           /\ EffectOfAttempt /\ AcceptedIsOnRecord /\ ConversationOrder)'
      BY <1>3
         DEF EndWorker, IInv, RowsHaveTimes, RoutingIsProcessing, RoutedIsOnRecord,
             DrainHasIntent, EffectOfAttempt, AcceptedIsOnRecord, ConversationOrder, Before
    <2>4. WorkersHoldMessages'
      <3>1. /\ Active' = Active /\ mode' = mode
            /\ pass'.live = pass.live - 1 /\ pass.live > Cardinality(Active)
        BY <1>3 DEF EndWorker, IdleWorker, Active, IInv, Shape
      <3>2. Cardinality(Active) <= pass.live - 1
        BY <3>1, ActiveIsCounted
      <3> QED BY <3>1, <3>2 DEF IInv, WorkersHoldMessages
    <2> QED BY <2>2, <2>3, <2>4 DEF IInv
  <1>4. ASSUME RetryTimer PROVE IInv'
    <2>1. pass' \in [live : Nat, blocked : SUBSET Scopes, requested : BOOLEAN, retry : BOOLEAN]
      BY <1>4 DEF RetryTimer, wake, IInv, Shape, Scopes, NoPass
    <2>2. Shape'
      BY <1>4, <2>1 DEF RetryTimer, IInv, Shape
    <2>3. (RowsHaveTimes /\ RoutingIsProcessing /\ RoutedIsOnRecord /\ DrainHasIntent
           /\ EffectOfAttempt /\ AcceptedIsOnRecord /\ ConversationOrder)'
      BY <1>4
         DEF RetryTimer, IInv, RowsHaveTimes, RoutingIsProcessing, RoutedIsOnRecord,
             DrainHasIntent, EffectOfAttempt, AcceptedIsOnRecord, ConversationOrder, Before
    <2>4. WorkersHoldMessages'
      BY <1>4
         DEF RetryTimer, wake, IInv, Shape, WorkersHoldMessages, RoutingIsProcessing, Active,
             NoPass
    <2> QED BY <2>2, <2>3, <2>4 DEF IInv
  <1>5. ASSUME Recover PROVE IInv'
    <2>1. mode' \in Modes
      BY <1>5 DEF Recover, RecoveredState, drainLanes, ScannedLanes, Lanes, IInv, Shape, Modes
    <2>2. inbox' \in [Messages -> {"absent", "received", "processing", "accepted"}]
      BY <1>5 DEF Recover, RecoveredState, drainLanes, ScannedLanes, Lanes, IInv, Shape
    <2>3. intent' \in [Messages -> [state : IntentStates, gen : Nat]]
      BY ZenonT(40), <1>5
         DEF Recover, RecoveredState, drainLanes, ScannedLanes, Lanes, IInv, Shape, IntentStates,
             Terminal
    <2>4. drain' \subseteq Lanes
      BY <1>5 DEF Recover, RecoveredState, drainLanes, ScannedLanes, Lanes, IInv, Shape
    <2>5. Shape'
      BY <1>5, <2>1, <2>2, <2>3, <2>4 DEF Recover, IInv, Shape
    <2>6. RowsHaveTimes'
      BY <1>5
         DEF Recover, RecoveredState, drainLanes, ScannedLanes, Lanes, IInv, Shape, RowsHaveTimes
    <2>7. RoutingIsProcessing'
      BY <1>5
         DEF Recover, RecoveredState, drainLanes, ScannedLanes, Lanes, IInv, Shape,
             RoutingIsProcessing, WorkersHoldMessages, Active
    <2>8. WorkersHoldMessages'
      BY <1>5
         DEF Recover, RecoveredState, drainLanes, ScannedLanes, Lanes, IInv, Shape,
             WorkersHoldMessages, RoutingIsProcessing, Active, NoPass
    <2>9. RoutedIsOnRecord'
      BY <1>5
         DEF Recover, RecoveredState, drainLanes, ScannedLanes, Lanes, IInv, Shape,
             RoutedIsOnRecord, Commands, IntentStates, Terminal
    <2>10. DrainHasIntent'
      BY <1>5
         DEF Recover, RecoveredState, drainLanes, ScannedLanes, Lanes, IInv, Shape,
             DrainHasIntent, IntentStates, Terminal
    <2>11. EffectOfAttempt'
      BY <1>5
         DEF Recover, RecoveredState, drainLanes, ScannedLanes, Lanes, IInv, Shape,
             EffectOfAttempt, DrainHasIntent, IntentStates, Terminal
    <2>12. AcceptedIsOnRecord'
      BY <1>5
         DEF Recover, RecoveredState, drainLanes, ScannedLanes, Lanes, IInv, Shape,
             AcceptedIsOnRecord, RoutedIsOnRecord, Commands, IntentStates, Terminal
    <2>13. ConversationOrder'
      BY <1>5
         DEF Recover, RecoveredState, drainLanes, ScannedLanes, Lanes, IInv, Shape,
             ConversationOrder, Before, RowsHaveTimes, RoutingIsProcessing
    <2> QED BY <2>5, <2>6, <2>7, <2>8, <2>9, <2>10, <2>11, <2>12, <2>13 DEF IInv
  <1>6. ASSUME Listen PROVE IInv'
    <2>1. mode' \in Modes
      BY <1>6 DEF Listen, IInv, Shape, Modes
    <2>2. Shape'
      BY <1>6, <2>1 DEF Listen, IInv, Shape
    <2>3. (RowsHaveTimes /\ RoutedIsOnRecord /\ EffectOfAttempt /\ AcceptedIsOnRecord
           /\ ConversationOrder)'
      BY <1>6
         DEF Listen, IInv, RowsHaveTimes, RoutedIsOnRecord, EffectOfAttempt, AcceptedIsOnRecord,
             ConversationOrder, Before
    <2>4. RoutingIsProcessing'
      BY <1>6 DEF Listen, IInv, Shape, RoutingIsProcessing, WorkersHoldMessages, Active
    <2>5. WorkersHoldMessages'
      BY <1>6 DEF Listen, IInv, Shape, WorkersHoldMessages, RoutingIsProcessing, Active, NoPass
    <2>6. DrainHasIntent'
      BY <1>6 DEF Listen, IInv, Shape, DrainHasIntent, IntentStates, Terminal
    <2> QED BY <2>2, <2>3, <2>4, <2>5, <2>6 DEF IInv
  <1>7. ASSUME StartPipeline PROVE IInv'
    <2>1. mode' \in Modes
      BY <1>7 DEF StartPipeline, NoPass, IInv, Shape, Modes
    <2>2. pass' \in [live : Nat, blocked : SUBSET Scopes, requested : BOOLEAN, retry : BOOLEAN]
      BY <1>7 DEF StartPipeline, NoPass, IInv, Shape, Scopes
    <2>3. Shape'
      BY <1>7, <2>1, <2>2 DEF StartPipeline, IInv, Shape
    <2>4. (RowsHaveTimes /\ RoutedIsOnRecord /\ EffectOfAttempt /\ AcceptedIsOnRecord
           /\ ConversationOrder)'
      BY <1>7
         DEF StartPipeline, IInv, RowsHaveTimes, RoutedIsOnRecord, EffectOfAttempt,
             AcceptedIsOnRecord, ConversationOrder, Before
    <2>5. RoutingIsProcessing'
      BY <1>7
         DEF StartPipeline, NoPass, IInv, Shape, RoutingIsProcessing, WorkersHoldMessages, Active
    <2>6. WorkersHoldMessages'
      <3>1. Active' = {} /\ pass'.live = 0
        BY <1>7 DEF StartPipeline, NoPass, Active, IInv, WorkersHoldMessages
      <3> QED BY <3>1, FS_EmptySet DEF WorkersHoldMessages
    <2>7. DrainHasIntent'
      BY <1>7 DEF StartPipeline, NoPass, IInv, Shape, DrainHasIntent, IntentStates, Terminal
    <2> QED BY <2>3, <2>4, <2>5, <2>6, <2>7 DEF IInv
  <1>8. ASSUME CloseCommands PROVE IInv'
    <2>1. mode' \in Modes
      BY <1>8 DEF CloseCommands, IInv, Shape, Modes
    <2>2. Shape'
      BY <1>8, <2>1 DEF CloseCommands, IInv, Shape
    <2>3. (RowsHaveTimes /\ RoutedIsOnRecord /\ EffectOfAttempt /\ AcceptedIsOnRecord
           /\ ConversationOrder)'
      BY <1>8
         DEF CloseCommands, IInv, RowsHaveTimes, RoutedIsOnRecord, EffectOfAttempt,
             AcceptedIsOnRecord, ConversationOrder, Before
    <2>4. RoutingIsProcessing'
      BY <1>8 DEF CloseCommands, IInv, Shape, RoutingIsProcessing, WorkersHoldMessages, Active
    <2>5. WorkersHoldMessages'
      <3>1. Active' = Active /\ pass' = pass /\ pass.live = 0
        BY <1>8 DEF CloseCommands, Active
      <3>2. Active = {}
        BY <3>1, ActiveIsCounted
      <3> QED BY <3>1, <3>2, ActiveIsCounted DEF WorkersHoldMessages
    <2>6. DrainHasIntent'
      BY <1>8 DEF CloseCommands, IInv, Shape, DrainHasIntent, IntentStates, Terminal
    <2> QED BY <2>2, <2>3, <2>4, <2>5, <2>6 DEF IInv
  <1>9. ASSUME Exit PROVE IInv'
    <2>1. mode' \in Modes
      BY <1>9 DEF Exit, NoPass, IInv, Shape, Modes
    <2>2. pass' \in [live : Nat, blocked : SUBSET Scopes, requested : BOOLEAN, retry : BOOLEAN]
      BY <1>9 DEF Exit, NoPass, IInv, Shape, Scopes
    <2>3. Shape'
      BY <1>9, <2>1, <2>2 DEF Exit, IInv, Shape
    <2>4. (RowsHaveTimes /\ RoutedIsOnRecord /\ EffectOfAttempt /\ AcceptedIsOnRecord
           /\ ConversationOrder)'
      BY <1>9
         DEF Exit, IInv, RowsHaveTimes, RoutedIsOnRecord, EffectOfAttempt, AcceptedIsOnRecord,
             ConversationOrder, Before
    <2>5. RoutingIsProcessing'
      BY <1>9 DEF Exit, NoPass, IInv, Shape, RoutingIsProcessing, WorkersHoldMessages, Active
    <2>6. WorkersHoldMessages'
      <3>1. Active' = {} /\ pass'.live = 0
        BY <1>9 DEF Exit, NoPass, Active, IInv, WorkersHoldMessages
      <3> QED BY <3>1, FS_EmptySet DEF WorkersHoldMessages
    <2>7. DrainHasIntent'
      BY <1>9 DEF Exit, NoPass, IInv, Shape, DrainHasIntent, IntentStates, Terminal
    <2> QED BY <2>3, <2>4, <2>5, <2>6, <2>7 DEF IInv
  <1>10. ASSUME ScanAccepted PROVE IInv'
    <2>1. drain' \subseteq Lanes
      BY <1>10 DEF ScanAccepted, drainLanes, ScannedLanes, Accepting, IInv, Shape, Lanes
    <2>2. Shape'
      BY <1>10, <2>1 DEF ScanAccepted, IInv, Shape
    <2>3. (RowsHaveTimes /\ RoutingIsProcessing /\ WorkersHoldMessages /\ RoutedIsOnRecord
           /\ EffectOfAttempt /\ AcceptedIsOnRecord /\ ConversationOrder)'
      BY <1>10
         DEF ScanAccepted, IInv, RowsHaveTimes, RoutingIsProcessing, WorkersHoldMessages,
             RoutedIsOnRecord, EffectOfAttempt, AcceptedIsOnRecord, ConversationOrder, Active,
             Before
    <2>4. DrainHasIntent'
      BY <1>10
         DEF ScanAccepted, drainLanes, ScannedLanes, Accepting, IInv, Shape, DrainHasIntent,
             IntentStates, Terminal
    <2> QED BY <2>2, <2>3, <2>4 DEF IInv
  <1>11. ASSUME Stop PROVE IInv'
    <2>1. mode' \in Modes
      BY <1>11 DEF Stop, IInv, Shape, Modes
    <2>2. pass' \in [live : Nat, blocked : SUBSET Scopes, requested : BOOLEAN, retry : BOOLEAN]
      BY <1>11 DEF Stop, IInv, Shape, Scopes, NoPass
    <2>3. Shape'
      BY <1>11, <2>1, <2>2 DEF Stop, IInv, Shape
    <2>4. (RowsHaveTimes /\ RoutedIsOnRecord /\ EffectOfAttempt /\ AcceptedIsOnRecord
           /\ ConversationOrder)'
      BY <1>11
         DEF Stop, IInv, RowsHaveTimes, RoutedIsOnRecord, EffectOfAttempt, AcceptedIsOnRecord,
             ConversationOrder, Before
    <2>5. RoutingIsProcessing'
      BY <1>11 DEF Stop, IInv, Shape, RoutingIsProcessing, WorkersHoldMessages, Active
    <2>6. WorkersHoldMessages'
      BY <1>11 DEF Stop, IInv, Shape, WorkersHoldMessages, RoutingIsProcessing, Active, NoPass
    <2>7. DrainHasIntent'
      BY <1>11 DEF Stop, IInv, Shape, DrainHasIntent, IntentStates, Terminal
    <2> QED BY <2>3, <2>4, <2>5, <2>6, <2>7 DEF IInv
  <1>12. ASSUME Crash PROVE IInv'
    <2>1. mode' \in Modes
      BY <1>12 DEF Crash, NoPass, IInv, Shape, Modes
    <2>2. step' \in [Messages -> {"idle", "routing", "routed"}]
      BY <1>12 DEF Crash, NoPass, IInv, Shape
    <2>3. phase' \in [Messages -> {"none", "claimed", "acting"}]
      BY <1>12 DEF Crash, NoPass, IInv, Shape
    <2>4. drain' \subseteq Lanes
      BY <1>12 DEF Crash, NoPass, IInv, Shape, Lanes
    <2>5. pass' \in [live : Nat, blocked : SUBSET Scopes, requested : BOOLEAN, retry : BOOLEAN]
      BY <1>12 DEF Crash, NoPass, IInv, Shape, Scopes
    <2>6. Shape'
      BY <1>12, <2>1, <2>2, <2>3, <2>4, <2>5 DEF Crash, IInv, Shape
    <2>7. (RowsHaveTimes /\ AcceptedIsOnRecord /\ ConversationOrder)'
      BY <1>12 DEF Crash, IInv, RowsHaveTimes, AcceptedIsOnRecord, ConversationOrder, Before
    <2>8. RoutingIsProcessing'
      BY <1>12 DEF Crash, NoPass, IInv, Shape, RoutingIsProcessing, WorkersHoldMessages, Active
    <2>9. WorkersHoldMessages'
      <3>1. Active' = {} /\ pass'.live = 0
        BY <1>12 DEF Crash, NoPass, Active
      <3> QED BY <3>1, FS_EmptySet DEF WorkersHoldMessages
    <2>10. RoutedIsOnRecord'
      BY <1>12 DEF Crash, NoPass, IInv, Shape, RoutedIsOnRecord, Commands, IntentStates, Terminal
    <2>11. DrainHasIntent'
      BY <1>12 DEF Crash, NoPass, IInv, Shape, DrainHasIntent, IntentStates, Terminal
    <2>12. EffectOfAttempt'
      BY ZenonT(40), <1>12
         DEF Crash, NoPass, IInv, Shape, EffectOfAttempt, DrainHasIntent, IntentStates, Terminal
    <2> QED BY <2>6, <2>7, <2>8, <2>9, <2>10, <2>11, <2>12 DEF IInv
  <1>13. ASSUME Rebind PROVE IInv'
    <2>1. gen' \in Nat
      BY <1>13 DEF Rebind, IInv, Shape
    <2>2. Shape'
      BY <1>13, <2>1 DEF Rebind, IInv, Shape
    <2>3. (RowsHaveTimes /\ RoutingIsProcessing /\ WorkersHoldMessages /\ RoutedIsOnRecord
           /\ DrainHasIntent /\ EffectOfAttempt /\ AcceptedIsOnRecord /\ ConversationOrder)'
      BY <1>13
         DEF Rebind, IInv, RowsHaveTimes, RoutingIsProcessing, WorkersHoldMessages,
             RoutedIsOnRecord, DrainHasIntent, EffectOfAttempt, AcceptedIsOnRecord,
             ConversationOrder, Active, Before
    <2> QED BY <2>2, <2>3 DEF IInv
  <1>14. ASSUME NEW l \in Lanes, ClaimIntent(l) PROVE IInv'
    <2>1. intent' \in [Messages -> [state : IntentStates, gen : Nat]]
      <3>1. PICK m \in Messages : intent' = [intent EXCEPT ![m].state = "executing"]
        BY <1>14 DEF ClaimIntent, NextIntents, OfLane
      <3> QED BY <3>1, IntentUpdate DEF IInv, IntentStates
    <2>2. phase' \in [Messages -> {"none", "claimed", "acting"}]
      BY <1>14 DEF ClaimIntent, NextIntents, OfLane, LaneIdle, IInv, Shape
    <2>3. Shape'
      BY <1>14, <2>1, <2>2 DEF ClaimIntent, IInv, Shape
    <2>4. (RowsHaveTimes /\ RoutingIsProcessing /\ WorkersHoldMessages /\ ConversationOrder)'
      BY <1>14
         DEF ClaimIntent, IInv, RowsHaveTimes, RoutingIsProcessing, WorkersHoldMessages,
             ConversationOrder, Active, Before
    <2>5. RoutedIsOnRecord'
      BY <1>14
         DEF ClaimIntent, NextIntents, OfLane, LaneIdle, IInv, Shape, RoutedIsOnRecord, Commands,
             IntentStates, Terminal
    <2>6. DrainHasIntent'
      BY <1>14
         DEF ClaimIntent, NextIntents, OfLane, LaneIdle, IInv, Shape, DrainHasIntent,
             IntentStates, Terminal
    <2>7. EffectOfAttempt'
      BY <1>14
         DEF ClaimIntent, NextIntents, OfLane, LaneIdle, IInv, Shape, EffectOfAttempt,
             DrainHasIntent, IntentStates, Terminal
    <2>8. AcceptedIsOnRecord'
      BY <1>14
         DEF ClaimIntent, NextIntents, OfLane, LaneIdle, IInv, Shape, AcceptedIsOnRecord,
             RoutedIsOnRecord, Commands, IntentStates, Terminal
    <2> QED BY <2>3, <2>4, <2>5, <2>6, <2>7, <2>8 DEF IInv
  <1>15. ASSUME NEW l \in Lanes, EndDrain(l) PROVE IInv'
    <2>1. drain' \subseteq Lanes
      BY <1>15 DEF EndDrain, LaneIdle, OfLane, IInv, Shape, Lanes
    <2>2. Shape'
      BY <1>15, <2>1 DEF EndDrain, IInv, Shape
    <2>3. (RowsHaveTimes /\ RoutingIsProcessing /\ WorkersHoldMessages /\ RoutedIsOnRecord
           /\ EffectOfAttempt /\ AcceptedIsOnRecord /\ ConversationOrder)'
      BY <1>15
         DEF EndDrain, IInv, RowsHaveTimes, RoutingIsProcessing, WorkersHoldMessages,
             RoutedIsOnRecord, EffectOfAttempt, AcceptedIsOnRecord, ConversationOrder, Active,
             Before
    <2>4. DrainHasIntent'
      BY <1>15 DEF EndDrain, LaneIdle, OfLane, IInv, Shape, DrainHasIntent, IntentStates, Terminal
    <2> QED BY <2>2, <2>3, <2>4 DEF IInv
  <1>16. ASSUME NEW m \in Messages, Receive(m) PROVE IInv'
    <2>1. inbox' \in [Messages -> {"absent", "received", "processing", "accepted"}]
      BY <1>16 DEF Receive, Recordable, wake, IInv, Shape
    <2>2. arrived' \in [Messages -> Nat]
      BY <1>16 DEF Receive, Recordable, wake, IInv, Shape
    <2>3. clock' \in Nat
      BY <1>16 DEF Receive, Recordable, wake, IInv, Shape
    <2>4. pass' \in [live : Nat, blocked : SUBSET Scopes, requested : BOOLEAN, retry : BOOLEAN]
      BY <1>16 DEF Receive, Recordable, wake, IInv, Shape, Scopes, NoPass
    <2>5. Shape'
      BY <1>16, <2>1, <2>2, <2>3, <2>4 DEF Receive, IInv, Shape
    <2>6. (RoutedIsOnRecord /\ DrainHasIntent /\ EffectOfAttempt)'
      BY <1>16 DEF Receive, IInv, RoutedIsOnRecord, DrainHasIntent, EffectOfAttempt
    <2>7. RowsHaveTimes'
      BY <1>16 DEF Receive, Recordable, wake, IInv, Shape, RowsHaveTimes
    <2>8. RoutingIsProcessing'
      BY <1>16
         DEF Receive, Recordable, wake, IInv, Shape, RoutingIsProcessing, WorkersHoldMessages,
             Active
    <2>9. WorkersHoldMessages'
      BY <1>16
         DEF Receive, Recordable, wake, IInv, Shape, WorkersHoldMessages, RoutingIsProcessing,
             Active, NoPass
    <2>10. AcceptedIsOnRecord'
      BY <1>16
         DEF Receive, Recordable, wake, IInv, Shape, AcceptedIsOnRecord, RoutedIsOnRecord,
             Commands, IntentStates, Terminal
    <2>11. ConversationOrder'
      BY SMTT(20), <1>16
         DEF Receive, Recordable, wake, IInv, Shape, ConversationOrder, Before, RowsHaveTimes,
             RoutingIsProcessing
    <2> QED BY <2>5, <2>6, <2>7, <2>8, <2>9, <2>10, <2>11 DEF IInv
  <1>17. ASSUME NEW m \in Messages, RouteCommand(m) PROVE IInv'
    <2>1. step' \in [Messages -> {"idle", "routing", "routed"}]
      BY <1>17 DEF RouteCommand, acceptCommandIntent, IInv, Shape
    <2>2. intent' \in [Messages -> [state : IntentStates, gen : Nat]]
      <3>1. CASE intent' = intent
        BY <3>1 DEF IInv, Shape
      <3>2. CASE intent' = [intent EXCEPT ![m] = [state |-> "accepted", gen |-> gen]]
        <4>1. [state |-> "accepted", gen |-> gen] \in [state : IntentStates, gen : Nat]
          BY DEF IInv, Shape, IntentStates
        <4> QED BY <3>2, <4>1 DEF IInv, Shape
      <3> QED BY <1>17, <3>1, <3>2 DEF RouteCommand, acceptCommandIntent
    <2>3. clock' \in Nat
      BY <1>17 DEF RouteCommand, acceptCommandIntent, IInv, Shape
    <2>4. Shape'
      BY <1>17, <2>1, <2>2, <2>3 DEF RouteCommand, IInv, Shape
    <2>5. (ConversationOrder)'
      BY <1>17 DEF RouteCommand, IInv, ConversationOrder, Before
    <2>6. RowsHaveTimes'
      BY <1>17 DEF RouteCommand, acceptCommandIntent, IInv, Shape, RowsHaveTimes
    <2>7. RoutingIsProcessing'
      BY <1>17
         DEF RouteCommand, acceptCommandIntent, IInv, Shape, RoutingIsProcessing,
             WorkersHoldMessages, Active
    <2>8. WorkersHoldMessages'
      BY <1>17
         DEF RouteCommand, acceptCommandIntent, IInv, Shape, WorkersHoldMessages,
             RoutingIsProcessing, Active, NoPass
    <2>9. RoutedIsOnRecord'
      <3>1. mode # "closing"
        <4>1. m \in Active
          BY <1>17 DEF RouteCommand, Active
        <4> QED BY <4>1 DEF IInv, WorkersHoldMessages
      <3>2. \A x \in Messages : x # m => intent'[x] = intent[x] /\ step'[x] = step[x]
        BY <1>17 DEF RouteCommand, acceptCommandIntent, IInv, Shape
      <3>3. intent'[m].state # "none"
        BY <1>17, <3>1 DEF RouteCommand, acceptCommandIntent, IInv, Shape
      <3> QED BY <3>2, <3>3 DEF IInv, RoutedIsOnRecord, Commands
    <2>10. DrainHasIntent'
      BY ZenonT(40), <1>17
         DEF RouteCommand, acceptCommandIntent, IInv, Shape, DrainHasIntent, IntentStates,
             Terminal
    <2>11. EffectOfAttempt'
      <3>1. /\ effects' = effects /\ phase' = phase
            /\ \A x \in Messages : x # m => intent'[x] = intent[x]
        BY <1>17 DEF RouteCommand, acceptCommandIntent, IInv, Shape
      <3>2. CASE intent' = intent
        BY <3>1, <3>2 DEF IInv, EffectOfAttempt
      <3>3. CASE intent[m].state = "none"
        <4>1. effects[m] = <<>>
          BY <3>3 DEF IInv, EffectOfAttempt
        <4> QED BY <3>1, <4>1 DEF IInv, EffectOfAttempt
      <3> QED BY <1>17, <3>2, <3>3 DEF RouteCommand, acceptCommandIntent
    <2>12. AcceptedIsOnRecord'
      BY <1>17
         DEF RouteCommand, acceptCommandIntent, IInv, Shape, AcceptedIsOnRecord, RoutedIsOnRecord,
             Commands, IntentStates, Terminal
    <2> QED BY <2>4, <2>5, <2>6, <2>7, <2>8, <2>9, <2>10, <2>11, <2>12 DEF IInv
  <1>18. ASSUME NEW m \in Messages, RouteWorker(m) PROVE IInv'
    <2>1. step' \in [Messages -> {"idle", "routing", "routed"}]
      BY <1>18 DEF RouteWorker, IInv, Shape
    <2>2. Shape'
      BY <1>18, <2>1 DEF RouteWorker, IInv, Shape
    <2>3. (RowsHaveTimes /\ DrainHasIntent /\ EffectOfAttempt /\ AcceptedIsOnRecord
           /\ ConversationOrder)'
      BY <1>18
         DEF RouteWorker, IInv, RowsHaveTimes, DrainHasIntent, EffectOfAttempt,
             AcceptedIsOnRecord, ConversationOrder, Before
    <2>4. RoutingIsProcessing'
      BY <1>18 DEF RouteWorker, IInv, Shape, RoutingIsProcessing, WorkersHoldMessages, Active
    <2>5. WorkersHoldMessages'
      BY <1>18
         DEF RouteWorker, IInv, Shape, WorkersHoldMessages, RoutingIsProcessing, Active, NoPass
    <2>6. RoutedIsOnRecord'
      BY <1>18 DEF RouteWorker, IInv, Shape, RoutedIsOnRecord, Commands, IntentStates, Terminal
    <2> QED BY <2>2, <2>3, <2>4, <2>5, <2>6 DEF IInv
  <1>19. ASSUME NEW m \in Messages, markInboundMessageAccepted(m) PROVE IInv'
    <2>1. inbox' \in [Messages -> {"absent", "received", "processing", "accepted"}]
      BY <1>19 DEF markInboundMessageAccepted, IInv, Shape
    <2>2. step' \in [Messages -> {"idle", "routing", "routed"}]
      BY <1>19 DEF markInboundMessageAccepted, IInv, Shape
    <2>3. Shape'
      BY <1>19, <2>1, <2>2 DEF markInboundMessageAccepted, IInv, Shape
    <2>4. (DrainHasIntent /\ EffectOfAttempt)'
      BY <1>19 DEF markInboundMessageAccepted, IInv, DrainHasIntent, EffectOfAttempt
    <2>5. RowsHaveTimes'
      BY <1>19 DEF markInboundMessageAccepted, IInv, Shape, RowsHaveTimes, RoutingIsProcessing
    <2>6. RoutingIsProcessing'
      BY <1>19
         DEF markInboundMessageAccepted, IInv, Shape, RoutingIsProcessing, WorkersHoldMessages,
             Active
    <2>7. WorkersHoldMessages'
      <3>1. step[m] # "idle" /\ step' = [step EXCEPT ![m] = "idle"]
        BY <1>19 DEF markInboundMessageAccepted
      <3>2. mode' = mode /\ pass' = pass
        BY <1>19 DEF markInboundMessageAccepted
      <3> QED BY <3>1, <3>2, LettingGo DEF IInv, WorkersHoldMessages
    <2>8. RoutedIsOnRecord'
      BY <1>19
         DEF markInboundMessageAccepted, IInv, Shape, RoutedIsOnRecord, Commands, IntentStates,
             Terminal
    <2>9. AcceptedIsOnRecord'
      BY <1>19
         DEF markInboundMessageAccepted, IInv, Shape, AcceptedIsOnRecord, RoutedIsOnRecord,
             Commands, IntentStates, Terminal
    <2>10. ConversationOrder'
      BY <1>19
         DEF markInboundMessageAccepted, IInv, Shape, ConversationOrder, Before, RowsHaveTimes,
             RoutingIsProcessing
    <2> QED BY <2>3, <2>4, <2>5, <2>6, <2>7, <2>8, <2>9, <2>10 DEF IInv
  <1>20. ASSUME NEW m \in Messages, ReleaseMessage(m) PROVE IInv'
    <2>1. inbox' \in [Messages -> {"absent", "received", "processing", "accepted"}]
      BY <1>20 DEF ReleaseMessage, IInv, Shape
    <2>2. step' \in [Messages -> {"idle", "routing", "routed"}]
      BY <1>20 DEF ReleaseMessage, IInv, Shape
    <2>3. pass' \in [live : Nat, blocked : SUBSET Scopes, requested : BOOLEAN, retry : BOOLEAN]
      BY ZenonT(40), <1>20 DEF ReleaseMessage, IInv, Shape, Scopes, NoPass
    <2>4. Shape'
      BY <1>20, <2>1, <2>2, <2>3 DEF ReleaseMessage, IInv, Shape
    <2>5. (DrainHasIntent /\ EffectOfAttempt)'
      BY <1>20 DEF ReleaseMessage, IInv, DrainHasIntent, EffectOfAttempt
    <2>6. RowsHaveTimes'
      BY <1>20 DEF ReleaseMessage, IInv, Shape, RowsHaveTimes, RoutingIsProcessing
    <2>7. RoutingIsProcessing'
      BY <1>20 DEF ReleaseMessage, IInv, Shape, RoutingIsProcessing, WorkersHoldMessages, Active
    <2>8. WorkersHoldMessages'
      <3>1. step[m] # "idle" /\ step' = [step EXCEPT ![m] = "idle"]
        BY <1>20 DEF ReleaseMessage
      <3>2. mode' = mode /\ pass'.live = pass.live
        BY <1>20 DEF ReleaseMessage, IInv, Shape
      <3> QED BY <3>1, <3>2, LettingGo DEF IInv, WorkersHoldMessages
    <2>9. RoutedIsOnRecord'
      BY <1>20 DEF ReleaseMessage, IInv, Shape, RoutedIsOnRecord, Commands, IntentStates, Terminal
    <2>10. AcceptedIsOnRecord'
      BY <1>20
         DEF ReleaseMessage, IInv, Shape, AcceptedIsOnRecord, RoutedIsOnRecord, Commands,
             IntentStates, Terminal
    <2>11. ConversationOrder'
      BY <1>20
         DEF ReleaseMessage, IInv, Shape, ConversationOrder, Before, RowsHaveTimes,
             RoutingIsProcessing
    <2> QED BY <2>4, <2>5, <2>6, <2>7, <2>8, <2>9, <2>10, <2>11 DEF IInv
  <1>21. ASSUME NEW m \in Messages, Prune(m) PROVE IInv'
    <2>1. inbox' \in [Messages -> {"absent", "received", "processing", "accepted"}]
      BY <1>21 DEF Prune, IInv, Shape
    <2>2. arrived' \in [Messages -> Nat]
      BY <1>21 DEF Prune, IInv, Shape
    <2>3. Shape'
      BY <1>21, <2>1, <2>2 DEF Prune, IInv, Shape
    <2>4. (WorkersHoldMessages /\ RoutedIsOnRecord /\ DrainHasIntent /\ EffectOfAttempt)'
      BY <1>21
         DEF Prune, IInv, WorkersHoldMessages, RoutedIsOnRecord, DrainHasIntent, EffectOfAttempt,
             Active
    <2>5. RowsHaveTimes'
      BY <1>21 DEF Prune, IInv, Shape, RowsHaveTimes
    <2>6. RoutingIsProcessing'
      BY <1>21 DEF Prune, IInv, Shape, RoutingIsProcessing, WorkersHoldMessages, Active
    <2>7. AcceptedIsOnRecord'
      BY <1>21
         DEF Prune, IInv, Shape, AcceptedIsOnRecord, RoutedIsOnRecord, Commands, IntentStates,
             Terminal
    <2>8. ConversationOrder'
      BY <1>21
         DEF Prune, IInv, Shape, ConversationOrder, Before, RowsHaveTimes, RoutingIsProcessing
    <2> QED BY <2>3, <2>4, <2>5, <2>6, <2>7, <2>8 DEF IInv
  <1>22. ASSUME NEW m \in Messages, HandleHint(m) PROVE IInv'
    <2>1. drain' \subseteq Lanes
      BY <1>22 DEF HandleHint, drainLanes, Accepting, Lanes, IInv, Shape
    <2>2. Shape'
      BY <1>22, <2>1 DEF HandleHint, IInv, Shape
    <2>3. (RowsHaveTimes /\ RoutingIsProcessing /\ WorkersHoldMessages /\ RoutedIsOnRecord
           /\ EffectOfAttempt /\ AcceptedIsOnRecord /\ ConversationOrder)'
      BY <1>22
         DEF HandleHint, IInv, RowsHaveTimes, RoutingIsProcessing, WorkersHoldMessages,
             RoutedIsOnRecord, EffectOfAttempt, AcceptedIsOnRecord, ConversationOrder, Active,
             Before
    <2>4. DrainHasIntent'
      BY <1>22
         DEF HandleHint, drainLanes, Accepting, Lanes, IInv, Shape, DrainHasIntent, IntentStates,
             Terminal
    <2> QED BY <2>2, <2>3, <2>4 DEF IInv
  <1>23. ASSUME NEW m \in Messages, Execute(m) PROVE IInv'
    <2>1. effects' \in [Messages -> Seq(Nat)]
      BY <1>23 DEF Execute, FrozenContextHolds, IInv, Shape
    <2>2. phase' \in [Messages -> {"none", "claimed", "acting"}]
      BY <1>23 DEF Execute, FrozenContextHolds, IInv, Shape
    <2>3. Shape'
      BY <1>23, <2>1, <2>2 DEF Execute, IInv, Shape
    <2>4. (RowsHaveTimes /\ RoutingIsProcessing /\ WorkersHoldMessages /\ RoutedIsOnRecord
           /\ AcceptedIsOnRecord /\ ConversationOrder)'
      BY <1>23
         DEF Execute, IInv, RowsHaveTimes, RoutingIsProcessing, WorkersHoldMessages,
             RoutedIsOnRecord, AcceptedIsOnRecord, ConversationOrder, Active, Before
    <2>5. DrainHasIntent'
      BY <1>23
         DEF Execute, FrozenContextHolds, IInv, Shape, DrainHasIntent, IntentStates, Terminal
    <2>6. EffectOfAttempt'
      <3>1. effects[m] = <<>> /\ gen \in Nat
        BY <1>23 DEF Execute, IInv, EffectOfAttempt, Shape
      <3>2. effects'[m] = <<gen>> /\ phase'[m] = "acting"
        BY <1>23, <3>1 DEF Execute, IInv, Shape
      <3>3. intent' = intent /\ intent[m].state = "executing"
        BY <1>23 DEF Execute, IInv, DrainHasIntent
      <3>4. \A x \in Messages : x # m => effects'[x] = effects[x] /\ phase'[x] = phase[x]
        BY <1>23 DEF Execute, IInv, Shape
      <3>5. Kind[m] = "primary" => gen = intent[m].gen
        BY <1>23 DEF Execute, FrozenContextHolds
      <3>6. Len(effects'[m]) = 1 /\ effects'[m][1] = gen
        BY <3>1, <3>2
      <3>7. ASSUME NEW x \in Messages, x # m
            PROVE  /\ Len(effects'[x]) <= 1
                   /\ intent'[x].state \in {"none", "accepted"} \/ phase'[x] = "claimed"
                        => effects'[x] = <<>>
                   /\ Kind[x] = "primary" =>
                        \A i \in 1..Len(effects'[x]) : effects'[x][i] = intent'[x].gen
        BY <3>3, <3>4, <3>7 DEF IInv, EffectOfAttempt
      <3>8. Kind[m] = "primary" => \A i \in 1..Len(effects'[m]) : effects'[m][i] = intent'[m].gen
        BY <3>3, <3>5, <3>6
      <3>9. /\ Len(effects'[m]) <= 1
            /\ ~(intent'[m].state \in {"none", "accepted"} \/ phase'[m] = "claimed")
        BY <3>2, <3>3, <3>6
      <3> QED
        <4>1. SUFFICES ASSUME NEW x \in Messages
                       PROVE  /\ Len(effects'[x]) <= 1
                              /\ intent'[x].state \in {"none", "accepted"} \/ phase'[x] = "claimed"
                                   => effects'[x] = <<>>
                              /\ Kind[x] = "primary" =>
                                   \A i \in 1..Len(effects'[x]) : effects'[x][i] = intent'[x].gen
          BY DEF EffectOfAttempt
        <4>2. CASE x = m
          BY <3>8, <3>9, <4>2
        <4>3. CASE x # m
          BY <3>7, <4>3
        <4> QED BY <4>2, <4>3
    <2> QED BY <2>3, <2>4, <2>5, <2>6 DEF IInv
  <1>24. ASSUME NEW m \in Messages, RejectStale(m) PROVE IInv'
    <2>1. intent' \in [Messages -> [state : IntentStates, gen : Nat]]
      BY ZenonT(40), <1>24 DEF RejectStale, finish, IInv, Shape, IntentStates, Terminal
    <2>2. phase' \in [Messages -> {"none", "claimed", "acting"}]
      BY <1>24 DEF RejectStale, finish, IInv, Shape
    <2>3. Shape'
      BY <1>24, <2>1, <2>2 DEF RejectStale, IInv, Shape
    <2>4. (RowsHaveTimes /\ RoutingIsProcessing /\ WorkersHoldMessages /\ ConversationOrder)'
      BY <1>24
         DEF RejectStale, IInv, RowsHaveTimes, RoutingIsProcessing, WorkersHoldMessages,
             ConversationOrder, Active, Before
    <2>5. RoutedIsOnRecord'
      BY <1>24
         DEF RejectStale, finish, IInv, Shape, RoutedIsOnRecord, Commands, IntentStates, Terminal
    <2>6. DrainHasIntent'
      BY <1>24 DEF RejectStale, finish, IInv, Shape, DrainHasIntent, IntentStates, Terminal
    <2>7. EffectOfAttempt'
      BY <1>24
         DEF RejectStale, finish, IInv, Shape, EffectOfAttempt, DrainHasIntent, IntentStates,
             Terminal
    <2>8. AcceptedIsOnRecord'
      BY <1>24
         DEF RejectStale, finish, IInv, Shape, AcceptedIsOnRecord, RoutedIsOnRecord, Commands,
             IntentStates, Terminal
    <2> QED BY <2>3, <2>4, <2>5, <2>6, <2>7, <2>8 DEF IInv
  <1>25. ASSUME NEW m \in Messages, Settle(m) PROVE IInv'
    <2>1. intent' \in [Messages -> [state : IntentStates, gen : Nat]]
      <3>1. PICK s \in Terminal : intent' = [intent EXCEPT ![m].state = s]
        BY <1>25 DEF Settle, finish
      <3> QED BY <3>1, IntentUpdate DEF IInv, IntentStates
    <2>2. phase' \in [Messages -> {"none", "claimed", "acting"}]
      BY <1>25 DEF Settle, finish, IInv, Shape
    <2>3. Shape'
      BY <1>25, <2>1, <2>2 DEF Settle, IInv, Shape
    <2>4. (RowsHaveTimes /\ RoutingIsProcessing /\ WorkersHoldMessages /\ ConversationOrder)'
      BY <1>25
         DEF Settle, IInv, RowsHaveTimes, RoutingIsProcessing, WorkersHoldMessages,
             ConversationOrder, Active, Before
    <2>5. RoutedIsOnRecord'
      BY <1>25 DEF Settle, finish, IInv, Shape, RoutedIsOnRecord, Commands, IntentStates, Terminal
    <2>6. DrainHasIntent'
      BY <1>25 DEF Settle, finish, IInv, Shape, DrainHasIntent, IntentStates, Terminal
    <2>7. EffectOfAttempt'
      BY <1>25
         DEF Settle, finish, IInv, Shape, EffectOfAttempt, DrainHasIntent, IntentStates, Terminal
    <2>8. AcceptedIsOnRecord'
      BY <1>25
         DEF Settle, finish, IInv, Shape, AcceptedIsOnRecord, RoutedIsOnRecord, Commands,
             IntentStates, Terminal
    <2> QED BY <2>3, <2>4, <2>5, <2>6, <2>7, <2>8 DEF IInv
  <1>26. ASSUME UNCHANGED <<mode, inVars, cmdVars, effects, gen, clock>> PROVE IInv'
    BY <1>26
       DEF IInv, Shape, RowsHaveTimes, RoutingIsProcessing, WorkersHoldMessages, RoutedIsOnRecord,
           DrainHasIntent, EffectOfAttempt, AcceptedIsOnRecord, ConversationOrder, Active, Before
  <1>27. ASSUME NEW m \in Messages, ClaimCreate(m) PROVE IInv'
    BY <1>26, <1>27 DEF ClaimCreate
  <1>28. ASSUME NEW m \in Messages, DeliverCreate(m) PROVE IInv'
    BY <1>26, <1>28 DEF DeliverCreate
  <1>29. ASSUME NEW m \in Messages, DeliveryFails(m) PROVE IInv'
    BY <1>26, <1>29 DEF DeliveryFails
  <1>30. ASSUME NEW m \in Messages, NEW r \in Revisions, ClaimUpdate(m, r) PROVE IInv'
    BY <1>26, <1>30 DEF ClaimUpdate
  <1>31. ASSUME NEW m \in Messages, NEW r \in Revisions, DeliverUpdate(m, r) PROVE IInv'
    BY <1>26, <1>31 DEF DeliverUpdate
  <1>32. ASSUME UNCHANGED vars PROVE IInv'
    BY <1>26, <1>32 DEF vars
  <1> QED
    BY <1>1, <1>2, <1>3, <1>4, <1>5, <1>6, <1>7, <1>8, <1>9, <1>10, <1>11, <1>12, <1>13, <1>14, <1>15,
       <1>16, <1>17, <1>18, <1>19, <1>20, <1>21, <1>22, <1>23, <1>24, <1>25, <1>27, <1>28, <1>29, <1>30, <1>31, <1>32
       DEF Next, PipelineStep, StartStopStep, LaneStep, RouterStep, CommandStep, DeliveryStep

\* The pipeline and the dispatcher start in the invariant.
LEMMA InitHolds == Init => IInv
  <1> SUFFICES ASSUME Init PROVE IInv
    OBVIOUS
  <1>1. Shape
    BY DEF Init, Shape, Modes, NoPass, IntentStates
  <1>2. WorkersHoldMessages
    <2>1. Active = {} /\ pass.live = 0
      BY DEF Init, Active, NoPass
    <2> QED BY <2>1, FS_EmptySet DEF WorkersHoldMessages
  <1>3. RowsHaveTimes /\ RoutingIsProcessing /\ RoutedIsOnRecord /\ DrainHasIntent
    BY DEF Init, RowsHaveTimes, RoutingIsProcessing, RoutedIsOnRecord, DrainHasIntent, Commands
  <1>4. EffectOfAttempt
    BY DEF Init, EffectOfAttempt
  <1>5. AcceptedIsOnRecord /\ ConversationOrder
    BY DEF Init, AcceptedIsOnRecord, ConversationOrder, Commands
  <1> QED BY <1>1, <1>2, <1>3, <1>4, <1>5 DEF IInv

\* The inductive invariant is an invariant of the specification.
THEOREM InvariantHolds == Spec => []IInv
  BY InitHolds, StepKeepsInvariant, PTL DEF Spec

\* A command takes effect at most once and on the generation it was frozen for, however often
\* its message is redelivered, released, pruned or recovered and the dispatcher is restarted.
THEOREM EffectOnce == Spec => []OneEffect
  <1>1. IInv => OneEffect
    BY DEF IInv, EffectOfAttempt, OneEffect, Commands
  <1> QED BY <1>1, InvariantHolds, PTL

\* No stop, crash or failure lets a message leave the inbox without its command on record:
\* InboundRouter.stop closes the commands only after the last worker of the pass.
THEOREM AcceptedOnRecord == Spec => []AcceptedIsOnRecord
  <1>1. IInv => AcceptedIsOnRecord
    BY DEF IInv
  <1> QED BY <1>1, InvariantHolds, PTL

\* A conversation is routed in the order of its arrival, for any number of workers.
THEOREM ConversationInOrder == Spec => []ConversationOrder
  <1>1. IInv => ConversationOrder
    BY DEF IInv
  <1> QED BY <1>1, InvariantHolds, PTL
-----------------------------------------------------------------------------
(* The status cards, the revisions of which follow the intents. *)

ViewType == [revision : 0..3, message : BOOLEAN, delivered : 0..3, create : ReplyStates,
             createRev : 0..3, update : [Revisions -> ReplyStates]]

\* The revision of a status view is as far as its intent has come.
StageOf(state) == IF state = "none" THEN 0
                  ELSE IF state = "accepted" THEN 1
                  ELSE IF state = "executing" THEN 2
                  ELSE 3

\* Updates wait for the acknowledged creation, none is of a revision the view has not reached,
\* and the one that is sent has no earlier one before it.
CardFits(v) ==
    /\ \A r \in Revisions : v.update[r] # "none" => v.message /\ r <= v.revision
    /\ v.message => v.create = "sent"
    /\ v.delivered <= v.revision /\ v.createRev <= v.revision
    /\ \A r, x \in Revisions :
          v.update[r] = "inflight" /\ x < r => v.update[x] \notin Unsettled

\* What is still to be shown is not older than the revision s on show.
ShowsNext(v, s) ==
    /\ s <= v.revision
    /\ v.create \in {"none"} \cup Unsettled => s = 0
    /\ \A r \in Revisions : v.update[r] \in Unsettled => s <= r

Cards == /\ view \in [Messages -> ViewType] /\ shown \in [Messages -> 0..3]
         /\ \A m \in Messages : /\ view[m].revision = StageOf(intent[m].state)
                                /\ CardFits(view[m]) /\ ShowsNext(view[m], shown[m])

\* Times and generations are those of the clock and the session so far; a pass has its workers.
Bounds ==
    /\ pass.live <= Concurrency /\ hints \subseteq Messages
    /\ filed \in [Messages -> 0..clock]
    /\ \A m \in Messages : filed[m] = 0 <=> intent[m].state = "none"
    /\ gen >= 1 /\ \A m \in Messages : intent[m].gen <= gen /\ effects[m] \in Seq(1..gen)

\* A status card never goes back to an earlier revision of its view.
ShownGrows == \A m \in Messages : shown[m] <= shown'[m]
NeverBack == [][ShownGrows]_shown
-----------------------------------------------------------------------------
\* Putting a revision of the view into the outbox keeps the card in order.
LEMMA EnqueueKeeps ==
    ASSUME NEW v \in ViewType, CardFits(v), NEW s \in 0..3, ShowsNext(v, s),
           v.message, v.revision >= 1,
           NEW w, w = [v EXCEPT !.update[v.revision] = IF @ = "none" THEN "pending" ELSE @]
    PROVE  w \in ViewType /\ CardFits(w) /\ ShowsNext(w, s) /\ w.revision = v.revision
  <1>1. v.revision \in Revisions /\ v.update \in [Revisions -> ReplyStates]
    BY DEF ViewType, Revisions
  <1>2. PICK new \in {"pending", v.update[v.revision]} :
           /\ v.update[v.revision] # "none" => new = v.update[v.revision]
           /\ w = [v EXCEPT !.update[v.revision] = new]
    OBVIOUS
  <1>3. new \in ReplyStates
    BY <1>1, <1>2 DEF ReplyStates
  <1>4. [v.update EXCEPT ![v.revision] = new] \in [Revisions -> ReplyStates]
    BY <1>1, <1>3
  <1>5. /\ w.update = [v.update EXCEPT ![v.revision] = new] /\ w.revision = v.revision
        /\ w.message = v.message /\ w.delivered = v.delivered /\ w.create = v.create
        /\ w.createRev = v.createRev
    BY <1>2 DEF ViewType
  <1>6. w \in ViewType
    BY <1>2, <1>4 DEF ViewType
  <1>7. \A r \in Revisions : w.update[r] = IF r = v.revision THEN new ELSE v.update[r]
    BY <1>1, <1>5
  <1>8. new = "inflight" => v.update[v.revision] = "inflight"
    BY <1>2
  <1>9. CardFits(w)
    <2>1. \A r \in Revisions : w.update[r] # "none" => w.message /\ r <= w.revision
      BY <1>1, <1>5, <1>7 DEF CardFits, Revisions
    <2>2. ASSUME NEW r \in Revisions, NEW x \in Revisions, w.update[r] = "inflight", x < r
          PROVE  w.update[x] \notin Unsettled
      <3>1. v.update[r] = "inflight"
        BY <1>7, <1>8, <2>2
      <3>2. r <= v.revision
        BY <3>1 DEF CardFits
      <3>3. x # v.revision
        BY <1>1, <2>2, <3>2 DEF Revisions
      <3> QED BY <1>7, <2>2, <3>1, <3>3 DEF CardFits
    <2> QED BY <1>5, <2>1, <2>2 DEF CardFits
  <1>10. ShowsNext(w, s)
    BY <1>1, <1>5, <1>7 DEF ShowsNext
  <1> QED BY <1>5, <1>6, <1>9, <1>10

\* Moving a view on to its next revision and projecting it keeps the card in order.
LEMMA TransitionKeeps ==
    ASSUME NEW m \in Messages, view[m] \in ViewType, CardFits(view[m]), view[m].revision <= 2,
           NEW s \in 0..3, ShowsNext(view[m], s)
    PROVE  /\ transitionStatus(m) \in ViewType
           /\ CardFits(transitionStatus(m)) /\ ShowsNext(transitionStatus(m), s)
           /\ transitionStatus(m).revision = view[m].revision + 1
  <1> DEFINE v == [view[m] EXCEPT !.revision = @ + 1]
  <1>1. v \in ViewType
    BY DEF ViewType
  <1>2. /\ v.update = view[m].update /\ v.revision = view[m].revision + 1
        /\ v.message = view[m].message /\ v.delivered = view[m].delivered
        /\ v.create = view[m].create /\ v.createRev = view[m].createRev
        /\ view[m].revision \in 0..3 /\ view[m].delivered \in 0..3 /\ view[m].createRev \in 0..3
    BY DEF ViewType
  <1>3. CardFits(v) /\ ShowsNext(v, s)
    <2>1. \A r \in Revisions : r <= view[m].revision => r <= v.revision
      BY <1>2 DEF Revisions
    <2> QED BY <1>2, <2>1 DEF CardFits, ShowsNext
  <1> HIDE DEF v
  <1>4. CASE ~ExactBinding(m)
    <2>1. projectStatus(m, v) = v
      BY <1>4 DEF projectStatus
    <2> QED BY <1>1, <1>2, <1>3, <2>1 DEF transitionStatus, v
  <1>5. CASE ExactBinding(m) /\ v.message
    <2>1. projectStatus(m, v) = [v EXCEPT !.update[v.revision] =
                                    IF @ = "none" THEN "pending" ELSE @]
      BY <1>5 DEF projectStatus
    <2>2. v.revision >= 1
      BY <1>2
    <2>3. /\ projectStatus(m, v) \in ViewType /\ CardFits(projectStatus(m, v))
          /\ ShowsNext(projectStatus(m, v), s) /\ projectStatus(m, v).revision = v.revision
      BY <1>1, <1>3, <1>5, <2>1, <2>2, EnqueueKeeps
    <2> QED BY <1>2, <2>3 DEF transitionStatus, v
  <1>6. CASE ExactBinding(m) /\ ~v.message /\ v.create = "none"
    <2> DEFINE w == [v EXCEPT !.create = "pending", !.createRev = v.revision]
    <2>1. projectStatus(m, v) = w
      BY <1>6 DEF projectStatus
    <2>2. /\ w.update = v.update /\ w.revision = v.revision /\ w.message = v.message
          /\ w.delivered = v.delivered /\ w.create = "pending" /\ w.createRev = v.revision
          /\ w \in ViewType
      BY <1>1 DEF ViewType, ReplyStates
    <2>3. s = 0
      BY <1>3, <1>6 DEF ShowsNext
    <2>4. CardFits(w)
      BY <1>2, <1>3, <1>6, <2>2 DEF CardFits
    <2>5. ShowsNext(w, s)
      BY <1>3, <2>2, <2>3 DEF ShowsNext
    <2> QED BY <1>2, <2>1, <2>2, <2>4, <2>5 DEF transitionStatus, v
  <1>7. CASE ExactBinding(m) /\ ~v.message /\ v.create # "none"
    <2>1. projectStatus(m, v) = v
      BY <1>7 DEF projectStatus
    <2> QED BY <1>1, <1>2, <1>3, <2>1 DEF transitionStatus, v
  <1> QED BY <1>4, <1>5, <1>6, <1>7

\* An acknowledgement moves what is shown on, and what it lets out comes after it.
LEMMA SettleKeeps ==
    ASSUME NEW m \in Messages, NEW v \in ViewType, CardFits(v), v.create = "sent",
           NEW rev \in 0..3, ShowsNext(v, rev)
    PROVE  LET w == settleCommandStatusProjection(m, v, rev)
           IN  w \in ViewType /\ CardFits(w) /\ ShowsNext(w, rev) /\ w.revision = v.revision
  <1> DEFINE noted == [v EXCEPT !.message = TRUE,
                                !.delivered = IF @ > rev THEN @ ELSE rev]
             owned == Kind[m] = "primary" => intent[m].gen = gen
  <1>1. PICK d \in {v.delivered, rev} : noted = [v EXCEPT !.message = TRUE, !.delivered = d]
    OBVIOUS
  <1>2. d \in 0..3 /\ d <= v.revision
    BY <1>1 DEF ViewType, CardFits, ShowsNext
  <1>3. /\ noted \in ViewType
        /\ noted.update = v.update /\ noted.revision = v.revision /\ noted.message
        /\ noted.delivered = d /\ noted.create = v.create /\ noted.createRev = v.createRev
    BY <1>1, <1>2 DEF ViewType
  <1>4. CardFits(noted) /\ ShowsNext(noted, rev)
    BY <1>2, <1>3 DEF CardFits, ShowsNext
  <1>5. noted.revision \in 0..3 /\ noted.delivered \in 0..3
    BY <1>3 DEF ViewType
  <1> HIDE DEF noted
  <1>6. CASE noted.revision > noted.delivered /\ owned
    <2>1. settleCommandStatusProjection(m, v, rev)
             = [noted EXCEPT !.update[noted.revision] = IF @ = "none" THEN "pending" ELSE @]
      BY <1>6 DEF settleCommandStatusProjection, noted
    <2>2. noted.revision >= 1
      BY <1>5, <1>6
    <2> QED BY <1>3, <1>4, <2>1, <2>2, EnqueueKeeps
  <1>7. CASE ~(noted.revision > noted.delivered /\ owned)
    <2>1. settleCommandStatusProjection(m, v, rev) = noted
      BY <1>7 DEF settleCommandStatusProjection, noted
    <2> QED BY <1>3, <1>4, <2>1
  <1> QED BY <1>6, <1>7
-----------------------------------------------------------------------------
\* A step that moves one card on, in order, keeps the cards.
LEMMA OneCardMoves ==
    ASSUME Cards, NEW m \in Messages, NEW w \in ViewType, NEW s \in 0..3,
           view' = [view EXCEPT ![m] = w], shown' = [shown EXCEPT ![m] = s],
           CardFits(w), ShowsNext(w, s), w.revision = StageOf(intent'[m].state),
           \A x \in Messages \ {m} : intent'[x].state = intent[x].state
    PROVE  Cards'
  <1>1. view' \in [Messages -> ViewType] /\ shown' \in [Messages -> 0..3]
    BY DEF Cards
  <1>2. ASSUME NEW x \in Messages
        PROVE  /\ view'[x].revision = StageOf(intent'[x].state)
               /\ CardFits(view'[x]) /\ ShowsNext(view'[x], shown'[x])
    <2>1. CASE x = m
      BY <2>1 DEF Cards
    <2>2. CASE x # m
      BY <2>2 DEF Cards
    <2> QED BY <2>1, <2>2
  <1>3. (\A x \in Messages : /\ view[x].revision = StageOf(intent[x].state)
                             /\ CardFits(view[x]) /\ ShowsNext(view[x], shown[x]))'
    BY <1>2 DEF CardFits, ShowsNext
  <1> QED BY <1>1, <1>3 DEF Cards

\* What the card of a message is known to be.
LEMMA CardOf ==
    ASSUME Cards, NEW m \in Messages
    PROVE  /\ view[m] \in ViewType /\ shown[m] \in 0..3 /\ view[m].revision = StageOf(intent[m].state)
           /\ CardFits(view[m]) /\ ShowsNext(view[m], shown[m])
           /\ view[m].update \in [Revisions -> ReplyStates]
           /\ view[m].revision \in 0..3 /\ view[m].createRev \in 0..3
  BY DEF Cards, ViewType

\* An intent that moves on by one stage moves its card on by one revision.
LEMMA StageKeepsCards ==
    ASSUME Cards, NEW m \in Messages, UNCHANGED shown,
           view' = [view EXCEPT ![m] = transitionStatus(m)],
           StageOf(intent[m].state) <= 2,
           StageOf(intent'[m].state) = StageOf(intent[m].state) + 1,
           \A x \in Messages \ {m} : intent'[x].state = intent[x].state
    PROVE  Cards' /\ ShownGrows
  <1>1. /\ transitionStatus(m) \in ViewType
        /\ CardFits(transitionStatus(m)) /\ ShowsNext(transitionStatus(m), shown[m])
        /\ transitionStatus(m).revision = StageOf(intent'[m].state)
    BY CardOf, TransitionKeeps
  <1>2. shown' = [shown EXCEPT ![m] = shown[m]]
    BY DEF Cards
  <1>3. Cards'
    BY <1>1, <1>2, CardOf, OneCardMoves
  <1> QED BY <1>3 DEF ShownGrows, Cards

\* Cards nobody touches stay as they are.
LEMMA CardsStand ==
    ASSUME Cards, UNCHANGED <<view, shown>>, \A x \in Messages : intent'[x].state = intent[x].state
    PROVE  Cards' /\ ShownGrows
  <1>1. Cards'
    BY DEF Cards, CardFits, ShowsNext
  <1> QED BY <1>1 DEF ShownGrows, Cards

\* Claiming a reply, or giving it up, leaves the card as far as it was.
LEMMA ReplyMoves ==
    ASSUME Cards, NEW m \in Messages, NEW w \in ViewType, UNCHANGED <<shown, intent>>,
           view' = [view EXCEPT ![m] = w], CardFits(w), ShowsNext(w, shown[m]),
           w.revision = view[m].revision
    PROVE  Cards' /\ ShownGrows
  <1>1. shown' = [shown EXCEPT ![m] = shown[m]]
    BY DEF Cards
  <1>2. Cards'
    BY <1>1, CardOf, OneCardMoves
  <1> QED BY <1>2 DEF ShownGrows, Cards

\* A new state for one reply.
LEMMA CreateState ==
    ASSUME NEW v \in ViewType, NEW new \in ReplyStates, NEW w, w = [v EXCEPT !.create = new]
    PROVE  /\ w \in ViewType /\ w.create = new /\ w.update = v.update /\ w.revision = v.revision
           /\ w.message = v.message /\ w.delivered = v.delivered /\ w.createRev = v.createRev
  BY DEF ViewType

LEMMA UpdateState ==
    ASSUME NEW v \in ViewType, NEW r \in Revisions, NEW new \in ReplyStates
    PROVE  LET w == [v EXCEPT !.update[r] = new]
           IN  /\ w \in ViewType /\ w.create = v.create
               /\ \A x \in Revisions : w.update[x] = IF x = r THEN new ELSE v.update[x]
               /\ w.revision = v.revision /\ w.message = v.message
               /\ w.delivered = v.delivered /\ w.createRev = v.createRev
  <1>1. v.update \in [Revisions -> ReplyStates]
    BY DEF ViewType
  <1>2. [v.update EXCEPT ![r] = new] \in [Revisions -> ReplyStates]
    BY <1>1
  <1> QED BY <1>1, <1>2 DEF ViewType

\* A creation that is claimed, refused for now, dismissed or lost.
LEMMA CreationMoves ==
    ASSUME Cards, NEW m \in Messages, view[m].create \in Unsettled, UNCHANGED <<shown, intent>>,
           NEW new \in {"pending", "inflight", "dismissed"},
           view' = [view EXCEPT ![m].create = new]
    PROVE  Cards' /\ ShownGrows
  <1> DEFINE w == [view[m] EXCEPT !.create = new]
  <1>1. /\ w \in ViewType /\ w.create = new /\ w.update = view[m].update
        /\ w.revision = view[m].revision
        /\ w.message = view[m].message /\ w.delivered = view[m].delivered
        /\ w.createRev = view[m].createRev
    BY CardOf, CreateState DEF ReplyStates
  <1>2. view' = [view EXCEPT ![m] = w]
    OBVIOUS
  <1> HIDE DEF w
  <1>3. ~view[m].message
    BY CardOf DEF CardFits, Unsettled
  <1>4. CardFits(w) /\ ShowsNext(w, shown[m])
    BY <1>1, <1>3, CardOf DEF CardFits, ShowsNext
  <1> QED BY <1>1, <1>2, <1>4, ReplyMoves

\* An update that is claimed at the head of its lane, dismissed or refused for now.
LEMMA UpdateMoves ==
    ASSUME Cards, NEW m \in Messages, NEW r \in Revisions, view[m].update[r] \in Unsettled,
           UNCHANGED <<shown, intent>>, NEW new \in {"pending", "inflight", "dismissed"},
           new = "inflight" => HeadUpdate(view[m], r),
           view' = [view EXCEPT ![m].update[r] = new]
    PROVE  Cards' /\ ShownGrows
  <1> DEFINE w == [view[m] EXCEPT !.update[r] = new]
  <1>1. /\ w \in ViewType /\ w.create = view[m].create
        /\ \A x \in Revisions : w.update[x] = IF x = r THEN new ELSE view[m].update[x]
        /\ w.revision = view[m].revision
        /\ w.message = view[m].message /\ w.delivered = view[m].delivered
        /\ w.createRev = view[m].createRev
    <2>1. view[m] \in ViewType /\ new \in ReplyStates
      BY CardOf DEF ReplyStates
    <2> QED BY <2>1, UpdateState
  <1>2. view' = [view EXCEPT ![m] = w]
    OBVIOUS
  <1> HIDE DEF w
  <1>3. CardFits(w)
    <2>1. view[m].update[r] # "none"
      BY DEF Unsettled
    <2>2. \A x \in Revisions : w.update[x] # "none" => w.message /\ x <= w.revision
      BY <1>1, <2>1, CardOf DEF CardFits
    <2>3. ASSUME NEW y \in Revisions, NEW x \in Revisions, w.update[y] = "inflight", x < y
          PROVE  w.update[x] \notin Unsettled
      <3>1. CASE y = r
        <4>1. view[m].update[x] \notin Unsettled /\ x # r
          BY <1>1, <2>3, <3>1 DEF HeadUpdate, Revisions
        <4> QED BY <1>1, <4>1
      <3>2. CASE y # r
        <4>1. view[m].update[y] = "inflight"
          BY <1>1, <2>3, <3>2
        <4>2. view[m].update[x] \notin Unsettled
          BY <2>3, <4>1, CardOf DEF CardFits
        <4> QED BY <1>1, <4>2
      <3> QED BY <3>1, <3>2
    <2> QED BY <1>1, <2>2, <2>3, CardOf DEF CardFits
  <1>4. ShowsNext(w, shown[m])
    BY <1>1, CardOf DEF ShowsNext, Unsettled
  <1> QED BY <1>1, <1>2, <1>3, <1>4, ReplyMoves
-----------------------------------------------------------------------------
\* Every step keeps the cards and shows no card an earlier revision.
LEMMA StepKeepsCards == IInv /\ Cards /\ [Next]_vars => Cards' /\ ShownGrows
  <1> SUFFICES ASSUME IInv, Cards, [Next]_vars PROVE Cards' /\ ShownGrows
    OBVIOUS
  <1> USE DEF inVars, cmdVars, cardVars
  <1>1. ASSUME UNCHANGED <<view, shown, intent>> PROVE Cards' /\ ShownGrows
    BY <1>1, CardsStand
  <1>2. ASSUME Recover PROVE Cards' /\ ShownGrows
    <2>1. ASSUME NEW m \in Messages
          PROVE  /\ view'[m] \in ViewType /\ CardFits(view'[m]) /\ ShowsNext(view'[m], shown[m])
                 /\ view'[m].revision = StageOf(intent'[m].state)
      <3>1. intent'[m].state = RecoveredState(intent[m].state)
        BY <1>2 DEF Recover, IInv, Shape
      <3>2. CASE intent[m].state = "executing"
        <4>1. view[m].revision = 2 /\ StageOf(intent'[m].state) = 3
          BY <3>1, <3>2, CardOf DEF StageOf, RecoveredState
        <4>2. view'[m] = transitionStatus(m)
          BY <1>2, <3>2 DEF Recover
        <4> QED BY <4>1, <4>2, CardOf, TransitionKeeps
      <3>3. CASE intent[m].state # "executing"
        <4>1. intent'[m].state = intent[m].state /\ view'[m] = view[m]
          BY <1>2, <3>1, <3>3 DEF Recover, RecoveredState
        <4> QED BY <4>1, CardOf
      <3> QED BY <3>2, <3>3
    <2>2. view' \in [Messages -> ViewType]
      <3>1. view' = [m \in Messages |-> view'[m]]
        BY <1>2 DEF Recover
      <3> QED BY <2>1, <3>1
    <2>3. shown' = shown
      BY <1>2 DEF Recover
    <2>4. (\A m \in Messages : /\ view[m].revision = StageOf(intent[m].state)
                               /\ CardFits(view[m]) /\ ShowsNext(view[m], shown[m]))'
      BY <2>1, <2>3 DEF CardFits, ShowsNext
    <2> QED BY <2>2, <2>3, <2>4 DEF Cards, ShownGrows
  <1>3. ASSUME Crash PROVE Cards' /\ ShownGrows
    <2>1. ASSUME NEW m \in Messages
          PROVE  /\ view'[m] \in ViewType /\ CardFits(view'[m]) /\ ShowsNext(view'[m], shown[m])
                 /\ view'[m].revision = view[m].revision
      <3>1. LostReply(view[m].create) \in ReplyStates
        BY CardOf DEF LostReply, ReplyStates, ViewType
      <3>2. [r \in Revisions |-> LostReply(view[m].update[r])] \in [Revisions -> ReplyStates]
        BY CardOf DEF LostReply, ReplyStates
      <3>3. view'[m] = [view[m] EXCEPT !.create = LostReply(view[m].create),
                          !.update = [r \in Revisions |-> LostReply(view[m].update[r])]]
        BY <1>3 DEF Crash
      <3>4. /\ view'[m] \in ViewType /\ view'[m].create = LostReply(view[m].create)
            /\ view'[m].update = [r \in Revisions |-> LostReply(view[m].update[r])]
            /\ view'[m].revision = view[m].revision
            /\ view'[m].message = view[m].message /\ view'[m].delivered = view[m].delivered
            /\ view'[m].createRev = view[m].createRev
        BY <3>1, <3>2, <3>3, CardOf DEF ViewType
      <3>5. \A r \in Revisions : view'[m].update[r] = LostReply(view[m].update[r])
        BY <3>4
      <3>6. CardFits(view'[m])
        BY <3>4, <3>5, CardOf DEF CardFits, LostReply, Unsettled
      <3>7. ShowsNext(view'[m], shown[m])
        BY <3>4, <3>5, CardOf DEF ShowsNext, LostReply, Unsettled
      <3> QED BY <3>4, <3>6, <3>7
    <2>2. view' \in [Messages -> ViewType]
      <3>1. view' = [m \in Messages |-> view'[m]]
        BY <1>3 DEF Crash
      <3> QED BY <2>1, <3>1
    <2>3. shown' = shown /\ intent' = intent
      BY <1>3 DEF Crash
    <2>4. (\A m \in Messages : /\ view[m].revision = StageOf(intent[m].state)
                               /\ CardFits(view[m]) /\ ShowsNext(view[m], shown[m]))'
      BY <2>1, <2>3, CardOf DEF CardFits, ShowsNext
    <2> QED BY <2>2, <2>3, <2>4 DEF Cards, ShownGrows
  <1>4. ASSUME NEW m \in Messages, RouteCommand(m) PROVE Cards' /\ ShownGrows
    <2>1. CASE mode = "closing" \/ intent[m].state # "none"
      BY <1>1, <1>4, <2>1 DEF RouteCommand, acceptCommandIntent
    <2>2. CASE mode # "closing" /\ intent[m].state = "none"
      <3>1. /\ intent' = [intent EXCEPT ![m] = [state |-> "accepted", gen |-> gen]]
            /\ view' = [view EXCEPT ![m] = transitionStatus(m)] /\ shown' = shown
        BY <1>4, <2>2 DEF RouteCommand, acceptCommandIntent
      <3>2. /\ intent'[m].state = "accepted"
            /\ \A x \in Messages \ {m} : intent'[x].state = intent[x].state
        BY <3>1 DEF IInv, Shape
      <3>3. /\ StageOf(intent[m].state) <= 2
            /\ StageOf(intent'[m].state) = StageOf(intent[m].state) + 1
        BY <2>2, <3>2 DEF StageOf
      <3> QED BY <3>1, <3>2, <3>3, StageKeepsCards
    <2> QED BY <2>1, <2>2
  <1>5. ASSUME NEW l \in Lanes, ClaimIntent(l) PROVE Cards' /\ ShownGrows
    <2>1. PICK m \in NextIntents(l) : /\ intent' = [intent EXCEPT ![m].state = "executing"]
                                      /\ view' = [view EXCEPT ![m] = transitionStatus(m)]
      BY <1>5 DEF ClaimIntent
    <2>2. m \in Messages /\ intent[m].state = "accepted" /\ shown' = shown
      BY <1>5, <2>1 DEF ClaimIntent, NextIntents, OfLane
    <2>3. /\ intent'[m].state = "executing"
          /\ \A x \in Messages \ {m} : intent'[x].state = intent[x].state
      BY <2>1, <2>2 DEF IInv, Shape
    <2>4. /\ StageOf(intent[m].state) <= 2
          /\ StageOf(intent'[m].state) = StageOf(intent[m].state) + 1
      BY <2>2, <2>3 DEF StageOf
    <2> QED BY <2>1, <2>2, <2>3, <2>4, StageKeepsCards
  <1>6. ASSUME NEW m \in Messages, NEW state \in Terminal, phase[m] # "none", finish(m, state),
               UNCHANGED shown
        PROVE  Cards' /\ ShownGrows
    <2>1. intent[m].state = "executing"
      BY <1>6 DEF IInv, DrainHasIntent
    <2>2. /\ intent'[m].state = state
          /\ \A x \in Messages \ {m} : intent'[x].state = intent[x].state
      BY <1>6 DEF finish, IInv, Shape
    <2>3. view' = [view EXCEPT ![m] = transitionStatus(m)]
      BY <1>6 DEF finish
    <2>4. /\ StageOf(intent[m].state) <= 2
          /\ StageOf(intent'[m].state) = StageOf(intent[m].state) + 1
      BY <2>1, <2>2 DEF StageOf, Terminal
    <2>5. shown' = shown
      BY <1>6
    <2> QED BY <2>2, <2>3, <2>4, <2>5, StageKeepsCards
  <1>7. ASSUME NEW m \in Messages, RejectStale(m) PROVE Cards' /\ ShownGrows
    BY <1>6, <1>7 DEF RejectStale, Terminal
  <1>8. ASSUME NEW m \in Messages, Settle(m) PROVE Cards' /\ ShownGrows
    BY <1>6, <1>8 DEF Settle
  <1>9. ASSUME NEW m \in Messages, ClaimCreate(m) PROVE Cards' /\ ShownGrows
    BY <1>9, CreationMoves DEF ClaimCreate, Claimed, Unsettled
  <1>10. ASSUME NEW m \in Messages, NEW r \in Revisions, ClaimUpdate(m, r)
         PROVE  Cards' /\ ShownGrows
    BY <1>10, UpdateMoves DEF ClaimUpdate, Claimed, Unsettled
  <1>11. ASSUME NEW m \in Messages, DeliveryFails(m) PROVE Cards' /\ ShownGrows
    <2>1. CASE view[m].create = "inflight" /\ view' = [view EXCEPT ![m].create = "pending"]
      BY <1>11, <2>1, CreationMoves DEF DeliveryFails, Unsettled
    <2>2. CASE \E r \in Revisions : /\ view[m].update[r] = "inflight"
                                    /\ view' = [view EXCEPT ![m].update[r] = "pending"]
      BY <1>11, <2>2, UpdateMoves DEF DeliveryFails, Unsettled
    <2> QED BY <1>11, <2>1, <2>2 DEF DeliveryFails
  <1>12. ASSUME NEW m \in Messages, DeliverCreate(m) PROVE Cards' /\ ShownGrows
    <2> DEFINE v == [view[m] EXCEPT !.create = "sent"]
               rev == view[m].createRev
               w == settleCommandStatusProjection(m, v, rev)
    <2>1. /\ v \in ViewType /\ v.create = "sent" /\ v.update = view[m].update
          /\ v.revision = view[m].revision /\ v.message = view[m].message
          /\ v.delivered = view[m].delivered /\ v.createRev = view[m].createRev
      BY CardOf, CreateState DEF ReplyStates
    <2>2. /\ view' = [view EXCEPT ![m] = w] /\ shown' = [shown EXCEPT ![m] = rev]
          /\ view[m].create = "inflight" /\ intent' = intent
      BY <1>12 DEF DeliverCreate
    <2>3. ~view[m].message /\ shown[m] = 0 /\ rev \in 0..3 /\ rev <= v.revision
      BY <2>1, <2>2, CardOf DEF CardFits, ShowsNext, Unsettled
    <2>4. \A r \in Revisions : v.update[r] = "none"
      BY <2>1, <2>3, CardOf DEF CardFits
    <2>5. CardFits(v) /\ ShowsNext(v, rev)
      BY <2>1, <2>3, <2>4, CardOf DEF CardFits, ShowsNext, Unsettled
    <2>6. w \in ViewType /\ CardFits(w) /\ ShowsNext(w, rev) /\ w.revision = v.revision
      BY <2>1, <2>3, <2>5, SettleKeeps
    <2> HIDE DEF v, w, rev
    <2>7. Cards'
      BY <2>1, <2>2, <2>3, <2>6, CardOf, OneCardMoves
    <2>8. shown[m] <= shown'[m]
      BY <2>2, <2>3 DEF Cards
    <2> QED BY <2>2, <2>7, <2>8 DEF ShownGrows, Cards
  <1>13. ASSUME NEW m \in Messages, NEW r \in Revisions, DeliverUpdate(m, r)
         PROVE  Cards' /\ ShownGrows
    <2> DEFINE v == [view[m] EXCEPT !.update[r] = "sent"]
               w == settleCommandStatusProjection(m, v, r)
    <2>1. /\ v \in ViewType /\ v.create = view[m].create
          /\ \A x \in Revisions : v.update[x] = IF x = r THEN "sent" ELSE view[m].update[x]
          /\ v.revision = view[m].revision /\ v.message = view[m].message
          /\ v.delivered = view[m].delivered /\ v.createRev = view[m].createRev
      <3>1. view[m] \in ViewType /\ "sent" \in ReplyStates
        BY CardOf DEF ReplyStates
      <3> QED BY <3>1, UpdateState
    <2>2. /\ view' = [view EXCEPT ![m] = w] /\ shown' = [shown EXCEPT ![m] = r]
          /\ view[m].update[r] = "inflight" /\ intent' = intent
      BY <1>13 DEF DeliverUpdate
    <2>3. /\ v.message /\ v.create = "sent" /\ r <= v.revision /\ shown[m] <= r
      BY <2>1, <2>2, CardOf DEF CardFits, ShowsNext, Unsettled
    <2>4. CardFits(v)
      BY <2>1, <2>3, CardOf DEF CardFits, Unsettled
    <2>5. ShowsNext(v, r)
      <3>1. ASSUME NEW x \in Revisions, v.update[x] \in Unsettled PROVE r <= x
        <4>1. x # r /\ view[m].update[x] \in Unsettled
          BY <2>1, <3>1 DEF Unsettled
        <4>2. ~(x < r)
          BY <2>2, <4>1, CardOf DEF CardFits
        <4> QED BY <4>2 DEF Revisions
      <3> QED BY <2>3, <3>1 DEF ShowsNext, Unsettled
    <2>6. r \in 0..3
      BY DEF Revisions
    <2>7. w \in ViewType /\ CardFits(w) /\ ShowsNext(w, r) /\ w.revision = v.revision
      BY <2>1, <2>3, <2>4, <2>5, <2>6, SettleKeeps
    <2> HIDE DEF v, w
    <2>8. Cards'
      BY <2>1, <2>2, <2>6, <2>7, CardOf, OneCardMoves
    <2>9. shown[m] <= shown'[m]
      BY <2>2, <2>3 DEF Cards
    <2> QED BY <2>2, <2>8, <2>9 DEF ShownGrows, Cards
  <1>14. ASSUME \/ PipelineStep \/ Listen \/ StartPipeline \/ CloseCommands \/ Exit
                \/ ScanAccepted \/ Stop \/ Rebind \/ UNCHANGED vars
         PROVE  Cards' /\ ShownGrows
    BY <1>1, <1>14
       DEF PipelineStep, StartPass, ClaimMessage, EndWorker, RetryTimer, Listen, StartPipeline,
           CloseCommands, Exit, ScanAccepted, Stop, Rebind, vars
  <1>15. ASSUME NEW m \in Messages,
                \/ Receive(m) \/ RouterStep(m) \/ ReleaseMessage(m) \/ Prune(m)
                \/ CommandStep(m) \/ DeliveryStep(m) \/ DeliveryFails(m)
         PROVE  Cards' /\ ShownGrows
    <2>1. CASE \/ Receive(m) \/ RouteWorker(m) \/ ReleaseMessage(m) \/ Prune(m)
               \/ markInboundMessageAccepted(m) \/ HandleHint(m) \/ Execute(m)
      BY <1>1, <2>1
         DEF Receive, RouteWorker, ReleaseMessage, markInboundMessageAccepted, Prune, HandleHint,
             Execute
    <2>2. CASE DeliveryStep(m)
      <3>1. CASE ClaimCreate(m) \/ DeliverCreate(m)
        BY <1>9, <1>12, <3>1
      <3>2. CASE \E r \in Revisions : ClaimUpdate(m, r) \/ DeliverUpdate(m, r)
        BY <1>10, <1>13, <3>2
      <3> QED BY <2>2, <3>1, <3>2 DEF DeliveryStep
    <2> QED BY <1>4, <1>7, <1>8, <1>11, <1>15, <2>1, <2>2 DEF RouterStep, CommandStep
  <1>16. ASSUME NEW l \in Lanes, LaneStep(l) PROVE Cards' /\ ShownGrows
    <2>1. CASE EndDrain(l)
      BY <1>1, <2>1 DEF EndDrain
    <2> QED BY <1>5, <1>16, <2>1 DEF LaneStep
  <1> QED
    BY <1>2, <1>3, <1>14, <1>15, <1>16 DEF Next, StartStopStep
-----------------------------------------------------------------------------
\* Every step keeps the times, the generations and the workers within their bounds.
LEMMA StepKeepsBounds == IInv /\ Bounds /\ [Next]_vars => Bounds'
  <1> SUFFICES ASSUME IInv, Bounds, [Next]_vars PROVE Bounds'
    OBVIOUS
  <1> USE DEF inVars, cmdVars, cardVars
  <1> DEFINE Worked == pass.live <= Concurrency
             Hinted == hints \subseteq Messages
             Filing == /\ filed \in [Messages -> 0..clock]
                       /\ \A m \in Messages : filed[m] = 0 <=> intent[m].state = "none"
             Generations == /\ gen >= 1
                            /\ \A m \in Messages : intent[m].gen <= gen /\ effects[m] \in Seq(1..gen)
  <1>1. Worked'
    <2>1. CASE UNCHANGED pass
      BY <2>1 DEF Bounds
    <2>2. CASE StartPass
      BY <2>2, ConstantsAssumption DEF StartPass, IInv, Shape
    <2>3. CASE EndWorker
      <3>1. pass'.live = pass.live - 1 /\ pass.live \in Nat
        BY <2>3 DEF EndWorker, IInv, Shape
      <3> QED BY <3>1, ConstantsAssumption DEF Bounds
    <2>4. CASE pass' = wake(pass) \/ \E b : pass' = [pass EXCEPT !.retry = b]
                                  \/ \E s : pass' = [pass EXCEPT !.blocked = s]
      BY <2>4 DEF wake, Bounds, IInv, Shape
    <2>5. CASE StartPipeline \/ Exit \/ Crash
      <3>1. pass'.live = 0
        <4>1. pass' = NoPass \/ pass' = [NoPass EXCEPT !.requested = TRUE]
          BY <2>5 DEF StartPipeline, Exit, Crash
        <4> QED BY <4>1 DEF NoPass
      <3> QED BY <3>1, ConstantsAssumption
    <2>6. CASE \/ ClaimMessage \/ RetryTimer \/ Recover \/ Listen \/ CloseCommands \/ ScanAccepted
               \/ Stop \/ Rebind \/ UNCHANGED vars
      BY <2>1, <2>4, <2>6 DEF ClaimMessage, RetryTimer, Recover, Listen, CloseCommands,
                              ScanAccepted, Stop, Rebind, vars
    <2>7. CASE \E l \in Lanes : LaneStep(l)
      BY <2>1, <2>7 DEF LaneStep, ClaimIntent, EndDrain
    <2>8. ASSUME NEW m \in Messages,
                 \/ Receive(m) \/ RouterStep(m) \/ ReleaseMessage(m) \/ Prune(m)
                 \/ CommandStep(m) \/ DeliveryStep(m) \/ DeliveryFails(m)
          PROVE  Worked'
      <3>1. CASE Receive(m) \/ ReleaseMessage(m)
        BY <2>4, <3>1 DEF Receive, ReleaseMessage
      <3>2. CASE RouterStep(m) \/ Prune(m) \/ CommandStep(m) \/ DeliveryStep(m) \/ DeliveryFails(m)
        BY <2>1, <3>2
           DEF RouterStep, RouteCommand, RouteWorker, markInboundMessageAccepted, Prune,
               CommandStep, HandleHint, Execute, RejectStale, Settle, DeliveryStep, ClaimCreate,
               DeliverCreate, ClaimUpdate, DeliverUpdate, DeliveryFails
      <3> QED BY <2>8, <3>1, <3>2
    <2> QED BY <2>2, <2>3, <2>5, <2>6, <2>7, <2>8 DEF Next, PipelineStep, StartStopStep
  <1>2. ASSUME UNCHANGED <<hints, filed, clock, gen, intent, effects>>
        PROVE  (Hinted /\ Filing /\ Generations)'
    BY <1>2 DEF Bounds
  <1>3. ASSUME UNCHANGED <<filed, clock, gen, effects>>, hints' \subseteq hints,
               \A m \in Messages : /\ intent'[m].gen = intent[m].gen
                                   /\ intent'[m].state = "none" <=> intent[m].state = "none"
        PROVE  (Hinted /\ Filing /\ Generations)'
    BY <1>3 DEF Bounds
  <1>4. ASSUME Recover PROVE (Hinted /\ Filing /\ Generations)'
    <2>1. ASSUME NEW m \in Messages
          PROVE  /\ intent'[m].gen = intent[m].gen
                 /\ intent'[m].state = "none" <=> intent[m].state = "none"
      <3>1. intent'[m] = [intent[m] EXCEPT !.state = RecoveredState(intent[m].state)]
        BY <1>4 DEF Recover
      <3> QED BY <3>1 DEF RecoveredState, IInv, Shape
    <2> QED BY <1>3, <1>4, <2>1 DEF Recover
  <1>5. ASSUME Crash \/ Exit PROVE (Hinted /\ Filing /\ Generations)'
    BY <1>3, <1>5 DEF Crash, Exit
  <1>6. ASSUME Rebind PROVE (Hinted /\ Filing /\ Generations)'
    <2>1. gen' = gen + 1 /\ gen \in Nat /\ UNCHANGED <<hints, filed, clock, intent, effects>>
      BY <1>6 DEF Rebind, IInv, Shape
    <2>2. ASSUME NEW m \in Messages
          PROVE  intent[m].gen <= gen' /\ effects[m] \in Seq(1..gen')
      <3>1. effects[m] \in Seq(1..gen) /\ intent[m].gen <= gen /\ intent[m].gen \in Nat
        BY DEF Bounds, IInv, Shape
      <3>2. \A i \in 1..Len(effects[m]) : effects[m][i] \in 1..gen'
        BY <2>1, <3>1
      <3> QED BY <2>1, <3>1, <3>2
    <2> QED BY <2>1, <2>2 DEF Bounds
  <1>7. ASSUME NEW m \in Messages, Receive(m) PROVE (Hinted /\ Filing /\ Generations)'
    <2>1. clock' = clock + 1 /\ clock \in Nat /\ UNCHANGED <<hints, filed, intent, gen, effects>>
      BY <1>7 DEF Receive, IInv, Shape
    <2>2. filed \in [Messages -> 0..clock']
      BY <2>1 DEF Bounds
    <2> QED BY <2>1, <2>2 DEF Bounds
  <1>8. ASSUME NEW m \in Messages, RouteCommand(m) PROVE (Hinted /\ Filing /\ Generations)'
    <2>1. Hinted'
      BY <1>8 DEF RouteCommand, Bounds
    <2>2. UNCHANGED <<gen, effects>>
      BY <1>8 DEF RouteCommand
    <2>3. CASE mode = "closing" \/ intent[m].state # "none"
      <3>1. UNCHANGED <<filed, clock, intent>>
        BY <1>8, <2>3 DEF RouteCommand, acceptCommandIntent
      <3> QED BY <2>1, <2>2, <3>1 DEF Bounds
    <2>4. CASE mode # "closing" /\ intent[m].state = "none"
      <3>1. /\ intent' = [intent EXCEPT ![m] = [state |-> "accepted", gen |-> gen]]
            /\ filed' = [filed EXCEPT ![m] = clock + 1] /\ clock' = clock + 1 /\ clock \in Nat
        BY <1>8, <2>4 DEF RouteCommand, acceptCommandIntent, IInv, Shape
      <3>2. filed' \in [Messages -> 0..clock']
        BY <3>1 DEF Bounds
      <3>3. \A x \in Messages : intent'[x] = IF x = m THEN [state |-> "accepted", gen |-> gen]
                                              ELSE intent[x]
        BY <3>1 DEF IInv, Shape
      <3>4. \A x \in Messages : filed'[x] = IF x = m THEN clock + 1 ELSE filed[x]
        BY <3>1 DEF Bounds
      <3>5. \A x \in Messages : filed'[x] = 0 <=> intent'[x].state = "none"
        BY <3>1, <3>3, <3>4 DEF Bounds
      <3>6. ASSUME NEW x \in Messages PROVE intent'[x].gen <= gen'
        <4>1. CASE x = m
          BY <2>2, <3>3, <4>1 DEF IInv, Shape
        <4>2. CASE x # m
          BY <2>2, <3>3, <4>2 DEF Bounds
        <4> QED BY <4>1, <4>2
      <3> QED BY <2>1, <2>2, <3>2, <3>5, <3>6 DEF Bounds
    <2> QED BY <2>3, <2>4
  <1>9. ASSUME NEW m \in Messages, NEW s \in IntentStates \ {"none"}, intent[m].state # "none",
               intent' = [intent EXCEPT ![m].state = s], UNCHANGED <<hints, filed, clock, gen, effects>>
        PROVE  (Hinted /\ Filing /\ Generations)'
    <2>1. \A x \in Messages : /\ intent'[x].gen = intent[x].gen
                              /\ intent'[x].state = "none" <=> intent[x].state = "none"
      BY <1>9 DEF IInv, Shape
    <2> QED BY <1>3, <1>9, <2>1
  <1>10. ASSUME NEW l \in Lanes, ClaimIntent(l) PROVE (Hinted /\ Filing /\ Generations)'
    <2>1. PICK m \in NextIntents(l) : intent' = [intent EXCEPT ![m].state = "executing"]
      BY <1>10 DEF ClaimIntent
    <2>2. m \in Messages /\ intent[m].state = "accepted"
      BY <2>1 DEF NextIntents, OfLane
    <2> QED BY <1>9, <1>10, <2>1, <2>2 DEF ClaimIntent, IntentStates
  <1>11. ASSUME NEW m \in Messages, RejectStale(m) \/ Settle(m)
         PROVE  (Hinted /\ Filing /\ Generations)'
    <2>1. PICK s \in Terminal : intent' = [intent EXCEPT ![m].state = s]
      BY <1>11 DEF RejectStale, Settle, finish, Terminal
    <2>2. intent[m].state = "executing"
      BY <1>11 DEF RejectStale, Settle, IInv, DrainHasIntent
    <2> QED BY <1>9, <1>11, <2>1, <2>2 DEF RejectStale, Settle, IntentStates, Terminal
  <1>12. ASSUME NEW m \in Messages, Execute(m) PROVE (Hinted /\ Filing /\ Generations)'
    <2>1. effects' = [effects EXCEPT ![m] = Append(effects[m], gen)]
          /\ UNCHANGED <<hints, filed, clock, gen, intent>>
      BY <1>12 DEF Execute
    <2>2. gen \in 1..gen
      BY DEF Bounds, IInv, Shape
    <2>3. Append(effects[m], gen) \in Seq(1..gen)
      BY <2>2 DEF Bounds
    <2>4. \A x \in Messages : effects'[x] \in Seq(1..gen)
      BY <2>1, <2>3 DEF Bounds, IInv, Shape
    <2> QED BY <2>1, <2>4 DEF Bounds
  <1>13. ASSUME NEW m \in Messages, HandleHint(m) PROVE (Hinted /\ Filing /\ Generations)'
    BY <1>3, <1>13 DEF HandleHint
  <1>14. ASSUME \/ PipelineStep \/ Listen \/ StartPipeline \/ CloseCommands \/ ScanAccepted
                \/ Stop \/ UNCHANGED vars
         PROVE  (Hinted /\ Filing /\ Generations)'
    BY <1>2, <1>14
       DEF PipelineStep, StartPass, ClaimMessage, EndWorker, RetryTimer, Listen, StartPipeline,
           CloseCommands, ScanAccepted, Stop, vars
  <1>15. ASSUME NEW m \in Messages,
                \/ Receive(m) \/ RouterStep(m) \/ ReleaseMessage(m) \/ Prune(m)
                \/ CommandStep(m) \/ DeliveryStep(m) \/ DeliveryFails(m)
         PROVE  (Hinted /\ Filing /\ Generations)'
    <2>1. CASE \/ RouteWorker(m) \/ markInboundMessageAccepted(m) \/ ReleaseMessage(m)
               \/ Prune(m) \/ DeliveryStep(m) \/ DeliveryFails(m)
      BY <1>2, <2>1
         DEF RouteWorker, ReleaseMessage, markInboundMessageAccepted, Prune, DeliveryStep,
             ClaimCreate, DeliverCreate, ClaimUpdate, DeliverUpdate, DeliveryFails
    <2> QED BY <1>7, <1>8, <1>11, <1>12, <1>13, <1>15, <2>1 DEF RouterStep, CommandStep
  <1>16. ASSUME NEW l \in Lanes, LaneStep(l) PROVE (Hinted /\ Filing /\ Generations)'
    <2>1. CASE EndDrain(l)
      BY <1>2, <2>1 DEF EndDrain
    <2> QED BY <1>10, <1>16, <2>1 DEF LaneStep
  <1>17. (Hinted /\ Filing /\ Generations)'
    BY <1>4, <1>5, <1>6, <1>14, <1>15, <1>16 DEF Next, StartStopStep
  <1> QED BY <1>1, <1>17 DEF Bounds

\* The cards and the bounds hold at the start.
LEMMA CardsAtFirst == Init => Cards /\ Bounds
  <1> SUFFICES ASSUME Init PROVE Cards /\ Bounds
    OBVIOUS
  <1>1. NoView \in ViewType /\ NoView.revision = 0
    BY DEF NoView, ViewType, ReplyStates
  <1>2. CardFits(NoView) /\ ShowsNext(NoView, 0)
    BY DEF NoView, CardFits, ShowsNext, Unsettled
  <1>3. Cards
    BY <1>1, <1>2 DEF Init, Cards, StageOf
  <1>4. Bounds
    BY ConstantsAssumption DEF Init, Bounds, NoPass
  <1> QED BY <1>3, <1>4

\* The cards follow their commands.
LEMMA CardsHold == Spec => []Cards
  BY CardsAtFirst, StepKeepsCards, InvariantHolds, PTL DEF Spec

\* However the acknowledgements, the refusals and the revisions of its view overtake each other,
\* and whatever the process dies in, a status card is never taken back to a revision it has passed.
THEOREM CardNeverGoesBack == Spec => NeverBack
  <1>1. IInv /\ Cards /\ [Next]_vars => [ShownGrows]_shown
    BY StepKeepsCards
  <1> QED BY <1>1, InvariantHolds, CardsHold, PTL DEF Spec, NeverBack

\* The shape of the state: no more workers than the concurrency the pipeline is given, at most
\* three revisions of a status view, times and generations not ahead of the clock and the session.
THEOREM TypeCorrect == Spec => []TypeOK
  <1>1. Spec => []Bounds
    BY CardsAtFirst, StepKeepsBounds, InvariantHolds, PTL DEF Spec
  <1>2. IInv /\ Cards /\ Bounds => TypeOK
    <2> SUFFICES ASSUME IInv, Cards, Bounds PROVE TypeOK
      OBVIOUS
    <2>1. arrived \in [Messages -> 0..clock]
      BY DEF IInv, Shape, RowsHaveTimes
    <2>2. pass \in [live : 0..Concurrency, blocked : SUBSET Scopes,
                    requested : BOOLEAN, retry : BOOLEAN]
      BY ConstantsAssumption DEF IInv, Shape, Bounds
    <2>3. ASSUME NEW m \in Messages
          PROVE  /\ intent[m].state \in {"none", "accepted", "executing"} \cup Terminal
                 /\ intent[m].gen \in 0..gen
                 /\ effects[m] \in Seq(1..gen)
                 /\ view[m].create \in ReplyStates
                 /\ view[m].update \in [Revisions -> ReplyStates]
                 /\ view[m].revision \in 0..3
      <3>1. intent[m].state \in IntentStates /\ intent[m].gen \in 0..gen
        BY DEF IInv, Shape, Bounds
      <3>2. view[m] \in ViewType
        BY DEF Cards
      <3> QED BY <3>1, <3>2 DEF Bounds, ViewType, IntentStates
    <2> QED BY <2>1, <2>2, <2>3 DEF TypeOK, IInv, Shape, Bounds, Cards, RowsHaveTimes
  <1> QED BY <1>1, <1>2, InvariantHolds, CardsHold, PTL
=============================================================================
