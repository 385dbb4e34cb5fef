--------------------------- MODULE SwarmCommands ---------------------------
(***************************************************************************)
(* From a Lark message to the effect of a Swarm command and back to the    *)
(* command's status card.                                                  *)
(*                                                                         *)
(*   gateway --receive--> inbound_messages --route--> swarm_command_intents *)
(*        (DurableInboundPipeline)            (SwarmCommandGateway)         *)
(*   swarm_command_intents --claim--> effect --> command_status_views -->  *)
(*        (CommandIntentDispatcher)          status card in the outbox     *)
(*                                                                         *)
(* A message is known by its number.  Both tables are ordered by the time  *)
(* of insertion, and the clock advances with every insertion: two never    *)
(* share a millisecond here.  The intent of a message is keyed by the      *)
(* message ("lark-message:<id>"), so it is filed under its number.         *)
(*                                                                         *)
(* Kind[m] says how the router takes m: "primary" is a mutation of a bound *)
(* session, "global" one outside any session, "worker" a message for a     *)
(* worker thread, which has no intent and may be deferred.  Hopeless is    *)
(* the set of messages the router never takes: no capacity ever frees up.  *)
(***************************************************************************)
EXTENDS Naturals, Sequences, FiniteSets

CONSTANTS
    Messages,        \* the messages the gateway may deliver
    Kind,            \* [Messages -> {"primary", "global", "worker"}]
    ScopeOf,         \* the Lark conversation of a message
    LaneOf,          \* the command lane of a message's intent
    Hopeless,        \* messages whose routing never succeeds
    Concurrency,     \* INBOUND_DISPATCH_CONCURRENCY
    Scenarios        \* bounds: the messages that arrive, and how often retention
                     \* prunes, a call fails, the process ends, the session moves on

ASSUME ConstantsAssumption ==
    /\ Kind \in [Messages -> {"primary", "global", "worker"}]
    /\ DOMAIN ScopeOf = Messages
    /\ DOMAIN LaneOf = Messages
    /\ Hopeless \subseteq {m \in Messages : Kind[m] = "worker"}
    /\ Concurrency \in Nat \ {0}
    /\ Scenarios \subseteq [arrive : SUBSET Messages, prune : Nat, fault : Nat,
                             restart : Nat, rebind : Nat]

VARIABLES
    mode,       \* where the process is between start and stop, see Modes
    inbox,      \* state of the row of inbound_messages
    arrived,    \* created_at of the row of inbound_messages, 0 without a row
    step,       \* how far the router is with a claimed message (volatile)
    pass,       \* the inbound drain: live workers, blocked scopes, wake-ups (volatile)
    intent,     \* the row of swarm_command_intents: its state and the frozen generation
    filed,      \* created_at of the row of swarm_command_intents
    phase,      \* how far the dispatcher is with a claimed intent (volatile)
    drain,      \* the lanes with a drainLane promise (volatile)
    hints,      \* "swarm-command-ready" hints on the way (volatile)
    view,       \* the row of command_status_views and its outbound replies
    shown,      \* the revision Lark shows, 0 for no card (external)
    effects,    \* for which generation a command's effect ran (external)
    gen,        \* generation of the bound session
    clock,      \* now() of the last insertion
    left        \* what remains of the scenario

inVars == <<inbox, arrived, step, pass>>
cmdVars == <<intent, filed, phase, drain, hints>>
cardVars == <<view, shown>>
vars == <<mode, inVars, cmdVars, cardVars, effects, gen, clock, left>>

Lanes == {LaneOf[m] : m \in Messages}
Scopes == {ScopeOf[m] : m \in Messages}
Commands == {m \in Messages : Kind[m] # "worker"}
CommandLanes == {LaneOf[m] : m \in Commands}

(* "recovering" is startup recovery, "listening" has the gateway and the    *)
(* dispatcher running, "up" the inbound pipeline too; an orderly stop takes *)
(* the pipeline down in "stopping" and the dispatcher in "closing".         *)
Modes == {"down", "recovering", "listening", "up", "stopping", "closing"}

(* An intent is accepted, executing and then terminal: "settled" stands for *)
(* succeeded, rejected and failed, which differ in what the card says.      *)
Terminal == {"settled", "uncertain"}

(* The revisions of a status view: accepted, executing, terminal. *)
Revisions == 1..3

Spend(bound) == left[bound] > 0 /\ left' = [left EXCEPT ![bound] = @ - 1]

-----------------------------------------------------------------------------
(* The status card of an intent. *)

(* createAcceptedCommandStatusView, before anything is enqueued.  "create"  *)
(* and "update" hold the states of the outbound replies: an update has its  *)
(* revision for a key, the creation is enqueued once with createRev.        *)
NoView == [revision |-> 0, message |-> FALSE, delivered |-> 0,
           create |-> "none", createRev |-> 0,
           update |-> [r \in Revisions |-> "none"]]

(* hasExactActiveBinding: the session is still of the frozen generation.    *)
(* A global command has no session to ask for.                              *)
ExactBinding(m) == Kind[m] = "primary" => intent'[m].gen = gen

(* projectStatus: the creation is enqueued when there is none; once it is   *)
(* planned, and reserving plans it in the same transaction, only its        *)
(* acknowledgement lets a later revision out.  With a message every         *)
(* revision is an update of its own.                                        *)
projectStatus(m, v) ==
    IF ~ExactBinding(m) THEN v
    ELSE IF v.message THEN [v EXCEPT !.update[v.revision] =
                               IF @ = "none" THEN "pending" ELSE @]
    ELSE IF v.create = "none" THEN [v EXCEPT !.create = "pending",
                                             !.createRev = v.revision]
    ELSE v

(* saveStatus with the next revision, then projectStatus *)
transitionStatus(m) == projectStatus(m, [view[m] EXCEPT !.revision = @ + 1])

(* The delivery engine: the lane of a card delivers its replies in order.   *)
Unsettled == {"pending", "inflight"}

HeadUpdate(v, r) ==
    /\ v.update[r] \in Unsettled
    /\ v.create \notin Unsettled
    /\ \A q \in Revisions : q < r => v.update[q] \notin Unsettled

(* currentPrimaryTargetSql and currentPrimaryOwnerSql: a reply of a bound   *)
(* session is claimed only while it carries the view's latest revision.     *)
CurrentTarget(m, rev) ==
    Kind[m] = "primary" => view[m].revision = rev /\ intent[m].gen = gen

Claimed(m, rev) == IF CurrentTarget(m, rev) THEN "inflight" ELSE "dismissed"

(* claimGenericPrimaryDelivery, and dismissStaleGenericPrimaryDelivery for  *)
(* what may not be claimed any more                                         *)
ClaimCreate(m) ==
    /\ mode # "down"
    /\ view[m].create = "pending"
    /\ view' = [view EXCEPT ![m].create = Claimed(m, view[m].createRev)]
    /\ UNCHANGED <<mode, inVars, cmdVars, shown, effects, gen, clock, left>>

ClaimUpdate(m, r) ==
    /\ mode # "down"
    /\ view[m].update[r] = "pending"
    /\ HeadUpdate(view[m], r)
    /\ view' = [view EXCEPT ![m].update[r] = Claimed(m, r)]
    /\ UNCHANGED <<mode, inVars, cmdVars, shown, effects, gen, clock, left>>

(* Faulty variant: the acknowledgement is noted and nothing catches up. *)
settleWithoutCatchUp(m, v, rev) ==
    [v EXCEPT !.message = TRUE, !.delivered = IF @ > rev THEN @ ELSE rev]

(* settleCommandStatusProjection: note the delivered revision and, when the *)
(* view has moved on meanwhile, enqueue the latest one.                     *)
settleCommandStatusProjection(m, v, rev) ==
    LET noted == [v EXCEPT !.message = TRUE,
                           !.delivered = IF @ > rev THEN @ ELSE rev]
        owned == Kind[m] = "primary" => intent[m].gen = gen
    IN  IF noted.revision > noted.delivered /\ owned
        THEN [noted EXCEPT !.update[noted.revision] =
                 IF @ = "none" THEN "pending" ELSE @]
        ELSE noted

(* The gateway took the reply and the engine recorded the acknowledgement. *)
DeliverCreate(m) ==
    /\ mode # "down"
    /\ view[m].create = "inflight"
    /\ shown' = [shown EXCEPT ![m] = view[m].createRev]
    /\ view' = [view EXCEPT ![m] = settleCommandStatusProjection(
                   m, [view[m] EXCEPT !.create = "sent"], view[m].createRev)]
    /\ UNCHANGED <<mode, inVars, cmdVars, effects, gen, clock, left>>

DeliverUpdate(m, r) ==
    /\ mode # "down"
    /\ view[m].update[r] = "inflight"
    /\ shown' = [shown EXCEPT ![m] = r]
    /\ view' = [view EXCEPT ![m] = settleCommandStatusProjection(
                   m, [view[m] EXCEPT !.update[r] = "sent"], r)]
    /\ UNCHANGED <<mode, inVars, cmdVars, effects, gen, clock, left>>

(* The gateway refused the reply for now: it waits for its next attempt. *)
DeliveryFails(m) ==
    /\ mode # "down"
    /\ \/ /\ view[m].create = "inflight"
          /\ view' = [view EXCEPT ![m].create = "pending"]
       \/ \E r \in Revisions :
             /\ view[m].update[r] = "inflight"
             /\ view' = [view EXCEPT ![m].update[r] = "pending"]
    /\ Spend("fault")
    /\ UNCHANGED <<mode, inVars, cmdVars, shown, effects, gen, clock>>

-----------------------------------------------------------------------------
(* The inbound pipeline. *)

Active == {m \in Messages : step[m] # "idle"}

(* recordInboundMessage: a row of the same message makes it a duplicate *)
Recordable(m) == inbox[m] = "absent"

(* receive: record the message and wake the drain, which is deaf until the  *)
(* pipeline has started                                                     *)
wake(p) == IF mode = "up" THEN [p EXCEPT !.requested = TRUE, !.retry = FALSE] ELSE p

Receive(m) ==
    /\ mode \in {"listening", "up"}
    /\ m \in left.arrive
    /\ Recordable(m)
    /\ inbox' = [inbox EXCEPT ![m] = "received"]
    /\ arrived' = [arrived EXCEPT ![m] = clock + 1]
    /\ clock' = clock + 1
    /\ pass' = wake(pass)
    /\ UNCHANGED <<mode, step, cmdVars, cardVars, effects, gen, left>>

(* CoalescingDrain.run: one pass at a time, another when it was asked for *)
StartPass ==
    /\ mode = "up"
    /\ pass.live = 0
    /\ pass.requested
    /\ pass' = [pass EXCEPT !.live = Concurrency, !.blocked = {}, !.requested = FALSE]
    /\ UNCHANGED <<mode, inbox, arrived, step, cmdVars, cardVars, effects, gen, clock, left>>

(* Faulty variant: only the failed conversations are left alone. *)
BlockedScopesOnly == pass.blocked

(* The scopes a worker leaves alone: the ones that failed in this pass and  *)
(* the ones another worker is routing a message of.                         *)
ExcludedScopes == pass.blocked \cup {ScopeOf[m] : m \in Active}

(* claimNextInboundMessage: the rows that wait in no excluded scope, of     *)
(* which it takes the oldest                                               *)
Claimable == {m \in Messages : inbox[m] = "received" /\ ScopeOf[m] \notin ExcludedScopes}

IdleWorker == pass.live > Cardinality(Active)

ClaimMessage ==
    /\ mode = "up"
    /\ IdleWorker
    /\ \E m \in Claimable :
          /\ \A x \in Claimable : arrived[m] <= arrived[x]
          /\ inbox' = [inbox EXCEPT ![m] = "processing"]
          /\ step' = [step EXCEPT ![m] = "routing"]
    /\ UNCHANGED <<mode, arrived, pass, cmdVars, cardVars, effects, gen, clock, left>>

(* Faulty variant: a pass that failed does not schedule its retry. *)
EndWorkerWithoutRetry ==
    /\ IdleWorker
    /\ mode = "up" => Claimable = {}
    /\ pass' = [pass EXCEPT !.live = @ - 1]
    /\ UNCHANGED <<mode, inbox, arrived, step, cmdVars, cardVars, effects, gen, clock, left>>

(* drainWorker returns; the last one of the pass schedules the retry *)
EndWorker ==
    /\ IdleWorker
    /\ mode = "up" => Claimable = {}
    /\ pass' = [pass EXCEPT !.live = @ - 1,
                            !.retry = IF pass.live > 1 THEN @
                                      ELSE pass.blocked # {} /\ mode = "up"]
    /\ UNCHANGED <<mode, inbox, arrived, step, cmdVars, cardVars, effects, gen, clock, left>>

RetryTimer ==
    /\ mode = "up"
    /\ pass.retry
    /\ pass' = wake(pass)
    /\ UNCHANGED <<mode, inbox, arrived, step, cmdVars, cardVars, effects, gen, clock, left>>

(* acceptCommandIntent inserts the intent with its frozen context, its      *)
(* status view and the card's creation; a second time it finds a duplicate, *)
(* or a conflict when the context has changed, and changes nothing.         *)
acceptCommandIntent(m) ==
    IF intent[m].state = "none"
    THEN /\ intent' = [intent EXCEPT ![m] = [state |-> "accepted", gen |-> gen]]
         /\ filed' = [filed EXCEPT ![m] = clock + 1]
         /\ clock' = clock + 1
         /\ view' = [view EXCEPT ![m] = transitionStatus(m)]
    ELSE UNCHANGED <<intent, filed, clock, view>>

(* submit: a gateway that is closing rejects the command, and the router    *)
(* is done with a rejected message.  Otherwise the dispatcher gets a hint,  *)
(* unless the intent was a conflict.                                        *)
RouteCommand(m) ==
    /\ step[m] = "routing"
    /\ Kind[m] # "worker"
    /\ step' = [step EXCEPT ![m] = "routed"]
    /\ IF mode = "closing"
       THEN UNCHANGED <<intent, filed, clock, view, hints>>
       ELSE /\ acceptCommandIntent(m)
            /\ hints' = IF ExactBinding(m) THEN hints \cup {m} ELSE hints
    /\ UNCHANGED <<mode, inbox, arrived, pass, phase, drain, shown, effects, gen, left>>

RouteWorker(m) ==
    /\ step[m] = "routing"
    /\ Kind[m] = "worker"
    /\ m \notin Hopeless
    /\ step' = [step EXCEPT ![m] = "routed"]
    /\ UNCHANGED <<mode, inbox, arrived, pass, cmdVars, cardVars, effects, gen, clock, left>>

markInboundMessageAccepted(m) ==
    /\ step[m] = "routed"
    /\ inbox' = [inbox EXCEPT ![m] = "accepted"]
    /\ step' = [step EXCEPT ![m] = "idle"]
    /\ UNCHANGED <<mode, arrived, pass, cmdVars, cardVars, effects, gen, clock, left>>

(* deferInboundMessage and releaseInboundMessage: the row waits again and   *)
(* its scope is left alone until the next pass.                             *)
ReleaseMessage(m) ==
    /\ step[m] # "idle"
    /\ IF m \in Hopeless THEN UNCHANGED left ELSE Spend("fault")
    /\ inbox' = [inbox EXCEPT ![m] = "received"]
    /\ step' = [step EXCEPT ![m] = "idle"]
    /\ pass' = [pass EXCEPT !.blocked = @ \cup {ScopeOf[m]}]
    /\ UNCHANGED <<mode, arrived, cmdVars, cardVars, effects, gen, clock>>

(* pruneAcceptedInboundMessages: the gateway may deliver the message again *)
Prune(m) ==
    /\ mode = "up"
    /\ inbox[m] = "accepted"
    /\ inbox' = [inbox EXCEPT ![m] = "absent"]
    /\ arrived' = [arrived EXCEPT ![m] = 0]
    /\ Spend("prune")
    /\ UNCHANGED <<mode, step, pass, cmdVars, cardVars, effects, gen, clock>>

-----------------------------------------------------------------------------
(* The dispatcher. *)

Accepting == mode \in {"listening", "up", "stopping"}

(* drainLane: a promise chained behind the lane's running one.  A running   *)
(* drain claims until nothing is left, so it does the chained one's work.   *)
drainLanes(lanes) == drain' = drain \cup lanes

HandleHint(m) ==
    /\ m \in hints
    /\ hints' = hints \ {m}
    /\ drainLanes(IF Accepting /\ intent[m].state = "accepted" THEN {LaneOf[m]} ELSE {})
    /\ UNCHANGED <<mode, inVars, intent, filed, phase, cardVars, effects, gen, clock, left>>

(* Faulty variant: the scan looks at the intents it has hints for. *)
ScannedLanesHinted == {LaneOf[m] : m \in {x \in hints : intent[x].state = "accepted"}}

(* listRecoverable, and of it the lanes with an accepted intent *)
ScannedLanes == {LaneOf[m] : m \in {x \in Messages : intent[x].state = "accepted"}}

ScanAccepted ==
    /\ Accepting
    /\ ScannedLanes # {}
    /\ drainLanes(ScannedLanes)
    /\ UNCHANGED <<mode, inVars, intent, filed, phase, hints, cardVars, effects, gen, clock, left>>

OfLane(l) == {m \in Messages : LaneOf[m] = l}
LaneIdle(l) == \A m \in OfLane(l) : phase[m] = "none"

(* claimNext: the lane's accepted intents, of which it takes the oldest,    *)
(* while none executes                                                      *)
NextIntents(l) ==
    IF \E m \in OfLane(l) : intent[m].state = "executing" THEN {}
    ELSE {m \in OfLane(l) : intent[m].state = "accepted"}

ClaimIntent(l) ==
    /\ l \in drain
    /\ LaneIdle(l)
    /\ \E m \in NextIntents(l) :
          /\ \A x \in NextIntents(l) : filed[m] <= filed[x]
          /\ intent' = [intent EXCEPT ![m].state = "executing"]
          /\ phase' = [phase EXCEPT ![m] = "claimed"]
          /\ view' = [view EXCEPT ![m] = transitionStatus(m)]
    /\ UNCHANGED <<mode, inVars, filed, drain, hints, shown, effects, gen, clock, left>>

EndDrain(l) ==
    /\ l \in drain
    /\ LaneIdle(l)
    /\ NextIntents(l) = {}
    /\ drain' = drain \ {l}
    /\ UNCHANGED <<mode, inVars, intent, filed, phase, hints, cardVars, effects, gen, clock, left>>

(* finish: the terminal state with its status revision *)
finish(m, state) ==
    /\ intent' = [intent EXCEPT ![m].state = state]
    /\ phase' = [phase EXCEPT ![m] = "none"]
    /\ view' = [view EXCEPT ![m] = transitionStatus(m)]

(* sameFrozenPrimary *)
FrozenContextHolds(m) == Kind[m] = "primary" => intent[m].gen = gen

(* executeMutation up to its effect *)
Execute(m) ==
    /\ phase[m] = "claimed"
    /\ FrozenContextHolds(m)
    /\ effects' = [effects EXCEPT ![m] = Append(@, gen)]
    /\ phase' = [phase EXCEPT ![m] = "acting"]
    /\ UNCHANGED <<mode, inVars, intent, filed, drain, hints, cardVars, gen, clock, left>>

(* a bound command is refused when the session has moved on; a command of   *)
(* the active turn also when the turn has, so it may be refused anyway      *)
RejectStale(m) ==
    /\ phase[m] = "claimed"
    /\ Kind[m] = "primary"
    /\ finish(m, "settled")
    /\ UNCHANGED <<mode, inVars, filed, drain, hints, shown, effects, gen, clock, left>>

(* the operation returned, was refused, or threw after its effect may have  *)
(* started                                                                  *)
Settle(m) ==
    /\ phase[m] = "acting"
    /\ \E state \in Terminal : finish(m, state)
    /\ UNCHANGED <<mode, inVars, filed, drain, hints, shown, effects, gen, clock, left>>

-----------------------------------------------------------------------------
(* Start, stop and crash of the process; the session moves on. *)

NoPass == [live |-> 0, blocked |-> {}, requested |-> FALSE, retry |-> FALSE]

(* Faulty variant: an interrupted command is accepted again. *)
ReplayedState(s) == IF s = "executing" THEN "accepted" ELSE s

(* recoverExecuting: what was executing is uncertain and never replayed *)
RecoveredState(s) == IF s = "executing" THEN "uncertain" ELSE s

(* performRuntimeRecovery: interrupted messages wait again, interrupted     *)
(* commands are uncertain, the lanes of accepted ones are drained.          *)
Recover ==
    /\ mode = "down"
    /\ mode' = "recovering"
    /\ inbox' = [m \in Messages |-> IF inbox[m] = "processing" THEN "received" ELSE inbox[m]]
    /\ intent' = [m \in Messages |-> [intent[m] EXCEPT !.state = RecoveredState(@)]]
    /\ view' = [m \in Messages |-> IF intent[m].state = "executing"
                                   THEN transitionStatus(m) ELSE view[m]]
    /\ drainLanes(ScannedLanes)
    /\ UNCHANGED <<arrived, step, pass, filed, phase, hints, shown, effects, gen, clock, left>>

(* start, once recovery's own scan has drained: the dispatcher accepts      *)
(* hints and scans, the gateway delivers.                                   *)
Listen ==
    /\ mode = "recovering"
    /\ drain = {}
    /\ mode' = "listening"
    /\ UNCHANGED <<inVars, cmdVars, cardVars, effects, gen, clock, left>>

StartPipeline ==
    /\ mode = "listening"
    /\ mode' = "up"
    /\ pass' = [NoPass EXCEPT !.requested = TRUE]
    /\ UNCHANGED <<inbox, arrived, step, cmdVars, cardVars, effects, gen, clock, left>>

(* InboundRouter.stop: no ingress and no retry timer from here on *)
Stop ==
    /\ mode = "up"
    /\ mode' = "stopping"
    /\ pass' = [pass EXCEPT !.retry = FALSE]
    /\ Spend("restart")
    /\ UNCHANGED <<inbox, arrived, step, cmdVars, cardVars, effects, gen, clock>>

(* Faulty variant: the commands are stopped beside the pipeline. *)
CloseCommandsAtOnce ==
    /\ mode = "stopping"
    /\ mode' = "closing"
    /\ UNCHANGED <<inVars, cmdVars, cardVars, effects, gen, clock, left>>

(* the running pass has ended; only then the commands are stopped *)
CloseCommands ==
    /\ mode = "stopping"
    /\ pass.live = 0
    /\ mode' = "closing"
    /\ UNCHANGED <<inVars, cmdVars, cardVars, effects, gen, clock, left>>

InFlight(v) == v.create = "inflight" \/ \E r \in Revisions : v.update[r] = "inflight"

Exit ==
    /\ mode = "closing"
    /\ drain = {}
    /\ \A m \in Messages : ~InFlight(view[m])
    /\ mode' = "down"
    /\ hints' = {}
    /\ pass' = NoPass
    /\ UNCHANGED <<inbox, arrived, step, intent, filed, phase, drain, cardVars, effects, gen, clock, left>>

(* A reply under way when the process dies may or may not have been shown:  *)
(* nobody sends it again without an operator.                               *)
LostReply(s) == IF s = "inflight" THEN "lost" ELSE s

Crash ==
    /\ mode # "down"
    /\ mode' = "down"
    /\ step' = [m \in Messages |-> "idle"]
    /\ phase' = [m \in Messages |-> "none"]
    /\ drain' = {}
    /\ hints' = {}
    /\ pass' = NoPass
    /\ view' = [m \in Messages |->
                  [view[m] EXCEPT !.create = LostReply(@),
                                  !.update = [r \in Revisions |-> LostReply(@[r])]]]
    /\ Spend("restart")
    /\ UNCHANGED <<inbox, arrived, intent, filed, shown, effects, gen, clock>>

(* another workflow replaces the session a command was addressed to *)
Rebind ==
    /\ mode = "up"
    /\ gen' = gen + 1
    /\ Spend("rebind")
    /\ UNCHANGED <<mode, inVars, cmdVars, cardVars, effects, clock>>

-----------------------------------------------------------------------------
Init ==
    /\ mode = "down"
    /\ inbox = [m \in Messages |-> "absent"]
    /\ arrived = [m \in Messages |-> 0]
    /\ step = [m \in Messages |-> "idle"]
    /\ pass = NoPass
    /\ intent = [m \in Messages |-> [state |-> "none", gen |-> 0]]
    /\ filed = [m \in Messages |-> 0]
    /\ phase = [m \in Messages |-> "none"]
    /\ drain = {}
    /\ hints = {}
    /\ view = [m \in Messages |-> NoView]
    /\ shown = [m \in Messages |-> 0]
    /\ effects = [m \in Messages |-> <<>>]
    /\ gen = 1
    /\ clock = 0
    /\ left \in Scenarios

PipelineStep == StartPass \/ ClaimMessage \/ EndWorker \/ RetryTimer
RouterStep(m) == RouteCommand(m) \/ RouteWorker(m) \/ markInboundMessageAccepted(m)
LaneStep(l) == ClaimIntent(l) \/ EndDrain(l)
CommandStep(m) == HandleHint(m) \/ Execute(m) \/ RejectStale(m) \/ Settle(m)
DeliveryStep(m) ==
    \/ ClaimCreate(m) \/ DeliverCreate(m)
    \/ \E r \in Revisions : ClaimUpdate(m, r) \/ DeliverUpdate(m, r)
StartStopStep == Recover \/ Listen \/ StartPipeline \/ CloseCommands \/ Exit

Next ==
    \/ PipelineStep
    \/ StartStopStep
    \/ ScanAccepted \/ Stop \/ Crash \/ Rebind
    \/ \E l \in Lanes : LaneStep(l)
    \/ \E m \in Messages :
          \/ Receive(m) \/ RouterStep(m) \/ ReleaseMessage(m) \/ Prune(m)
          \/ CommandStep(m) \/ DeliveryStep(m) \/ DeliveryFails(m)

Spec == Init /\ [][Next]_vars

(* What the event loop, the timers and the service manager keep doing: the  *)
(* promises of the pass and of the lanes run on, hopeless messages are      *)
(* released, the interval scan and the delivery engine come round, and a    *)
(* process that went down is started again.  Crashes, exceptions and the    *)
(* gateway's deliveries are not fair.                                       *)
Fairness ==
    /\ WF_vars(PipelineStep) /\ WF_vars(StartStopStep) /\ WF_vars(ScanAccepted)
    /\ \A l \in CommandLanes : WF_vars(LaneStep(l))
    /\ \A m \in Messages : WF_vars(RouterStep(m))
    /\ \A m \in Commands : WF_vars(CommandStep(m)) /\ WF_vars(DeliveryStep(m))
    /\ \A m \in Hopeless : WF_vars(ReleaseMessage(m))

FairSpec == Spec /\ Fairness

-----------------------------------------------------------------------------
(* Properties *)

ReplyStates == {"none", "pending", "inflight", "sent", "dismissed", "lost"}

(* Every variable keeps its shape. *)
TypeOK ==
    /\ mode \in Modes
    /\ inbox \in [Messages -> {"absent", "received", "processing", "accepted"}]
    /\ arrived \in [Messages -> 0..clock]
    /\ \A m \in Messages : arrived[m] = 0 <=> inbox[m] = "absent"
    /\ step \in [Messages -> {"idle", "routing", "routed"}]
    /\ pass \in [live : 0..Concurrency, blocked : SUBSET Scopes,
                 requested : BOOLEAN, retry : BOOLEAN]
    /\ \A m \in Messages :
          /\ intent[m].state \in {"none", "accepted", "executing"} \cup Terminal
          /\ intent[m].gen \in 0..gen
          /\ effects[m] \in Seq(1..gen)
          /\ view[m].create \in ReplyStates
          /\ view[m].update \in [Revisions -> ReplyStates]
          /\ view[m].revision \in 0..3
    /\ filed \in [Messages -> 0..clock]
    /\ \A m \in Messages : filed[m] = 0 <=> intent[m].state = "none"
    /\ gen \in Nat /\ clock \in Nat
    /\ phase \in [Messages -> {"none", "claimed", "acting"}]
    /\ drain \subseteq Lanes
    /\ hints \subseteq Messages
    /\ shown \in [Messages -> 0..3]

(* However often a message is delivered, released, recovered or pruned, and *)
(* whatever the process dies in, its command takes effect at most once, and *)
(* on the session generation the user addressed.                            *)
OneEffect ==
    \A m \in Commands :
        /\ Len(effects[m]) <= 1
        /\ Kind[m] = "primary" => \A i \in 1..Len(effects[m]) : effects[m][i] = intent[m].gen

(* A message leaves the inbox as accepted only when its command is on       *)
(* record: an orderly stop in the middle of a pass swallows nothing.        *)
AcceptedIsOnRecord ==
    \A m \in Commands : inbox[m] = "accepted" => intent[m].state # "none"

Before(a, b) == arrived[a] # 0 /\ arrived[a] < arrived[b]

(* Within a conversation no message is routed while an earlier one waits or *)
(* is still being routed, although four workers claim at the same time and  *)
(* failed messages go back to the queue.                                    *)
ConversationOrder ==
    \A a, b \in Messages :
        ScopeOf[a] = ScopeOf[b] /\ Before(a, b) /\ inbox[b] \in {"processing", "accepted"}
            => inbox[a] = "accepted"

(* A message that is never taken holds up its own conversation only: the    *)
(* backlog of every other one is worked off again and again.                *)
OtherConversationsProceed ==
    \A c \in Scopes \ {ScopeOf[h] : h \in Hopeless} :
        []<>(\A m \in Messages : ScopeOf[m] = c => inbox[m] \in {"absent", "accepted"})

(* Every lane comes to rest: lost hints, hints the dispatcher does not take *)
(* yet or any more, and crashes leave no command accepted or executing for  *)
(* good, and with it the lane closed to the commands after it.              *)
LanesComeToRest ==
    \A l \in CommandLanes :
        []<>(\A m \in OfLane(l) : intent[m].state \in {"none"} \cup Terminal)

Lost(m) == view[m].create = "lost" \/ \E r \in Revisions : view[m].update[r] = "lost"
Showing(m) == intent[m].state \in Terminal /\ shown[m] = view[m].revision

(* The card of a command outside any session ends up showing how the        *)
(* command ended, however the creation of the card and the revisions of its *)
(* view overtake each other; only a crash during a send excuses it.         *)
GlobalStatusShown ==
    \A m \in Commands :
        Kind[m] = "global" =>
            (intent[m].state \in Terminal ~> Showing(m) \/ Lost(m))

(* The same for a command of a bound session whose generation is unchanged: *)
(* "Command Status Card: durable control admission/execution result".       *)
BoundStatusShown ==
    \A m \in Commands :
        Kind[m] = "primary" =>
            (intent[m].state \in Terminal ~> Showing(m) \/ Lost(m) \/ gen # intent[m].gen)

=============================================================================
