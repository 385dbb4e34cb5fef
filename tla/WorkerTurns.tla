----------------------------- MODULE WorkerTurns -----------------------------
(***************************************************************************)
(* The turns of one Worker session: accepted into the table instance_turns, *)
(* claimed and handed to the Agent by the dispatcher, bound to the Agent's  *)
(* own turn and settled by the transcript observer, looked after by the     *)
(* supervisor, and given up when the session ends.                          *)
(*                                                                         *)
(*  - coordinator/worker-turn-dispatcher.ts: the drain, one per Worker      *)
(*  - coordinator/worker-turn-observer.ts: watches and recovery reads       *)
(*  - coordinator/instance-turn-supervisor.ts: scans and targeted looks     *)
(*  - coordinator/instance-runtime-reconciler.ts: what the Pane is doing    *)
(*  - store/sqlite/worker-turn/*.ts, store/sqlite/instance-store.ts         *)
(*                                                                         *)
(* SQLite calls are synchronous, so an action is what runs between two      *)
(* awaits.  A turn carries the generation it was accepted under; a started  *)
(* Worker session has one generation until it is terminated, so             *)
(* "generation matches" is inst.live.  Turns accepted by the present code   *)
(* have no row in worker_turn_cards (their cards are Conversation           *)
(* Segments), so transition() always takes its updateInstanceTurn branch;   *)
(* cards left by older versions, and with them the supervisor's start-up    *)
(* grace, are left out.  The Agent, its transcript and the Pane are         *)
(* external.                                                                *)
(***************************************************************************)
EXTENDS Naturals, FiniteSets

CONSTANTS
    NTurns,          \* turns that are ever accepted; they are numbered in that order
    MaxQueueDepth,   \* configuration: turns a Worker may have pending
    Scenarios        \* the driver of the Worker's Agent kind, and how often each thing that
                     \* is not bounded by the turns may happen

Budgets == {"turns", "steers", "deaths", "visits", "stops", "moods"}
ASSUME WorkerAssumption ==
    /\ NTurns \in Nat /\ MaxQueueDepth \in Nat
    /\ \A s \in Scenarios : /\ s.driver \in {"structured", "terminal", "none"}
                            /\ s.left \in [Budgets -> Nat]

VARIABLES
    driver,     \* the driver of the Worker's Agent kind
    left,       \* what is left of the scenario's budgets
    st,         \* instance_turns.state, "none" before the turn is accepted
    pri,        \* instance_turns.priority is 'priority'
    bound,      \* instance_turns.runtime_turn_id is recorded
    inst,       \* the row of agent_instances
    proc,       \* the process: "up", "stopping", "down"
    wake,       \* a drain is queued as a microtask
    drain,      \* the running drain, its turn and the driver's receipt
    detached,   \* turns the shutdown deadline detached
    watching,   \* turns whose transcript is being watched
    sup,        \* the supervisor, its turn and what it read before its await
    stopping,   \* a stop command waits for the Pane to be released
    pane,       \* external: what the Pane is doing
    native,     \* external: the Agent's own turn for each submission
    sent        \* history: submissions of each turn to the Agent

table == <<st, pri, bound>>
memory == <<wake, drain, detached, watching, sup, stopping>>
world == <<pane, native>>
vars == <<driver, left, table, inst, proc, memory, world, sent>>

Turns == 1..NTurns
Spend(b) == left[b] > 0 /\ left' = [left EXCEPT ![b] = @ - 1]

-----------------------------------------------------------------------------
\* The states of a turn, grouped as the queries of worker-turn/queue.ts group them.

PaneStates == {"idle", "working", "blocked", "unknown", "gone"}
States == {"none", "queued", "claimed", "dispatching", "running", "blocked", "uncertain",
           "completed", "failed", "cancelled"}
Terminal == {"completed", "failed", "cancelled"}
\* Faulty variant: uncertain turns are left out.
ObservableCertain == {"dispatching", "running", "blocked"}

Observable == {"dispatching", "running", "blocked", "uncertain"}
ActiveRuntime == Observable \union {"claimed"}
Waiting == {"none", "queued", "claimed"}    \* never handed to the driver

countPending == Cardinality({t \in Turns : st[t] \in ActiveRuntime \union {"queued"}})
hasActiveRuntime == \E t \in Turns : st[t] \in ActiveRuntime
hasLivePriority == \E t \in Turns : pri[t] /\ st[t] \in ActiveRuntime \union {"queued"}

\* Faulty variant: the newest first.
BeforeNewest(a, b) == (pri[a] /\ ~pri[b]) \/ (pri[a] = pri[b] /\ a > b)

\* The order of the claim: priority turns first, then by acceptance.
Before(a, b) == (pri[a] /\ ~pri[b]) \/ (pri[a] = pri[b] /\ a < b)

\* claimNextInstanceTurn: which turn it would take.
Claimable(t) ==
    /\ inst.live /\ inst.want = "running" /\ inst.attached
    /\ inst.obs \in {"idle", "working", "blocked"}
    /\ ~hasActiveRuntime
    /\ st[t] = "queued"
    /\ \A u \in Turns \ {t} : st[u] = "queued" => Before(t, u)

\* Faulty variant: the generation is not compared.
updateUnfenced(t, s) == [st EXCEPT ![t] = s]

\* updateInstanceTurn: the only guard is the generation.
update(t, s) == IF inst.live THEN [st EXCEPT ![t] = s] ELSE st

\* wake(): ignored once the dispatcher is stopping.
wakeInstance == wake' = (wake \/ proc = "up")

\* updateAgentInstanceObservation: only on the runtime it was made of.
Observed(s) == IF inst.attached THEN [inst EXCEPT !.obs = s] ELSE inst

\* terminateWorkerSession: queued turns are cancelled, active ones left uncertain.
Retired(s) == CASE s = "queued" -> "cancelled"
                [] s \in {"claimed", "dispatching", "running", "blocked"} -> "uncertain"
                [] OTHER -> s
terminateWorkerSession ==
    /\ st' = [t \in Turns |-> IF inst.live THEN Retired(st[t]) ELSE st[t]]
    /\ inst' = IF inst.live
               THEN [live |-> FALSE, want |-> "stopped", attached |-> FALSE, obs |-> "stopped"]
               ELSE inst

NoDrain == [pc |-> "off", t |-> 0, receipt |-> "none"]
NoLook == [pc |-> "off", t |-> 0, st |-> "none", bound |-> FALSE, pane |-> "gone"]

Init ==
    /\ \E s \in Scenarios : driver = s.driver /\ left = s.left
    /\ st = [t \in Turns |-> "none"]
    /\ pri = [t \in Turns |-> FALSE]
    /\ bound = [t \in Turns |-> FALSE]
    /\ inst = [live |-> TRUE, want |-> "running", attached |-> TRUE, obs |-> "idle"]
    /\ proc = "up" /\ wake = FALSE /\ drain = NoDrain
    /\ detached = {} /\ watching = {} /\ sup = NoLook /\ stopping = FALSE
    /\ pane = "idle"
    /\ native = [t \in Turns |-> "none"]
    /\ sent = [t \in Turns |-> 0]

-----------------------------------------------------------------------------
\* Acceptance.

Accept(t, priority) ==
    /\ proc = "up" /\ inst.live
    /\ st[t] = "none" /\ \A u \in 1..(t - 1) : st[u] # "none"
    /\ countPending < MaxQueueDepth
    /\ st' = [st EXCEPT ![t] = "queued"]
    /\ pri' = [pri EXCEPT ![t] = priority]
    /\ wakeInstance
    /\ UNCHANGED <<driver, bound, inst, proc, drain, detached, watching, sup, stopping, world,
                   sent>>

\* InstanceMessagingWorkflow.submit.
submit(t) == inst.attached /\ inst.want = "running" /\ Spend("turns") /\ Accept(t, FALSE)

\* TurnControlWorkflow.acceptPriorityTurn: a steer of an idle Worker becomes a turn.
acceptPriorityTurn(t) ==
    /\ inst.attached /\ pane = "idle"
    /\ ~hasLivePriority /\ ~hasActiveRuntime
    /\ Spend("steers")
    /\ Accept(t, TRUE)

-----------------------------------------------------------------------------
\* WorkerTurnDispatcher.drain.

\* A drain that is already running makes the new one return at once.
DrainStarts ==
    /\ wake /\ wake' = FALSE
    /\ drain' = IF drain.pc = "off" /\ proc = "up" THEN [drain EXCEPT !.pc = "next"] ELSE drain
    /\ UNCHANGED <<driver, left, table, inst, proc, detached, watching, sup, stopping, world,
                   sent>>

DrainReturns ==
    /\ drain.pc = "next"
    /\ proc # "up" \/ \A t \in Turns : ~Claimable(t)
    /\ drain' = NoDrain
    /\ UNCHANGED <<driver, left, table, inst, proc, wake, detached, watching, sup, stopping,
                   world, sent>>

\* The claim and the transition to dispatching, in one turn of the event loop.  A terminal
\* driver is called in the same one, a structured driver after the watch is open.
ClaimTurn(t) ==
    /\ drain.pc = "next" /\ proc = "up" /\ Claimable(t)
    /\ st' = [st EXCEPT ![t] = IF driver = "none" THEN "failed" ELSE "dispatching"]
    /\ drain' = CASE driver = "none" -> drain
                  [] driver = "structured" -> [pc |-> "open", t |-> t, receipt |-> "none"]
                  [] driver = "terminal" -> [pc |-> "sent", t |-> t, receipt |-> "none"]
    /\ sent' = IF driver = "terminal" THEN [sent EXCEPT ![t] = @ + 1] ELSE sent
    /\ UNCHANGED <<driver, left, pri, bound, inst, proc, wake, detached, watching, sup,
                   stopping, world>>

\* The watch is open, or there is no typed transcript, and the driver sends the prompt.
SubmitPrompt ==
    /\ drain.pc = "open"
    /\ drain' = [drain EXCEPT !.pc = "sent"]
    /\ sent' = [sent EXCEPT ![drain.t] = @ + 1]
    /\ watching' \in {watching, watching \union {drain.t}}
    /\ UNCHANGED <<driver, left, table, inst, proc, wake, detached, sup, stopping, world>>

\* Opening the watch throws, or the driver refuses before it sends anything.
SubmitRefused(r) ==
    /\ drain.pc = "open" /\ r \in {"uncertain", "not"}
    /\ drain' = [drain EXCEPT !.pc = IF drain.t \in detached THEN "quit" ELSE "flush",
                              !.receipt = r]
    /\ watching' \in {watching} \union IF r = "not" THEN {watching \union {drain.t}} ELSE {}
    /\ UNCHANGED <<driver, left, table, inst, proc, wake, detached, sup, stopping, world, sent>>

\* onDispatched.
onDispatched ==
    /\ drain.pc = "sent"
    /\ drain' = [drain EXCEPT !.pc = "taken"]
    /\ st' = IF drain.t \in detached THEN st ELSE update(drain.t, "running")
    /\ UNCHANGED <<driver, left, pri, bound, inst, proc, wake, detached, watching, sup,
                   stopping, world, sent>>

\* The driver returns; what it says need not be what the Agent does.
SubmitReturns(r) ==
    /\ \/ drain.pc = "sent" /\ r \in {"uncertain", "not"}
       \/ drain.pc = "taken" /\ r \in {"confirmed", "uncertain"}
    /\ drain' = [drain EXCEPT !.pc = IF drain.t \in detached THEN "quit" ELSE "flush",
                              !.receipt = r]
    /\ UNCHANGED <<driver, left, table, inst, proc, wake, detached, watching, sup, stopping,
                   world, sent>>

\* After watch.flush(), which reads at most FINAL_DRAIN_LIMIT observations (Observe), the
\* turn is read again: settled, the drain goes on; bound, the watch is left to itself.
Flushed ==
    /\ drain.pc = "flush"
    /\ drain' = IF st[drain.t] \in Terminal THEN [drain EXCEPT !.pc = "go"]
                ELSE IF bound[drain.t] THEN NoDrain
                ELSE [drain EXCEPT !.pc = "stop"]
    /\ UNCHANGED <<driver, left, table, inst, proc, wake, detached, watching, sup, stopping,
                   world, sent>>

\* After watch.stop(), which reads once more: the verdict of the receipt is written without
\* reading the turn again.
Verdict == CASE drain.receipt = "uncertain" -> "uncertain"
             [] drain.receipt = "not" -> "failed"
             [] OTHER -> "completed"
Stopped ==
    /\ drain.pc \in {"go", "quit", "stop"}
    /\ watching' = watching \ {drain.t}
    /\ IF drain.pc = "stop" /\ (drain.receipt # "confirmed" \/ driver = "terminal")
       THEN st' = update(drain.t, Verdict) ELSE UNCHANGED st
    /\ IF drain.pc = "stop" /\ drain.receipt = "confirmed" /\ driver = "terminal"
       THEN /\ inst' = IF inst.live THEN [inst EXCEPT !.want = "running", !.obs = "idle"] ELSE inst
            /\ drain' = [NoDrain EXCEPT !.pc = "next"]
       ELSE /\ UNCHANGED inst
            /\ drain' = [NoDrain EXCEPT !.pc = IF drain.pc = "go" THEN "next" ELSE "off"]
    /\ UNCHANGED <<driver, left, pri, bound, proc, wake, detached, sup, stopping, world, sent>>

-----------------------------------------------------------------------------
\* WorkerTurnObserver.  A watch reads on a timer, for flush() and for stop().

\* observe: the first record of the Agent's turn binds it (claimInstanceTurnTranscript).
CanBind(t) == /\ native[t] # "none" /\ ~bound[t] /\ st[t] \in Observable
              /\ inst.live /\ inst.attached
\* observe: the end of the bound turn settles it.
CanSettle(t) == /\ native[t] \in {"done", "aborted"} /\ bound[t] /\ st[t] \notin Terminal
                /\ inst.live
End(t) == IF native[t] = "done" THEN "completed" ELSE "cancelled"

WatchBinds(t) ==
    /\ t \in watching /\ CanBind(t)
    /\ bound' = [bound EXCEPT ![t] = TRUE]
    /\ UNCHANGED <<driver, left, st, pri, inst, proc, memory, world, sent>>

WatchSettles(t) ==
    /\ t \in watching /\ CanSettle(t)
    /\ st' = [st EXCEPT ![t] = End(t)]
    /\ wakeInstance
    /\ UNCHANGED <<driver, left, pri, bound, inst, proc, drain, detached, watching, sup,
                   stopping, world, sent>>

\* A watch that is on its own ends at the poll that finds the turn settled.
WatchEnds(t) ==
    /\ t \in watching /\ st[t] \in Terminal /\ drain.t # t
    /\ watching' = watching \ {t}
    /\ UNCHANGED <<driver, left, table, inst, proc, wake, drain, detached, sup, stopping, world,
                   sent>>

-----------------------------------------------------------------------------
\* InstanceTurnSupervisor.

\* reconcileOnce lists the turns and asks for a snapshot of all Panes.
TakeSnapshot(t) ==
    /\ proc = "up" /\ sup.pc = "off" /\ inst.live /\ st[t] \in Observable
    /\ sup' = [NoLook EXCEPT !.pc = "snapshot", !.t = t, !.pane = pane]
    /\ UNCHANGED <<driver, left, table, inst, proc, wake, drain, detached, watching, stopping,
                   world, sent>>

\* requestObservationByPane, or a scan whose snapshot failed: the turn is read before
\* inspectPane is awaited.
InspectPane(t) ==
    /\ proc = "up" /\ sup.pc = "off" /\ inst.live /\ inst.attached /\ st[t] \in Observable
    /\ Spend("visits")
    /\ sup' = [NoLook EXCEPT !.pc = "inspect", !.t = t, !.st = st[t], !.bound = bound[t]]
    /\ UNCHANGED <<driver, table, inst, proc, wake, drain, detached, watching, stopping, world,
                   sent>>

\* What observe() works on: the turn as read now, or as read before the await; the Pane as
\* the snapshot has it, or as inspectPane returned it.
Read == IF sup.pc = "inspect" THEN [st |-> sup.st, bound |-> sup.bound, pane |-> pane]
        ELSE [st |-> st[sup.t], bound |-> bound[sup.t], pane |-> sup.pane]
Looks == \/ sup.pc = "inspect"
         \/ sup.pc = "snapshot" /\ st[sup.t] \in Observable /\ inst.live /\ inst.attached

\* The turn is no longer observable, or the Worker is gone.
LookVoid ==
    /\ sup.pc = "snapshot" /\ ~Looks
    /\ sup' = NoLook
    /\ UNCHANGED <<driver, left, table, inst, proc, wake, drain, detached, watching, stopping,
                   world, sent>>

\* The Pane is missing or another one.
LookGone ==
    /\ Looks /\ Read.pane = "gone"
    /\ terminateWorkerSession
    /\ sup' = NoLook
    /\ UNCHANGED <<driver, left, pri, bound, proc, wake, drain, detached, watching, stopping,
                   world, sent>>

\* A bound turn is recovered from its transcript: recover() reads to its end, and the Worker
\* is idle and woken when the turn is settled, by whomever.
RecoverSettles ==
    /\ Looks /\ Read.pane # "gone" /\ Read.bound
    /\ CanSettle(sup.t) \/ st[sup.t] \in Terminal
    /\ st' = IF CanSettle(sup.t) THEN [st EXCEPT ![sup.t] = End(sup.t)] ELSE st
    /\ inst' = Observed("idle")
    /\ wakeInstance
    /\ sup' = NoLook
    /\ UNCHANGED <<driver, left, pri, bound, proc, drain, detached, watching, stopping, world,
                   sent>>

\* Otherwise (the transcript is not available, or its end is not reached) the state of the
\* Pane decides, as for a turn that is not bound; a bound turn in an idle Pane is left alone.
NotRecovered == Looks /\ (Read.bound => st[sup.t] \notin Terminal)
LookBusy ==
    /\ NotRecovered /\ Read.pane \in {"working", "blocked"}
    /\ st' = update(sup.t, IF Read.pane = "working" THEN "running" ELSE "blocked")
    /\ sup' = NoLook
    /\ UNCHANGED <<driver, left, pri, bound, inst, proc, wake, drain, detached, watching,
                   stopping, world, sent>>

LookNothing ==
    /\ NotRecovered
    /\ Read.pane = "unknown" \/ (Read.pane = "idle" /\ Read.bound)
    /\ sup' = NoLook
    /\ UNCHANGED <<driver, left, table, inst, proc, wake, drain, detached, watching, stopping,
                   world, sent>>

\* An unbound turn in an idle Pane: over if it was running, of unknown fate otherwise.
LookIdleDone ==
    /\ Looks /\ Read.pane = "idle" /\ ~Read.bound /\ Read.st \in {"running", "blocked"}
    /\ st' = update(sup.t, "completed")
    /\ inst' = Observed("idle")
    /\ wakeInstance
    /\ sup' = NoLook
    /\ UNCHANGED <<driver, left, pri, bound, proc, drain, detached, watching, stopping, world,
                   sent>>

LookIdleUnknown ==
    /\ Looks /\ Read.pane = "idle" /\ ~Read.bound /\ Read.st \notin {"running", "blocked"}
    /\ st' = update(sup.t, "uncertain")
    /\ sup' = NoLook
    /\ UNCHANGED <<driver, left, pri, bound, inst, proc, wake, drain, detached, watching,
                   stopping, world, sent>>

-----------------------------------------------------------------------------
\* InstanceRuntimeReconciler.reconcileInstance.

normalizeState == CASE pane \in {"idle", "working", "blocked"} -> pane [] OTHER -> "detached"

Reconcile ==
    /\ proc = "up" /\ inst.attached
    /\ IF pane = "gone"
       THEN terminateWorkerSession /\ UNCHANGED wake
       ELSE /\ inst.obs # normalizeState
            /\ inst' = [inst EXCEPT !.obs = normalizeState]
            /\ IF normalizeState = "idle" /\ countPending > 0 THEN wakeInstance ELSE UNCHANGED wake
            /\ UNCHANGED st
    /\ UNCHANGED <<driver, left, pri, bound, proc, drain, detached, watching, sup, stopping,
                   world, sent>>

\* InstanceControlWorkflow.stop: reserveAgentInstanceStop, releasePane, then
\* finishAgentInstanceStop or rollbackAgentInstanceStop.
StopReserves ==
    /\ proc = "up" /\ ~stopping /\ inst.live /\ inst.attached /\ ~hasActiveRuntime
    /\ inst' = [inst EXCEPT !.want = "stopped"]
    /\ stopping' = TRUE
    /\ Spend("stops")
    /\ UNCHANGED <<driver, table, proc, wake, drain, detached, watching, sup, world, sent>>

StopFinishes ==
    /\ stopping /\ stopping' = FALSE
    /\ pane' = "gone"
    /\ inst' = IF inst.live /\ inst.want = "stopped"
               THEN [inst EXCEPT !.attached = FALSE, !.obs = "stopped"] ELSE inst
    /\ UNCHANGED <<driver, left, table, proc, wake, drain, detached, watching, sup, native,
                   sent>>

StopRollsBack ==
    /\ stopping /\ stopping' = FALSE
    /\ inst' = IF inst.live /\ inst.want = "stopped" /\ inst.attached
               THEN [inst EXCEPT !.want = "running"] ELSE inst
    /\ UNCHANGED <<driver, left, table, proc, wake, drain, detached, watching, sup, world,
                   sent>>

-----------------------------------------------------------------------------
\* The process.

\* WorkerTurnDispatcher.stop: no more claims and wakes.
ShutdownBegins ==
    /\ proc = "up" /\ left["deaths"] > 0 /\ proc' = "stopping"
    /\ UNCHANGED <<driver, left, table, inst, memory, world, sent>>

\* The deadline: the turn in flight is detached and left uncertain.
ShutdownDeadline ==
    /\ proc = "stopping" /\ drain.t \in Turns \ detached
    /\ detached' = detached \union {drain.t}
    /\ st' = IF st[drain.t] \in Terminal THEN st ELSE update(drain.t, "uncertain")
    /\ UNCHANGED <<driver, left, pri, bound, inst, proc, wake, drain, watching, sup, stopping,
                   world, sent>>

\* The process ends, at the end of a shutdown or anywhere; what it had in memory is gone.
Die ==
    /\ proc' = "down" /\ Spend("deaths")
    /\ wake' = FALSE /\ drain' = NoDrain /\ detached' = {} /\ watching' = {}
    /\ sup' = NoLook /\ stopping' = FALSE
    /\ UNCHANGED <<driver, pri, bound, inst, world, sent>>

Crash == /\ proc # "down"
         /\ Die /\ UNCHANGED st

\* Between the claim and the transition to dispatching, which are two transactions.
CrashAfterClaim(t) == /\ proc = "up" /\ drain.pc = "next" /\ Claimable(t)
                      /\ st' = [st EXCEPT ![t] = "claimed"]
                      /\ Die

\* Faulty variant: a turn that was being dispatched is queued again too.
recoverDispatching == [t \in Turns |->
    IF st[t] \in {"claimed", "dispatching"} /\ inst.live THEN "queued" ELSE st[t]]

\* recoverInterruptedInstanceTurns: what was only claimed is queued again.
recover == [t \in Turns |-> IF st[t] = "claimed" /\ inst.live THEN "queued" ELSE st[t]]
Restart ==
    /\ proc = "down" /\ proc' = "up"
    /\ st' = recover
    /\ UNCHANGED <<driver, left, pri, bound, inst, memory, world, sent>>

-----------------------------------------------------------------------------
\* External: the Pane and the Agent in it, which also serves a person at its terminal.

PaneChanges(p) ==
    /\ pane # "gone" /\ p # pane
    /\ pane' = p
    /\ Spend("moods")
    /\ UNCHANGED <<driver, table, inst, proc, memory, native, sent>>

NativeStarts(t) ==
    /\ native[t] = "none" /\ sent[t] > 0 /\ pane # "gone"
    /\ native' = [native EXCEPT ![t] = "active"]
    /\ UNCHANGED <<driver, left, table, inst, proc, memory, pane, sent>>

NativeEnds(t, e) ==
    /\ native[t] = "active" /\ pane # "gone"
    /\ native' = [native EXCEPT ![t] = e]
    /\ UNCHANGED <<driver, left, table, inst, proc, memory, pane, sent>>

-----------------------------------------------------------------------------
Drain == \/ DrainStarts \/ DrainReturns \/ (\E t \in Turns : ClaimTurn(t))
         \/ SubmitPrompt \/ onDispatched \/ Flushed \/ Stopped
         \/ \E r \in {"confirmed", "uncertain", "not"} : SubmitRefused(r) \/ SubmitReturns(r)

Look == \/ LookVoid \/ LookGone \/ RecoverSettles \/ LookBusy \/ LookNothing
        \/ LookIdleDone \/ LookIdleUnknown

Next ==
    \/ \E t \in Turns : submit(t) \/ acceptPriorityTurn(t)
    \/ Drain
    \/ \E t \in Turns : WatchBinds(t) \/ WatchSettles(t) \/ WatchEnds(t)
    \/ \E t \in Turns : TakeSnapshot(t) \/ InspectPane(t)
    \/ Look
    \/ Reconcile \/ StopReserves \/ StopFinishes \/ StopRollsBack
    \/ ShutdownBegins \/ ShutdownDeadline \/ Crash \/ (\E t \in Turns : CrashAfterClaim(t))
    \/ Restart
    \/ \E p \in PaneStates : PaneChanges(p)
    \/ \E t \in Turns : NativeStarts(t) \/ NativeEnds(t, "done") \/ NativeEnds(t, "aborted")

Spec == Init /\ [][Next]_vars

\* The supervisor scans on an interval and its awaits return; a transcript that is read again
\* and again is read to its end.
FairSpec == /\ Spec
            /\ WF_vars(Look)
            /\ SF_vars(RecoverSettles)
            /\ \A t \in Turns : SF_vars(TakeSnapshot(t))

-----------------------------------------------------------------------------
\* The types of all variables.
InstanceRow == [live : BOOLEAN, want : {"running", "stopped"}, attached : BOOLEAN,
                obs : {"idle", "working", "blocked", "detached", "stopped"}]
DrainState == [pc : {"off", "next", "open", "sent", "taken", "flush", "go", "stop", "quit"},
               t : Turns \union {0}, receipt : {"none", "confirmed", "uncertain", "not"}]
LookState == [pc : {"off", "snapshot", "inspect"}, t : Turns \union {0}, st : States,
              bound : BOOLEAN, pane : PaneStates]
TypeOK ==
    /\ driver \in {"structured", "terminal", "none"} /\ left \in [Budgets -> Nat]
    /\ st \in [Turns -> States] /\ pri \in [Turns -> BOOLEAN] /\ bound \in [Turns -> BOOLEAN]
    /\ inst \in InstanceRow
    /\ proc \in {"up", "stopping", "down"} /\ wake \in BOOLEAN /\ stopping \in BOOLEAN
    /\ drain \in DrainState
    /\ detached \subseteq Turns /\ watching \subseteq Turns
    /\ sup \in LookState
    /\ pane \in PaneStates
    /\ native \in [Turns -> {"none", "active", "done", "aborted"}]
    /\ sent \in [Turns -> Nat]

\* No prompt is handed to the Agent twice: not by a requeued turn, not by a turn that two
\* writers disagree about, over crashes at every step (the dispatcher's "prompt was not
\* replayed").
SubmittedOnce == \A t \in Turns : sent[t] <= 1

\* Prompts reach the Agent in the order of the queue: when one was handed over, no turn that
\* was accepted before it and is not of lesser priority still waits (durable FIFO order over
\* crash, requeue and settlement by several writers).
SubmittedInOrder ==
    \A a, b \in Turns : a < b /\ (pri[a] \/ ~pri[b]) /\ sent[b] > 0 => st[a] \notin Waiting

\* What a Worker session left behind when it was terminated stays as it is: no late receipt,
\* watch, recovery, look or restart changes a turn of it (the generation fence).
RetiredFrozen == [][~inst.live => UNCHANGED <<st, bound>>]_vars

\* A turn bound to the Agent's own turn is settled once that one has ended, although the
\* receipt was lost, the watch is gone, verdicts were overwritten or the process restarted,
\* as long as the process stays up and the Worker keeps its Pane (exact recovery).
Unsettled(t) == bound[t] /\ native[t] \in {"done", "aborted"} /\ st[t] \notin Terminal
ExactTurnSettles ==
    <>[](proc = "up") =>
        \A t \in Turns : Unsettled(t) ~> (~Unsettled(t) \/ ~inst.attached)

-----------------------------------------------------------------------------
\* What the design notes or the code's messages say and the code does not do.

\* docs/superpowers/specs/2026-09-24-worker-execution-observation-design.md:75: "A confirmed
\* Agent submission is not task completion.  Structured Agent turns remain under exact
\* transcript observation."  So a structured Worker's turn is completed only after its
\* Agent's turn has ended.
CompletionHasEvidence ==
    driver = "structured" =>
        \A t \in Turns : st[t] = "completed" => native[t] \in {"done", "aborted"}

\* docs/archive/superpowers/specs/2026-09-09-worker-dispatch-settlement-race-design.md:45:
\* "Terminal states remain protected by the existing early return."
SettledStays == [][\A t \in Turns : st[t] \in Terminal => st'[t] = st[t]]_vars

\* A turn that could be claimed has a drain that will: no wake-up is lost while the Worker
\* stays idle.  instance-turn-supervisor.ts:32 says of requeued turns that they are "awaiting
\* runtime reconciliation", which wakes the Worker only when what it observes has changed.
NoLostWake ==
    proc = "up" /\ ~wake /\ drain.pc = "off" /\ inst.obs = "idle" /\ pane = "idle" =>
        \A t \in Turns : ~Claimable(t)
=============================================================================
