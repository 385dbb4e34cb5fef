-------------------------- MODULE RuntimeLifecycle --------------------------
(***************************************************************************)
(* One process between its first fenced write and its exit: the start      *)
(* sequence of ManagedBridgeRuntime (composition/managed-bridge-runtime.ts)*)
(* registering cleanups in the ledger (runtime/lifecycle-ledger.ts), a stop*)
(* requested by a signal, a lost lease or a failing start step at any await*)
(* of that sequence, and the bounded shutdown (runtime/shutdown.ts) that   *)
(* gives up the fence, the lease and the store, or keeps all three.        *)
(*                                                                         *)
(* The event loop turns only at an await: the statements between two awaits*)
(* run without interruption, so a stop request cannot fall between them.   *)
(***************************************************************************)
EXTENDS LifecycleLedger

CONSTANTS
    Component,  \* which components of the start sequence this instance keeps
    Nothing,    \* no component
    MaxFailures \* bound on the stops that reject

ASSUME NothingAssumption == Nothing \notin Component
ASSUME FailuresAssumption == MaxFailures \in Nat

VARIABLES
    pc,       \* next step of the start sequence
    start,    \* "starting", "started" or "failed": what start() has come to
    up,       \* asynchronous resources whose start has returned
    stop,     \* "no", "stopping", "settling", "completed", "retained"
    plan,     \* shutdownPlan() as performStop read it
    idx,      \* the entry of the plan the loop is at
    asked,    \* components whose stop has been called
    expired   \* the shared shutdown deadline has passed

vars == <<pc, start, awaiting, entries, up, stop, plan, idx, asked, settled,
          failed, expired, owns>>
-----------------------------------------------------------------------------
(* The start sequence of performStart, after the stale-claim recovery.      *)

\* registerCleanup, or startRuntime: the cleanup is registered with the start.
Reg(name, stage, kind) ==
    [op |-> "register", name |-> name, stage |-> stage, kind |-> kind]

\* startResource: registered first, then awaited.
Res(name, stage, kind) ==
    [op |-> "resource", name |-> name, stage |-> stage, kind |-> kind]

\* An awaited piece of write-capable work of a component.
Await(name) == [op |-> "await", name |-> name, stage |-> "none", kind |-> "writer"]

StartSequence == <<
    Reg("integrityAuditor", "workers", "non-writer"),
    Reg("agentInputRecovery", "workers", "writer"),
    Await("agentInputRecovery"),
    Reg("coordinator", "workers", "writer"),
    Reg("instanceWork", "workers", "writer"),
    Reg("runtimeEvents", "workers", "non-writer"),
    Reg("turnControlDispatcher", "workers", "writer"),
    Await("coordinator"),
    Await("instanceRuntime"),
    Await("instanceTurns"),
    Await("turnControlDispatcher"),
    Await("coordinator"),
    Reg("primaryToolGateway", "ingress", "writer"),
    Reg("completionChoiceEligibilityGateway", "ingress", "writer"),
    Reg("naturalLanguageCommands", "ingress", "writer"),
    Await("primaryToolGateway"),
    Res("healthServer", "health", "non-writer"),
    Await("recoverySupervisor"),
    Reg("ringDeliveryEngine", "projections", "writer"),
    Await("ringDeliveryEngine"),
    Reg("outboxRetention", "projections", "writer"),
    Reg("projector", "projections", "writer"),
    Reg("cardContextRebuilder", "projections", "writer"),
    Await("coordinator"),
    Reg("recoverySupervisor", "observers", "writer"),
    Await("recoverySupervisor"),
    Await("paneRetention"),
    Reg("paneRetention", "observers", "writer"),
    Reg("externalTurns", "observers", "writer"),
    Reg("herdrSessionEventSubscriber", "ingress", "non-writer"),
    Await("coreSessionIngestion"),
    Reg("coreSessionIngestion", "observers", "writer"),
    Reg("instanceRuntime", "workers", "writer"),
    Reg("instanceTurns", "workers", "writer"),
    Reg("herdrSocketEventDrain", "ingress", "writer"),
    Reg("herdrSocketIngress", "ingress", "non-writer") >>

PlanWriters == {plan[i].name : i \in {j \in 1 .. Len(plan) : plan[j].kind = "writer"}}
-----------------------------------------------------------------------------
Entry == [op : {"register", "resource"}, name : Component,
          stage : {"ingress", "observers", "workers", "projections", "health"},
          kind : {"writer", "non-writer"}]

TypeOK ==
    /\ pc \in 1 .. Len(StartSequence) + 1
    /\ start \in {"starting", "started", "failed"}
    /\ awaiting \in Component \cup {Nothing}
    /\ entries \in Seq(Entry) /\ plan \in Seq(Entry)
    /\ idx \in 1 .. Len(plan) + 1
    /\ stop \in {"no", "stopping", "settling", "completed", "retained"}
    /\ up \subseteq Component
    /\ failed \subseteq settled /\ settled \subseteq asked /\ asked \subseteq Component
    /\ expired \in BOOLEAN
    /\ owns \subseteq {"fence", "lease", "store"}

Init ==
    /\ pc = 1 /\ start = "starting" /\ awaiting = Nothing
    /\ entries = <<>> /\ up = {}
    /\ stop = "no" /\ plan = <<>> /\ idx = 1
    /\ asked = {} /\ settled = {} /\ failed = {} /\ expired = FALSE
    /\ owns = {"fence", "lease", "store"}

stopVars == <<stop, plan, idx, asked, settled, failed, expired, owns>>
-----------------------------------------------------------------------------
(* Start.                                                                   *)

\* A synchronous stretch of the sequence: register, or begin an awaited start.
\* assertStarting runs after every await and throws once a stop was requested.
\* The steps of a component this instance does without are passed over.
RunStartStep ==
    /\ start = "starting" /\ awaiting = Nothing
    /\ pc <= Len(StartSequence)
    /\ stop = "no"
    /\ LET s == StartSequence[pc]
           kept == s.name \in Component
       IN  /\ entries' = IF kept /\ s.op # "await" THEN Append(entries, s) ELSE entries
           /\ awaiting' = IF kept /\ s.op # "register" THEN s.name ELSE Nothing
    /\ pc' = pc + 1
    /\ UNCHANGED <<start, up>> /\ UNCHANGED stopVars

FinishStart ==
    /\ start = "starting" /\ awaiting = Nothing
    /\ pc > Len(StartSequence)
    /\ stop = "no"
    /\ start' = "started"
    /\ UNCHANGED <<pc, awaiting, entries, up>> /\ UNCHANGED stopVars

\* performStop: the shutdown reads the ledger once.
BeginStop ==
    /\ stop' = "stopping"
    /\ plan' = ShutdownPlan
    /\ UNCHANGED <<idx, asked, settled, failed, expired, owns>>

\* The awaited work returns: a resource is up from here on, and assertStarting
\* ends the start when a stop was requested meanwhile.
AwaitReturns ==
    /\ awaiting # Nothing
    /\ up' = IF StartSequence[pc - 1].op = "resource" THEN up \cup {awaiting} ELSE up
    /\ awaiting' = Nothing
    /\ start' = IF stop = "no" THEN start ELSE "failed"
    /\ UNCHANGED <<pc, entries>> /\ UNCHANGED stopVars

\* The awaited work throws: the catch of performStart requests the stop.
AwaitThrows ==
    /\ awaiting # Nothing
    /\ awaiting' = Nothing
    /\ start' = "failed"
    /\ IF stop = "no" THEN BeginStop ELSE UNCHANGED stopVars
    /\ UNCHANGED <<pc, entries, up>>

\* SIGINT, SIGTERM or onLost, while the start awaits or after it is done; one
\* stop promise serves every request.
RequestStop ==
    /\ stop = "no"
    /\ awaiting # Nothing \/ start = "started"
    /\ BeginStop
    /\ UNCHANGED <<pc, start, awaiting, entries, up>>
-----------------------------------------------------------------------------
(* performShutdown.                                                         *)

Current == plan[idx]

\* The loop calls the stop of the next entry.  startResource decides at that
\* moment whether there is a resource to close.
AskEntry ==
    /\ stop = "stopping" /\ idx <= Len(plan)
    /\ Current.name \notin asked
    /\ asked' = asked \cup {Current.name}
    /\ up' = up \ {Current.name}
    /\ UNCHANGED <<pc, start, awaiting, entries, stop, plan, idx, settled,
                   failed, expired, owns>>

\* A component that was asked to stop drains its own work, the part the start
\* sequence awaits included, and its promise settles.  The ingress gateways
\* await ingressStarts for that; a resource that is not up has nothing to stop.
CanSettle(c) == c \in asked \ settled /\ (awaiting # c \/ c = "healthServer")

StopSettles(c) ==
    /\ CanSettle(c)
    /\ settled' = settled \cup {c}
    /\ UNCHANGED <<pc, start, awaiting, entries, up, stop, plan, idx, asked, failed,
                   expired, owns>>

\* stopSafely records a rejection in failures.
StopRejects(c) ==
    /\ CanSettle(c)
    /\ Cardinality(failed) < MaxFailures
    /\ settled' = settled \cup {c}
    /\ failed' = failed \cup {c}
    /\ UNCHANGED <<pc, start, awaiting, entries, up, stop, plan, idx, asked,
                   expired, owns>>

\* The deadline shared by all entries (DEFAULT_SHUTDOWN_GRACE_MS).
DeadlinePasses ==
    /\ stop = "stopping" /\ ~expired
    /\ expired' = TRUE
    /\ UNCHANGED <<pc, start, awaiting, entries, up, stop, plan, idx, asked,
                   settled, failed, owns>>

\* Faulty variant: an entry is awaited without the deadline.
AdvanceEntryUnbounded ==
    /\ stop = "stopping" /\ idx <= Len(plan)
    /\ Current.name \in asked
    /\ Current.name \in settled
    /\ idx' = idx + 1
    /\ UNCHANGED <<pc, start, awaiting, entries, up, stop, plan, asked, settled,
                   failed, expired, owns>>

\* settlesWithin(settled, remainingMs): go on when the entry settled, or at
\* once when no time remains.
AdvanceEntry ==
    /\ stop = "stopping" /\ idx <= Len(plan)
    /\ Current.name \in asked
    /\ Current.name \in settled \/ expired
    /\ idx' = idx + 1
    /\ UNCHANGED <<pc, start, awaiting, entries, up, stop, plan, asked, settled,
                   failed, expired, owns>>

EndOfPlan ==
    /\ stop = "stopping" /\ idx > Len(plan)
    /\ stop' = "settling"
    /\ UNCHANGED <<pc, start, awaiting, entries, up, plan, idx, asked, settled,
                   failed, expired, owns>>

\* Faulty variant: a writer whose stop rejected counts as safe.
UnsafeWritersUnsettled == {c \in PlanWriters : c \notin settled}

UnsafeWriters == {c \in PlanWriters : c \notin settled \/ c \in failed}

\* After the final allowance (abortSettlementMs), which may end at any time:
\* every writer settled cleanly, or ownership is retained.
Decide ==
    /\ stop = "settling"
    /\ IF UnsafeWriters = {}
       THEN stop' = "completed" /\ owns' = {}
       ELSE stop' = "retained" /\ owns' = owns
    /\ UNCHANGED <<pc, start, awaiting, entries, up, plan, idx, asked, settled,
                   failed, expired>>
-----------------------------------------------------------------------------
Next ==
    \/ RunStartStep
    \/ FinishStart
    \/ AwaitReturns
    \/ AwaitThrows
    \/ RequestStop
    \/ AskEntry
    \/ \E c \in Component : StopSettles(c)
    \/ \E c \in Component : StopRejects(c)
    \/ DeadlinePasses
    \/ AdvanceEntry
    \/ EndOfPlan
    \/ Decide

Spec == Init /\ [][Next]_vars

\* The event loop turns, timers fire, and awaited start work ends one way or
\* the other.  No fairness for a component's stop: it may hang.
Fairness ==
    /\ WF_vars(RunStartStep)
    /\ WF_vars(AwaitReturns \/ AwaitThrows)
    /\ WF_vars(AskEntry)
    /\ WF_vars(DeadlinePasses)
    /\ WF_vars(AdvanceEntry)
    /\ WF_vars(EndOfPlan)
    /\ WF_vars(Decide)

FairSpec == Spec /\ Fairness
-----------------------------------------------------------------------------
(* What the lifecycle promises, beside OwnershipOutlivesRegisteredWriters.   *)

\* A hanging component cannot hold the shutdown: once requested, it ends with
\* ownership given up or kept.
ShutdownEnds == stop = "stopping" ~> stop \in {"completed", "retained"}

\* The inventory's "write-capable shutdown failures retain the fence, lease, and
\* store" and the test "stops periodic and external writers before releasing
\* SQLite ownership" read without the word registered: no write-capable work of
\* this process is in flight once ownership is given up.
OwnershipOutlivesWriters ==
    owns # {"fence", "lease", "store"} =>
        awaiting \in {Nothing, "healthServer"}
=============================================================================
