------------------------ MODULE OrchestratorIdentity ------------------------
(***************************************************************************)
(* Who the Orchestrator is: one Binding row, the runtime identity claim     *)
(* that backs it, and the three writers that change them concurrently:      *)
(*                                                                         *)
(*  - the clear workflow, which has Core rotate the native session of the   *)
(*    Pane and then moves the Binding to the next session epoch             *)
(*    (coordinator/orchestrator-clear-workflow.ts);                         *)
(*  - the identity migration workflow, which has Core move the Pane to the  *)
(*    Space 'herdr' under the token 'orch'                                  *)
(*    (coordinator/orchestrator-identity-migration-workflow.ts);            *)
(*  - the runtime reconciliation pass, which applies snapshots of Core's    *)
(*    Panes, possibly long after they were taken                            *)
(*    (coordinator/binding-reconciliation-pass.ts).                         *)
(*                                                                         *)
(* Core is external.  A call to it is fenced and idempotent per operation;  *)
(* it may be executed after the caller stopped waiting, and it survives a   *)
(* crash of the bridge.                                                     *)
(*                                                                         *)
(* The Workspace and the Pane id always change together and are one field,  *)
(* `place`.  Sessions and terminals are numbered in the order Core creates  *)
(* them.  Prompts, other Bindings and the discovery of new Panes are left   *)
(* out.                                                                     *)
(***************************************************************************)
EXTENDS Naturals

CONSTANT Scenarios  \* how often each fault and request may happen; where the Pane starts;
                    \* whether answer cards of the old session are to be withdrawn

VARIABLES
    scenario,   \* the scenario of this behaviour
    used,       \* what was used up of it
    core,       \* the Pane as Core has it
    calls,      \* calls sent to Core and not executed yet
    receipt,    \* Core's receipt for the clear operation: its new session, or 0
    moved,      \* Core's receipt for the migration: TRUE once applied
    bind,       \* the row of table bindings
    claim,      \* the row of runtime_identity_claims for the current epoch
    clear,      \* the last row of orchestrator_clear_operations
    mig,        \* the last row of orchestrator_identity_migrations
    req,        \* a clear request between its awaits
    lane,       \* the drain of the Binding's clear operations
    mover,      \* the migration workflow's reconcile
    pass,       \* the reconciliation pass
    seen        \* the Pane at the acknowledged snapshot cursor; Nothing before the first

store == <<bind, claim, clear, mig>>
external == <<core, calls, receipt, moved>>
process == <<req, lane, mover, pass, seen>>
vars == <<scenario, used, store, external, process>>

Faults == {"ask", "crash", "lost", "relabel", "vanish", "unregister", "turn", "noprobe"}
Spend(f) == /\ used[f] < scenario[f]
            /\ used' = [used EXCEPT ![f] = @ + 1]
            /\ UNCHANGED scenario

Nothing == [live |-> FALSE]
Idle == [pc |-> "idle"]

-----------------------------------------------------------------------------
\* States of the two kinds of operations.

ClearOpen == {"accepted", "rotating", "uncertain"}
ClearHeld == ClearOpen \union {"withdrawing"}
MigOpen == {"accepted", "applying", "uncertain"}

hasActiveIdentityMigration == mig.st \in MigOpen

\* The fences an operation froze when it was accepted.
ClearFence(b) == /\ b.epoch = clear.epoch /\ b.place = clear.place
                 /\ b.term = clear.term /\ b.sess = clear.sess /\ b.token = "orch"
MigFence(b) == /\ b.att = "attached" /\ b.place = mig.place
               /\ b.term = mig.term /\ b.token = mig.token

ShowsRuntime(pane, b) == pane.live /\ pane.reg /\ pane.place = b.place
                         /\ pane.term = b.term /\ pane.sess = b.sess

Init ==
    /\ scenario \in Scenarios
    /\ used = [f \in Faults |-> 0]
    /\ core = [live |-> TRUE, reg |-> TRUE, sess |-> 1, term |-> 1, seq |-> 1,
               place |-> scenario.place, token |-> IF scenario.place = "home" THEN "orch" ELSE "old"]
    /\ bind = [sess |-> 1, epoch |-> 1, term |-> 1, att |-> "attached",
               place |-> core.place, token |-> core.token]
    /\ claim = [st |-> "current", sess |-> 1, place |-> core.place, term |-> 1]
    /\ clear = [st |-> "none"] /\ mig = [st |-> "none"]
    /\ calls = {} /\ receipt = 0 /\ moved = FALSE
    /\ req = Idle /\ lane = Idle /\ mover = Idle /\ pass = Idle
    /\ seen = Nothing

-----------------------------------------------------------------------------
\* A request to clear the context.

\* The Binding is captured; listWorkspaces and observeRuntime are awaited after it.
RequestCapture ==
    /\ req.pc = "idle"
    /\ bind.att = "attached" /\ bind.place = "home" /\ bind.token = "orch"
    /\ ~hasActiveIdentityMigration
    /\ Spend("ask")
    /\ req' = [pc |-> "captured", bind |-> bind]
    /\ UNCHANGED <<store, external, lane, mover, pass, seen>>

RequestObserve ==
    /\ req.pc = "captured"
    /\ req' = IF ShowsRuntime(core, req.bind)
              THEN [pc |-> "observed", bind |-> req.bind, seq |-> core.seq]
              ELSE Idle
    /\ UNCHANGED <<scenario, used, store, external, lane, mover, pass, seen>>

\* Faulty variant: the migration is only looked for before the awaits of the request.
MayAcceptUnchecked == clear.st \notin ClearHeld

\* The transaction of accept(): no active migration, and by the unique index no other
\* operation of this Binding that is not terminal.
MayAccept == ~hasActiveIdentityMigration /\ clear.st \notin ClearHeld

RequestAccept ==
    /\ req.pc = "observed"
    /\ req' = Idle
    /\ IF MayAccept
       THEN /\ clear' = [st |-> "accepted", epoch |-> req.bind.epoch, place |-> req.bind.place,
                         term |-> req.bind.term, sess |-> req.bind.sess, seq |-> req.seq]
            /\ receipt' = 0
            /\ calls' = calls \ {"rotate"}
       ELSE UNCHANGED <<clear, receipt, calls>>
    /\ UNCHANGED <<scenario, used, core, moved, bind, claim, mig, lane, mover, pass, seen>>

-----------------------------------------------------------------------------
\* The lane that drains the operation.

LaneStart ==
    /\ lane.pc = "idle" /\ clear.st \in ClearOpen
    /\ lane' = [pc |-> IF clear.st # "accepted" THEN "probe"
                       ELSE IF ClearFence(bind) THEN "observe" ELSE "reject"]
    /\ UNCHANGED <<scenario, used, store, external, req, mover, pass, seen>>

LaneObserve ==
    /\ lane.pc = "observe"
    /\ lane' = [pc |-> IF ShowsRuntime(core, clear) /\ core.seq = clear.seq THEN "claim" ELSE "reject"]
    /\ UNCHANGED <<scenario, used, store, external, req, mover, pass, seen>>

LaneReject ==
    /\ lane.pc = "reject"
    /\ clear' = [clear EXCEPT !.st = "rejected"]
    /\ lane' = Idle
    /\ UNCHANGED <<scenario, used, external, bind, claim, mig, req, mover, pass, seen>>

\* claimNext() checks the whole Binding row again, in the claiming transaction.
LaneClaim ==
    /\ lane.pc = "claim"
    /\ IF ClearFence(bind) /\ bind.att = "attached"
       THEN clear' = [clear EXCEPT !.st = "rotating"] /\ lane' = [pc |-> "probe"]
       ELSE lane' = Idle /\ UNCHANGED clear
    /\ UNCHANGED <<scenario, used, external, bind, claim, mig, req, mover, pass, seen>>

LaneCall ==
    /\ lane.pc = "probe"
    /\ lane' = [pc |-> "call", reply |-> "none"]
    /\ calls' = calls \union {"rotate"}
    /\ UNCHANGED <<scenario, used, store, core, receipt, moved, req, mover, pass, seen>>

\* supportsSessionRotation() answers false when its probe fails.
LaneNoCapability ==
    /\ lane.pc = "probe"
    /\ Spend("noprobe")
    /\ clear' = [clear EXCEPT !.st = "rejected"]
    /\ lane' = Idle
    /\ UNCHANGED <<external, bind, claim, mig, req, mover, pass, seen>>

\* Faulty variant: a lost answer is taken for a refusal.
AfterLostAnswerRejected(st) == "rejected"

\* markRotationUncertain(): the answer was late, lost, malformed or 'rotating'.
AfterLostAnswer(st) == IF st = "rotating" THEN "uncertain" ELSE st

LaneLost ==
    /\ lane.pc = "call"
    /\ Spend("lost")
    /\ clear' = [clear EXCEPT !.st = AfterLostAnswer(@)]
    /\ lane' = Idle
    /\ UNCHANGED <<external, bind, claim, mig, req, mover, pass, seen>>

\* assertTransitionFence(): the claim of the owner must agree with the Binding.
ClaimAgrees(b) == claim.st = "current" => /\ b.att # "orphaned" /\ claim.sess = b.sess
                                         /\ claim.place = b.place /\ claim.term = b.term

\* persistTransitionTarget(): only an attached Binding is claimed again.
ClaimAfter(b) == IF b.att = "attached"
                 THEN [st |-> "current", sess |-> b.sess, place |-> b.place, term |-> b.term]
                 ELSE [st |-> "unclaimed"]

\* applyRotationReceipt(): a changed Binding rejects the operation; a claim that does not
\* agree, or withdrawals of a Binding that is not attached, roll the transaction back.
ApplyRotation ==
    LET next == [bind EXCEPT !.epoch = @ + 1, !.sess = receipt]
        rolledBack == ~ClaimAgrees(bind) \/ (scenario.targets /\ bind.att # "attached")
    IN  IF ~ClearFence(bind)
        THEN clear' = [clear EXCEPT !.st = "rejected"] /\ UNCHANGED <<bind, claim>>
        ELSE IF rolledBack
        THEN clear' = [clear EXCEPT !.st = AfterLostAnswer(@)] /\ UNCHANGED <<bind, claim>>
        ELSE /\ clear' = [clear EXCEPT !.st = IF scenario.targets THEN "withdrawing" ELSE "succeeded"]
             /\ bind' = next
             /\ claim' = ClaimAfter(next)

LaneAnswer ==
    /\ lane.pc = "call" /\ lane.reply # "none"
    /\ lane' = Idle
    /\ IF lane.reply = "done" THEN ApplyRotation
       ELSE clear' = [clear EXCEPT !.st = "rejected"] /\ UNCHANGED <<bind, claim>>
    /\ UNCHANGED <<scenario, used, external, mig, req, mover, pass, seen>>

\* settleAnswerWithdrawal(), once the delivery engine settled the last deletion.
SettleWithdrawal ==
    /\ clear.st = "withdrawing"
    /\ \E st \in {"succeeded", "partial"} : clear' = [clear EXCEPT !.st = st]
    /\ UNCHANGED <<scenario, used, external, bind, claim, mig, process>>

-----------------------------------------------------------------------------
\* The identity migration workflow.

\* Faulty variant: an operation that was being applied is left to its first caller.
MayClaimAccepted == mig.st # "applying" /\ MigFence(bind) /\ clear.st \notin ClearOpen

\* reconcileOnce() recovers the open operation first; 'applying' needs no claim.
MayClaim == mig.st = "applying" \/ (MigFence(bind) /\ clear.st \notin ClearOpen)

MoverRecover ==
    /\ mover.pc = "idle" /\ mig.st \in MigOpen
    /\ MayClaim
    /\ mig' = [mig EXCEPT !.st = "applying"]
    /\ mover' = [pc |-> "probe"]
    /\ UNCHANGED <<scenario, used, external, bind, claim, clear, req, lane, pass, seen>>

MoverCapture ==
    /\ mover.pc = "idle" /\ mig.st \notin MigOpen
    /\ bind.att = "attached"
    /\ ~(bind.place = "home" /\ bind.token = "orch")
    /\ mover' = [pc |-> "resolve", bind |-> bind]
    /\ UNCHANGED <<scenario, used, store, external, req, lane, pass, seen>>

\* accept() and claim() follow the awaits of resolveTarget() in one synchronous stretch.
MoverAccept ==
    /\ mover.pc = "resolve"
    /\ LET op == [st |-> "accepted", place |-> mover.bind.place, term |-> mover.bind.term,
                  token |-> mover.bind.token]
           fits == /\ bind.att = "attached" /\ bind.place = op.place
                   /\ bind.term = op.term /\ bind.token = op.token
       IN  IF clear.st \in ClearOpen
           THEN mover' = Idle /\ UNCHANGED <<mig, moved, calls>>
           ELSE /\ mig' = [op EXCEPT !.st = IF fits THEN "applying" ELSE @]
                /\ mover' = IF fits THEN [pc |-> "probe"] ELSE Idle
                /\ moved' = FALSE
                /\ calls' = calls \ {"move"}
    /\ UNCHANGED <<scenario, used, core, receipt, bind, claim, clear, req, lane, pass, seen>>

MoverCall ==
    /\ mover.pc = "probe"
    /\ mover' = [pc |-> "call", reply |-> "none"]
    /\ calls' = calls \union {"move"}
    /\ UNCHANGED <<scenario, used, store, core, receipt, moved, req, lane, pass, seen>>

MoverNoCapability ==
    /\ mover.pc = "probe"
    /\ Spend("noprobe")
    /\ mig' = [mig EXCEPT !.st = "rejected"]
    /\ mover' = Idle
    /\ UNCHANGED <<external, bind, claim, clear, req, lane, pass, seen>>

MoverLost ==
    /\ mover.pc = "call"
    /\ Spend("lost")
    /\ mig' = [mig EXCEPT !.st = IF @ = "applying" THEN "uncertain" ELSE @]
    /\ mover' = Idle
    /\ UNCHANGED <<external, bind, claim, clear, req, lane, pass, seen>>

\* applyReceipt(): the fence, then the transition of Binding and claim.
ApplyMove ==
    LET next == [bind EXCEPT !.place = "home", !.token = "orch"]
    IN  IF ~MigFence(bind)
        THEN mig' = [mig EXCEPT !.st = "rejected"] /\ UNCHANGED <<bind, claim>>
        ELSE IF ~ClaimAgrees(bind)
        THEN mig' = [mig EXCEPT !.st = "uncertain"] /\ UNCHANGED <<bind, claim>>
        ELSE /\ mig' = [mig EXCEPT !.st = "succeeded"]
             /\ bind' = next
             /\ claim' = ClaimAfter(next)

MoverAnswer ==
    /\ mover.pc = "call" /\ mover.reply # "none"
    /\ mover' = Idle
    /\ IF mover.reply = "done" THEN ApplyMove
       ELSE mig' = [mig EXCEPT !.st = "rejected"] /\ UNCHANGED <<bind, claim>>
    /\ UNCHANGED <<scenario, used, external, clear, req, lane, pass, seen>>

-----------------------------------------------------------------------------
\* Core, as the two workflows call it.

Reply(waiter, outcome) == IF waiter.pc = "call" THEN [waiter EXCEPT !.reply = outcome] ELSE waiter

CoreRotate ==
    LET fits == ShowsRuntime(core, clear) /\ core.seq = clear.seq
    IN  /\ "rotate" \in calls
        /\ calls' = calls \ {"rotate"}
        /\ IF receipt = 0 /\ fits
           THEN core' = [core EXCEPT !.sess = @ + 1] /\ receipt' = core.sess + 1
           ELSE UNCHANGED <<core, receipt>>
        /\ lane' = Reply(lane, IF receipt # 0 \/ fits THEN "done" ELSE "refused")
        /\ UNCHANGED <<scenario, used, store, moved, req, mover, pass, seen>>

CoreMove ==
    LET fits == core.live /\ core.place = mig.place /\ core.term = mig.term /\ core.token = mig.token
    IN  /\ "move" \in calls
        /\ calls' = calls \ {"move"}
        /\ IF ~moved /\ fits
           THEN core' = [core EXCEPT !.place = "home", !.token = "orch"] /\ moved' = TRUE
           ELSE UNCHANGED <<core, moved>>
        /\ mover' = Reply(mover, IF moved \/ fits THEN "done" ELSE "refused")
        /\ UNCHANGED <<scenario, used, store, receipt, req, lane, pass, seen>>

-----------------------------------------------------------------------------
\* The reconciliation pass.

\* A pass over a changed snapshot.  A rebuild captures the Bindings when it starts; a
\* delta knows the Pane it had acknowledged.
PassRead ==
    /\ pass.pc = "idle" /\ seen # core
    /\ pass' = [pc |-> "read", pane |-> core, rebuild |-> seen = Nothing,
                epoch |-> bind.epoch, place |-> IF seen.live THEN seen.place ELSE bind.place]
    /\ UNCHANGED <<scenario, used, store, external, req, lane, mover, seen>>

\* Faulty variant: the Pane's place and claim are enough, whatever session it runs.
DecideByPlace(b, c, pane) ==
    IF c.st = "unclaimed" \/ c.place # pane.place THEN "refused" ELSE "observed"

\* decideRuntimeIdentityReconciliation() on a registered Pane at the Binding's place.
decideRuntimeIdentityReconciliation(b, c, pane) ==
    IF c.st = "unclaimed"
    THEN IF b.att = "attached" /\ b.term = pane.term THEN "adopt" ELSE "refused"
    ELSE IF c.place # pane.place \/ c.sess # pane.sess THEN "refused"
    ELSE "observed"
Converge(pane) ==
    LET next == [bind EXCEPT !.sess = pane.sess, !.term = pane.term,
                             !.token = pane.token, !.att = "attached"]
    IN  IF ~pane.reg
        THEN /\ bind' = [bind EXCEPT !.att = IF @ = "orphaned" THEN @ ELSE "degraded"]
             /\ UNCHANGED claim
        ELSE IF decideRuntimeIdentityReconciliation(bind, claim, pane) = "refused"
        THEN UNCHANGED <<bind, claim>>
        ELSE bind' = next /\ claim' = ClaimAfter(next)

\* reconcileDelta() and reconcileOnce(): a Binding under migration is skipped, a Pane that
\* left its place orphans its Binding, and the snapshot is acknowledged in any case.
PassApply ==
    LET pane == pass.pane
        left == ~pane.live \/ pane.place # pass.place
        stale == pass.rebuild /\ pass.epoch # bind.epoch
    IN  /\ pass.pc = "read"
        /\ pass' = Idle
        /\ seen' = pane
        /\ IF hasActiveIdentityMigration THEN UNCHANGED <<bind, claim>>
           ELSE IF left /\ bind.place = pass.place
           THEN bind' = [bind EXCEPT !.att = "orphaned"] /\ UNCHANGED claim
           ELSE IF ~pane.live \/ pane.place # bind.place \/ stale THEN UNCHANGED <<bind, claim>>
           ELSE Converge(pane)
        /\ UNCHANGED <<scenario, used, external, clear, mig, req, lane, mover>>

-----------------------------------------------------------------------------
\* The world.

World(f, next) == /\ Spend(f)
                  /\ core' = next
                  /\ UNCHANGED <<store, calls, receipt, moved, process>>

Turn == core.live /\ World("turn", [core EXCEPT !.seq = @ + 1])
Relabel == core.live /\ World("relabel", [core EXCEPT !.token = "old"])
Unregister == core.live /\ core.reg /\ World("unregister", [core EXCEPT !.reg = FALSE])
Vanish == /\ core.live
          /\ scenario.calm => clear.st \notin {"rotating", "uncertain"}
          /\ World("vanish", [core EXCEPT !.live = FALSE])

\* Core registers the Agent again, or restores the Pane with a new terminal and its session.
Return ==
    /\ ~(core.live /\ core.reg)
    /\ core' = [core EXCEPT !.live = TRUE, !.reg = TRUE, !.term = IF core.live THEN @ ELSE @ + 1]
    /\ UNCHANGED <<scenario, used, store, calls, receipt, moved, process>>

Crash ==
    /\ Spend("crash")
    /\ req' = Idle /\ lane' = Idle /\ mover' = Idle /\ pass' = Idle
    /\ seen' = Nothing
    /\ UNCHANGED <<store, external>>

-----------------------------------------------------------------------------
Lane == LaneStart \/ LaneObserve \/ LaneReject \/ LaneClaim \/ LaneCall \/ LaneAnswer
Mover == MoverRecover \/ MoverCapture \/ MoverAccept \/ MoverCall \/ MoverAnswer
Request == RequestObserve \/ RequestAccept
Pass == PassRead \/ PassApply
CoreStep == CoreRotate \/ CoreMove

Next ==
    \/ RequestCapture \/ RequestObserve \/ RequestAccept
    \/ LaneStart \/ LaneObserve \/ LaneReject \/ LaneClaim \/ LaneCall \/ LaneAnswer
    \/ LaneNoCapability \/ LaneLost \/ SettleWithdrawal
    \/ MoverRecover \/ MoverCapture \/ MoverAccept \/ MoverCall \/ MoverAnswer
    \/ MoverNoCapability \/ MoverLost
    \/ CoreRotate \/ CoreMove
    \/ PassRead \/ PassApply
    \/ Turn \/ Relabel \/ Unregister \/ Vanish \/ Return \/ Crash

Spec == Init /\ [][Next]_vars

Fairness == /\ WF_vars(Request) /\ WF_vars(Lane) /\ WF_vars(Mover) /\ WF_vars(Pass)
            /\ WF_vars(CoreRotate) /\ WF_vars(CoreMove) /\ WF_vars(Return)

FairSpec == Spec /\ Fairness

-----------------------------------------------------------------------------
(***************************************************************************)
(* Properties                                                              *)
(***************************************************************************)

\* The clear of a Binding and the migration of its Pane are never open at the same time,
\* whatever changed between the awaits of the two workflows: each would otherwise
\* invalidate the identity the other has asked Core to act on.
Serialized == ~(clear.st \in ClearOpen /\ mig.st \in MigOpen)

\* A token changed behind the workflows' back is a different matter: the README says how.
Undisturbed == scenario.relabel = 0

\* A clear operation that ends as rejected had no effect: Core did not rotate the session
\* for it, neither before the rejection nor by a late call after it, unless the Pane's
\* token was changed by someone else.
RejectedMeansUnrotated == Undisturbed => (clear.st = "rejected" => receipt = 0)

\* Within one session epoch the Binding belongs to one native session, and an older session
\* never comes back: no late snapshot, recovery or migration may change the session, only
\* the receipt of a rotation, which opens the next epoch.
OneSessionPerEpoch ==
    [][bind'.sess # bind.sess => bind'.epoch = bind.epoch + 1 /\ bind'.sess > bind.sess]_bind

Settled == /\ clear.st \notin ClearOpen /\ mig.st \notin MigOpen
           /\ bind.att = "attached" /\ bind.place = "home" /\ bind.token = "orch"
           /\ bind.sess = core.sess

\* Once the faults are over the Binding comes to rest: no operation is open, it is attached,
\* at home under the token 'orch', and it names the session that Core runs.
IdentityConverges == Undisturbed => <>[]Settled

\* The same without the proviso; a skipped snapshot breaks it (see the README).
AnyIdentityConverges == <>[]Settled

=============================================================================
