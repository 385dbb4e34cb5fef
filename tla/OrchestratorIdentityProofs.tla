-------------------- MODULE OrchestratorIdentityProofs --------------------
(***************************************************************************)
(* What OrchestratorIdentity guarantees however often the faults of a      *)
(* scenario happen: the clear and the migration of the Orchestrator never  *)
(* overlap, a session only changes with its epoch, and a rejected clear    *)
(* rotated nothing.                                                        *)
(***************************************************************************)
EXTENDS OrchestratorIdentity, TLAPS

\* The rows and the states of the processes.
Places == {"home"} \union {s.place : s \in Scenarios}
Tokens == {"orch", "old"}
Panes == [live : BOOLEAN, reg : BOOLEAN, sess : Nat, term : Nat, seq : Nat,
          place : Places, token : Tokens]
Bindings == [sess : Nat, epoch : Nat, term : Nat, att : {"attached", "degraded", "orphaned"},
             place : Places, token : Tokens]
Claims == [st : {"current"}, sess : Nat, place : Places, term : Nat] \union [st : {"unclaimed"}]
ClearStates == ClearHeld \union {"succeeded", "partial", "rejected"}
ClearRows == [st : ClearStates, epoch : Nat, place : Places, term : Nat, sess : Nat, seq : Nat]
MigStates == MigOpen \union {"succeeded", "rejected"}
Migrations == [st : MigStates, place : Places, term : Nat, token : Tokens]
Waiters == [pc : {"call"}, reply : {"none", "done", "refused"}]
Requests == {Idle} \union [pc : {"captured"}, bind : Bindings]
                   \union [pc : {"observed"}, bind : Bindings, seq : Nat]
Lanes == [pc : {"idle", "observe", "reject", "claim", "probe"}] \union Waiters
Movers == [pc : {"idle", "probe"}] \union [pc : {"resolve"}, bind : Bindings] \union Waiters
Passes == {Idle} \union [pc : {"read"}, pane : Panes, rebuild : BOOLEAN, epoch : Nat,
                         place : Places]
NoOperation == [st |-> "none"]

TypeOK ==
    /\ scenario \in Scenarios /\ used \in [Faults -> Nat]
    /\ core \in Panes /\ bind \in Bindings /\ claim \in Claims
    /\ clear \in {NoOperation} \union ClearRows
    /\ mig \in {NoOperation} \union Migrations
    /\ calls \subseteq {"rotate", "move"} /\ receipt \in Nat /\ moved \in BOOLEAN
    /\ req \in Requests /\ lane \in Lanes /\ mover \in Movers /\ pass \in Passes
    /\ seen \in {Nothing} \union Panes

\* The lane and the migration workflow are between two awaits only for an open operation.
LaneHasOperation ==
    /\ lane.pc \in {"observe", "claim", "reject"} => clear.st = "accepted"
    /\ lane.pc \in {"probe", "call"} => clear.st \in {"rotating", "uncertain"}
MoverHasOperation == mover.pc \in {"probe", "call"} => mig.st \in MigOpen

\* The claim names the session of the Binding, and only a Binding that is not attached has none.
ClaimOfBinding == /\ claim.st = "current" => claim.sess = bind.sess
                  /\ claim.st = "unclaimed" => bind.att # "attached"

\* A receipt, or a call that may still earn one, belongs to an operation that was claimed; the
\* receipt names the session after the one the operation froze.
ReceiptOfOperation ==
    /\ "rotate" \in calls => clear.st \notin {"none", "accepted"}
    /\ receipt # 0 => clear.st \notin {"none", "accepted"} /\ receipt = clear.sess + 1

\* Core's answer is what its receipt says.
AnswerIsReceipt ==
    lane.pc = "call" => /\ lane.reply = "done" => receipt # 0
                        /\ lane.reply = "refused" => receipt = 0 /\ "rotate" \notin calls

IInv == /\ TypeOK /\ LaneHasOperation /\ MoverHasOperation /\ Serialized /\ ClaimOfBinding
        /\ ReceiptOfOperation /\ AnswerIsReceipt

\* No token is changed by someone else and no capability probe fails.
Proviso == Undisturbed /\ scenario.noprobe = 0

\* Terminals only grow, and no record of one is ahead of Core.
TerminalsGrow ==
    /\ bind.term <= core.term
    /\ pass.pc = "read" => bind.term <= pass.pane.term /\ pass.pane.term <= core.term
    /\ req.pc # "idle" => req.bind.term <= core.term
    /\ clear.st # "none" => clear.term <= core.term

\* A Pane at home has the token 'orch', and only a Binding at home is cleared.
HomeIsNamed ==
    /\ core.place = "home" => core.token = "orch"
    /\ pass.pc = "read" /\ pass.pane.place = "home" => pass.pane.token = "orch"
HomeIsCleared ==
    /\ req.pc # "idle" => req.bind.place = "home"
    /\ clear.st # "none" => clear.place = "home"

\* As long as the terminal of the operation lives, and from the rotation on even if it does not,
\* a rotation that was claimed still finds its Binding.
FenceStands ==
    clear.st \in {"rotating", "uncertain"} =>
        ((core.term = clear.term \/ receipt # 0) => ClearFence(bind))

\* That is so because the Pane has left the session of the Binding: a snapshot that still shows
\* the session was taken before the rotation, of the terminal the operation froze.
RotatedIsAhead ==
    (clear.st \in {"rotating", "uncertain"} /\ receipt # 0) =>
        /\ clear.sess < core.sess
        /\ (pass.pc = "read" /\ pass.pane.sess = clear.sess) => pass.pane.term <= clear.term

RejectedIsSilent == clear.st = "rejected" => receipt = 0 /\ "rotate" \notin calls

Fenced == TerminalsGrow /\ HomeIsNamed /\ HomeIsCleared /\ FenceStands /\ RejectedIsSilent

PInv == Fenced /\ RotatedIsAhead

RInv == IInv /\ (Proviso => PInv)

-----------------------------------------------------------------------------
\* A fault that is spent leaves the counters counters.
LEMMA SpendCounts ==
    ASSUME TypeOK, NEW f \in Faults, Spend(f)
    PROVE  /\ used' \in [Faults -> Nat] /\ scenario' = scenario
           /\ used[f] \in Nat /\ used[f] < scenario[f]
  BY DEF TypeOK, Spend

\* A state written to an operation changes nothing else of its row.
LEMMA ClearRowUpdate ==
    ASSUME clear \in ClearRows, NEW s \in ClearStates
    PROVE  LET row == [clear EXCEPT !.st = s]
           IN  /\ row \in ClearRows /\ row.st = s /\ row.epoch = clear.epoch
               /\ row.place = clear.place /\ row.term = clear.term /\ row.sess = clear.sess
               /\ row.seq = clear.seq
  BY DEF ClearRows
LEMMA MigRowUpdate ==
    ASSUME mig \in Migrations, NEW s \in MigStates
    PROVE  LET row == [mig EXCEPT !.st = s] IN row \in Migrations /\ row.st = s
  BY DEF Migrations

\* The lane and the workflow work on a row.
LEMMA OperationExists ==
    ASSUME IInv
    PROVE  /\ clear.st # "none" => clear \in ClearRows
           /\ mig.st # "none" => mig \in Migrations
           /\ lane.pc # "idle" => clear \in ClearRows
           /\ mover.pc \in {"probe", "call"} => mig \in Migrations
  <1>1. /\ clear.st # "none" => clear \in ClearRows
        /\ mig.st # "none" => mig \in Migrations
    BY DEF IInv, TypeOK, NoOperation
  <1>2. lane.pc # "idle" => clear.st # "none"
    BY DEF IInv, TypeOK, LaneHasOperation, Lanes, Waiters
  <1>3. mover.pc \in {"probe", "call"} => mig.st # "none"
    BY DEF IInv, MoverHasOperation, MigOpen
  <1> QED BY <1>1, <1>2, <1>3

\* persistTransitionTarget() claims an attached Binding for its session and nothing else.
LEMMA ClaimFollows ==
    ASSUME NEW b \in Bindings
    PROVE  /\ ClaimAfter(b) \in Claims
           /\ ClaimAfter(b).st = "current" => ClaimAfter(b).sess = b.sess
           /\ ClaimAfter(b).st = "unclaimed" => b.att # "attached"
  BY DEF ClaimAfter, Claims, Bindings

\* What the reconciliation pass may do to the Binding: nothing, detach it, or attach it to the
\* Pane at its place, which runs the session the Binding already has.
LEMMA PassOutcome ==
    ASSUME IInv, PassApply
    PROVE  /\ pass.pane \in Panes
           /\ \/ bind' = bind /\ claim' = claim
              \/ \E s \in {"orphaned", "degraded"} :
                    bind' = [bind EXCEPT !.att = s] /\ claim' = claim
              \/ /\ pass.pane.live /\ pass.pane.place = bind.place
                 /\ pass.pane.sess = bind.sess
                 /\ bind' = [bind EXCEPT !.sess = pass.pane.sess, !.term = pass.pane.term,
                                         !.token = pass.pane.token, !.att = "attached"]
                 /\ claim' = ClaimAfter(bind')
  <1>1. pass.pane \in Panes
    BY DEF IInv, TypeOK, PassApply, Passes, Idle
  <1>2. \/ bind' = bind /\ claim' = claim
        \/ bind' = [bind EXCEPT !.att = "orphaned"] /\ claim' = claim
        \/ Converge(pass.pane) /\ pass.pane.live /\ pass.pane.place = bind.place
    BY DEF PassApply
  <1>3. ASSUME Converge(pass.pane), pass.pane.live, pass.pane.place = bind.place
        PROVE  \/ bind' = bind /\ claim' = claim
               \/ \E s \in {"orphaned", "degraded"} :
                     bind' = [bind EXCEPT !.att = s] /\ claim' = claim
               \/ /\ pass.pane.sess = bind.sess
                  /\ bind' = [bind EXCEPT !.sess = pass.pane.sess, !.term = pass.pane.term,
                                          !.token = pass.pane.token, !.att = "attached"]
                  /\ claim' = ClaimAfter(bind')
    <2>1. CASE ~pass.pane.reg
      <3>1. bind' = [bind EXCEPT !.att = IF bind.att = "orphaned" THEN bind.att ELSE "degraded"]
        BY <1>3, <2>1 DEF Converge
      <3>2. claim' = claim
        BY <1>3, <2>1 DEF Converge
      <3>3. CASE bind.att = "orphaned"
        <4>1. bind' = [bind EXCEPT !.att = "orphaned"]
          BY <3>1, <3>3
        <4> QED BY <3>2, <4>1
      <3>4. CASE bind.att # "orphaned"
        <4>1. bind' = [bind EXCEPT !.att = "degraded"]
          BY <3>1, <3>4
        <4> QED BY <3>2, <4>1
      <3> QED BY <3>3, <3>4
    <2>2. CASE pass.pane.reg
      <3>1. CASE decideRuntimeIdentityReconciliation(bind, claim, pass.pane) = "refused"
        BY <1>3, <2>2, <3>1 DEF Converge
      <3>2. CASE decideRuntimeIdentityReconciliation(bind, claim, pass.pane) # "refused"
        <4>1. claim.st = "current" /\ claim.sess = pass.pane.sess
          BY <3>2 DEF decideRuntimeIdentityReconciliation, IInv, ClaimOfBinding, TypeOK, Claims
        <4>2. pass.pane.sess = bind.sess
          BY <4>1 DEF IInv, ClaimOfBinding
        <4> QED BY <1>3, <2>2, <3>2, <4>2 DEF Converge
      <3> QED BY <3>1, <3>2
    <2> QED BY <2>1, <2>2
  <1> QED BY <1>1, <1>2, <1>3

\* What the receipt of a rotation may do: open the next epoch for a Binding that still fits the
\* fence, or only write another state to the operation, 'rejected' where the fence is gone.
LEMMA RotationOutcome ==
    ASSUME IInv, LaneAnswer
    PROVE  /\ clear \in ClearRows
           /\ \/ /\ bind' = bind /\ claim' = claim
                 /\ \E s \in {"rejected", "uncertain", clear.st} : clear' = [clear EXCEPT !.st = s]
                 /\ clear'.st = "rejected" => lane.reply = "refused" \/ ~ClearFence(bind)
              \/ /\ lane.reply = "done" /\ ClearFence(bind)
                 /\ bind' = [bind EXCEPT !.epoch = @ + 1, !.sess = receipt]
                 /\ claim' = ClaimAfter(bind')
                 /\ \E s \in {"withdrawing", "succeeded"} : clear' = [clear EXCEPT !.st = s]
  <1>1. lane.pc = "call" /\ clear \in ClearRows /\ clear.st \in {"rotating", "uncertain"}
    BY OperationExists DEF LaneAnswer, IInv, LaneHasOperation
  <1>2. lane.reply \in {"done", "refused"}
    BY <1>1 DEF LaneAnswer, IInv, TypeOK, Lanes, Waiters
  <1>3. clear.st \in ClearStates /\ {"rejected", "uncertain", "withdrawing", "succeeded"} \subseteq ClearStates
    BY <1>1 DEF ClearRows, ClearStates, ClearHeld, ClearOpen
  <1>4. CASE lane.reply = "refused"
    BY <1>1, <1>4 DEF LaneAnswer
  <1>5. CASE lane.reply = "done"
    <2>1. ApplyRotation
      BY <1>5 DEF LaneAnswer
    <2>2. CASE ~ClearFence(bind)
      BY <1>1, <2>1, <2>2 DEF ApplyRotation
    <2>3. CASE ClearFence(bind) /\ (~ClaimAgrees(bind) \/ (scenario.targets /\ bind.att # "attached"))
      <3>1. clear' = [clear EXCEPT !.st = AfterLostAnswer(clear.st)] /\ bind' = bind /\ claim' = claim
        BY <2>1, <2>3 DEF ApplyRotation
      <3>2. AfterLostAnswer(clear.st) \in {"uncertain", clear.st}
        BY DEF AfterLostAnswer
      <3>3. clear'.st = AfterLostAnswer(clear.st) /\ AfterLostAnswer(clear.st) # "rejected"
        BY <1>1, <3>1, <3>2 DEF ClearRows
      <3> QED BY <1>1, <3>1, <3>2, <3>3
    <2>4. CASE ClearFence(bind) /\ ~(~ClaimAgrees(bind) \/ (scenario.targets /\ bind.att # "attached"))
      <3>1. /\ clear' = [clear EXCEPT !.st = IF scenario.targets THEN "withdrawing" ELSE "succeeded"]
            /\ bind' = [bind EXCEPT !.epoch = @ + 1, !.sess = receipt]
            /\ claim' = ClaimAfter(bind')
        BY <2>1, <2>4 DEF ApplyRotation
      <3> QED BY <1>1, <1>5, <2>4, <3>1
    <2> QED BY <2>2, <2>3, <2>4
  <1> QED BY <1>2, <1>4, <1>5

\* What the receipt of a migration may do.
LEMMA MoveOutcome ==
    ASSUME IInv, MoverAnswer
    PROVE  /\ mig \in Migrations /\ mig.st \in MigOpen
           /\ \/ /\ bind' = bind /\ claim' = claim
                 /\ \E s \in {"rejected", "uncertain"} : mig' = [mig EXCEPT !.st = s]
              \/ /\ bind' = [bind EXCEPT !.place = "home", !.token = "orch"]
                 /\ claim' = ClaimAfter(bind')
                 /\ mig' = [mig EXCEPT !.st = "succeeded"]
  <1>1. mig \in Migrations /\ mig.st \in MigOpen
    BY OperationExists DEF MoverAnswer, IInv, MoverHasOperation
  <1> QED BY <1>1 DEF MoverAnswer, ApplyMove
-----------------------------------------------------------------------------
\* Every step of the request, the lane, the migration workflow, Core, the reconciliation pass
\* and the world keeps the invariant.
LEMMA StepKeepsInvariant == IInv /\ [Next]_vars => IInv'
  <1> SUFFICES ASSUME IInv, [Next]_vars PROVE IInv'
    OBVIOUS
  <1> USE DEF store, external, process
  <1>1. ASSUME RequestCapture PROVE IInv'
    <2>1. used' \in [Faults -> Nat]
      BY <1>1, SpendCounts
         DEF RequestCapture, IInv, Faults
    <2>2. req' \in Requests
      BY <1>1
         DEF RequestCapture, Spend, IInv, TypeOK, Requests, Panes, Idle, Bindings
    <2>3. TypeOK'
      BY <1>1, <2>1, <2>2
         DEF RequestCapture, Spend, IInv, TypeOK
    <2>4. (LaneHasOperation /\ MoverHasOperation /\ Serialized /\ ClaimOfBinding /\ ReceiptOfOperation /\ AnswerIsReceipt)'
      BY <1>1
         DEF RequestCapture, IInv, LaneHasOperation, MoverHasOperation, Serialized,
             ClaimOfBinding, ReceiptOfOperation, AnswerIsReceipt, ClearOpen, MigOpen
    <2> QED BY <2>3, <2>4 DEF IInv
  <1>2. ASSUME RequestObserve PROVE IInv'
    <2>1. req' \in Requests
      BY <1>2
         DEF RequestObserve, ShowsRuntime, IInv, TypeOK, Requests, Panes, Idle, Bindings
    <2>2. TypeOK'
      BY <1>2, <2>1
         DEF RequestObserve, IInv, TypeOK
    <2>3. (LaneHasOperation /\ MoverHasOperation /\ Serialized /\ ClaimOfBinding /\ ReceiptOfOperation /\ AnswerIsReceipt)'
      BY <1>2
         DEF RequestObserve, IInv, LaneHasOperation, MoverHasOperation, Serialized,
             ClaimOfBinding, ReceiptOfOperation, AnswerIsReceipt, ClearOpen, MigOpen
    <2> QED BY <2>2, <2>3 DEF IInv
  <1>3. ASSUME RequestAccept PROVE IInv'
    <2>1. req' \in Requests
      BY <1>3
         DEF RequestAccept, MayAccept, hasActiveIdentityMigration, IInv, TypeOK, Requests, Panes,
             Idle, Bindings
    <2>2. clear' \in {NoOperation} \union ClearRows
      BY <1>3
         DEF RequestAccept, MayAccept, hasActiveIdentityMigration, IInv, TypeOK, ClearRows,
             ClearStates, ClearHeld, ClearOpen, NoOperation, Requests, Bindings, Idle, Places
    <2>3. receipt' \in Nat
      BY <1>3
         DEF RequestAccept, MayAccept, hasActiveIdentityMigration, IInv, TypeOK, Panes
    <2>4. calls' \subseteq {"rotate", "move"}
      BY <1>3
         DEF RequestAccept, MayAccept, hasActiveIdentityMigration, IInv, TypeOK
    <2>5. TypeOK'
      BY <1>3, <2>1, <2>2, <2>3, <2>4
         DEF RequestAccept, IInv, TypeOK
    <2>6. (MoverHasOperation /\ ClaimOfBinding)'
      BY <1>3
         DEF RequestAccept, IInv, MoverHasOperation, ClaimOfBinding, ClearOpen, MigOpen
    <2>7. LaneHasOperation'
      BY <1>3
         DEF RequestAccept, MayAccept, hasActiveIdentityMigration, IInv, TypeOK, LaneHasOperation,
             AnswerIsReceipt, Lanes, Waiters, Idle, ClearHeld, ClearOpen, ClearRows, ClearStates,
             NoOperation
    <2>8. Serialized'
      BY <1>3
         DEF RequestAccept, MayAccept, hasActiveIdentityMigration, IInv, TypeOK, Serialized,
             LaneHasOperation, MoverHasOperation, ClearHeld, ClearOpen, MigOpen, ClearRows,
             ClearStates, Migrations, MigStates, NoOperation, Lanes, Movers, Waiters, Idle
    <2>9. ReceiptOfOperation'
      BY <1>3
         DEF RequestAccept, MayAccept, hasActiveIdentityMigration, IInv, TypeOK,
             ReceiptOfOperation, LaneHasOperation, ClearOpen, ClearHeld, ClearRows, ClearStates,
             NoOperation, Panes, Requests, Idle
    <2>10. AnswerIsReceipt'
      BY <1>3
         DEF RequestAccept, MayAccept, hasActiveIdentityMigration, IInv, TypeOK, AnswerIsReceipt,
             LaneHasOperation, Lanes, Waiters, Idle, ClearHeld, ClearOpen
    <2> QED BY <2>5, <2>6, <2>7, <2>8, <2>9, <2>10 DEF IInv
  <1>4. ASSUME LaneStart PROVE IInv'
    <2>1. lane' \in Lanes
      BY <1>4
         DEF LaneStart, IInv, TypeOK, Lanes, Waiters, Idle
    <2>2. TypeOK'
      BY <1>4, <2>1
         DEF LaneStart, IInv, TypeOK
    <2>3. (MoverHasOperation /\ Serialized /\ ClaimOfBinding /\ ReceiptOfOperation)'
      BY <1>4
         DEF LaneStart, IInv, MoverHasOperation, Serialized, ClaimOfBinding, ReceiptOfOperation,
             ClearOpen, MigOpen
    <2>4. LaneHasOperation'
      BY <1>4
         DEF LaneStart, IInv, TypeOK, LaneHasOperation, AnswerIsReceipt, Lanes, Waiters, Idle,
             ClearHeld, ClearOpen, ClearRows, ClearStates, NoOperation
    <2>5. AnswerIsReceipt'
      BY <1>4
         DEF LaneStart, IInv, TypeOK, AnswerIsReceipt, LaneHasOperation, Lanes, Waiters, Idle,
             ClearHeld, ClearOpen
    <2> QED BY <2>2, <2>3, <2>4, <2>5 DEF IInv
  <1>5. ASSUME LaneObserve PROVE IInv'
    <2>1. lane' \in Lanes
      BY <1>5
         DEF LaneObserve, IInv, TypeOK, Lanes, Waiters, Idle
    <2>2. TypeOK'
      BY <1>5, <2>1
         DEF LaneObserve, IInv, TypeOK
    <2>3. (MoverHasOperation /\ Serialized /\ ClaimOfBinding /\ ReceiptOfOperation)'
      BY <1>5
         DEF LaneObserve, IInv, MoverHasOperation, Serialized, ClaimOfBinding, ReceiptOfOperation,
             ClearOpen, MigOpen
    <2>4. LaneHasOperation'
      BY <1>5
         DEF LaneObserve, IInv, TypeOK, LaneHasOperation, AnswerIsReceipt, Lanes, Waiters, Idle,
             ClearHeld, ClearOpen, ClearRows, ClearStates, NoOperation
    <2>5. AnswerIsReceipt'
      BY <1>5
         DEF LaneObserve, IInv, TypeOK, AnswerIsReceipt, LaneHasOperation, Lanes, Waiters, Idle,
             ClearHeld, ClearOpen
    <2> QED BY <2>2, <2>3, <2>4, <2>5 DEF IInv
  <1>6. ASSUME LaneReject PROVE IInv'
    <2>1. clear' \in {NoOperation} \union ClearRows
      <3>1. clear \in ClearRows
        BY <1>6, OperationExists DEF LaneReject
      <3>2. {"rejected", "rotating"} \subseteq ClearStates
        BY DEF ClearStates, ClearHeld, ClearOpen
      <3> QED BY <1>6, <3>1, <3>2, ClearRowUpdate DEF LaneReject
    <2>2. lane' \in Lanes
      BY <1>6
         DEF LaneReject, IInv, TypeOK, Lanes, Waiters, Idle
    <2>3. TypeOK'
      BY <1>6, <2>1, <2>2
         DEF LaneReject, IInv, TypeOK
    <2>4. (MoverHasOperation /\ ClaimOfBinding)'
      BY <1>6
         DEF LaneReject, IInv, MoverHasOperation, ClaimOfBinding, ClearOpen, MigOpen
    <2>5. LaneHasOperation'
      BY <1>6
         DEF LaneReject, IInv, TypeOK, LaneHasOperation, AnswerIsReceipt, Lanes, Waiters, Idle,
             ClearHeld, ClearOpen, ClearRows, ClearStates, NoOperation
    <2>6. Serialized'
      BY <1>6
         DEF LaneReject, IInv, TypeOK, Serialized, LaneHasOperation, MoverHasOperation, ClearHeld,
             ClearOpen, MigOpen, ClearRows, ClearStates, Migrations, MigStates, NoOperation,
             Lanes, Movers, Waiters, Idle
    <2>7. ReceiptOfOperation'
      BY <1>6
         DEF LaneReject, IInv, TypeOK, ReceiptOfOperation, LaneHasOperation, ClearOpen, ClearHeld,
             ClearRows, ClearStates, NoOperation, Panes, Requests, Idle
    <2>8. AnswerIsReceipt'
      BY <1>6
         DEF LaneReject, IInv, TypeOK, AnswerIsReceipt, LaneHasOperation, Lanes, Waiters, Idle,
             ClearHeld, ClearOpen
    <2> QED BY <2>3, <2>4, <2>5, <2>6, <2>7, <2>8 DEF IInv
  <1>7. ASSUME LaneClaim PROVE IInv'
    <2>1. clear' \in {NoOperation} \union ClearRows
      <3>1. clear \in ClearRows
        BY <1>7, OperationExists DEF LaneClaim
      <3>2. {"rejected", "rotating"} \subseteq ClearStates
        BY DEF ClearStates, ClearHeld, ClearOpen
      <3> QED BY <1>7, <3>1, <3>2, ClearRowUpdate DEF LaneClaim
    <2>2. lane' \in Lanes
      BY <1>7
         DEF LaneClaim, IInv, TypeOK, Lanes, Waiters, Idle
    <2>3. TypeOK'
      BY <1>7, <2>1, <2>2
         DEF LaneClaim, IInv, TypeOK
    <2>4. (MoverHasOperation /\ ClaimOfBinding)'
      BY <1>7
         DEF LaneClaim, IInv, MoverHasOperation, ClaimOfBinding, ClearOpen, MigOpen
    <2>5. LaneHasOperation'
      BY <1>7
         DEF LaneClaim, IInv, TypeOK, LaneHasOperation, AnswerIsReceipt, Lanes, Waiters, Idle,
             ClearHeld, ClearOpen, ClearRows, ClearStates, NoOperation
    <2>6. Serialized'
      BY <1>7
         DEF LaneClaim, IInv, TypeOK, Serialized, LaneHasOperation, MoverHasOperation, ClearHeld,
             ClearOpen, MigOpen, ClearRows, ClearStates, Migrations, MigStates, NoOperation,
             Lanes, Movers, Waiters, Idle
    <2>7. ReceiptOfOperation'
      BY <1>7
         DEF LaneClaim, IInv, TypeOK, ReceiptOfOperation, LaneHasOperation, ClearOpen, ClearHeld,
             ClearRows, ClearStates, NoOperation, Panes, Requests, Idle
    <2>8. AnswerIsReceipt'
      BY <1>7
         DEF LaneClaim, IInv, TypeOK, AnswerIsReceipt, LaneHasOperation, Lanes, Waiters, Idle,
             ClearHeld, ClearOpen
    <2> QED BY <2>3, <2>4, <2>5, <2>6, <2>7, <2>8 DEF IInv
  <1>8. ASSUME LaneCall PROVE IInv'
    <2>1. lane' \in Lanes
      BY <1>8
         DEF LaneCall, IInv, TypeOK, Lanes, Waiters, Idle
    <2>2. calls' \subseteq {"rotate", "move"}
      BY <1>8
         DEF LaneCall, IInv, TypeOK
    <2>3. TypeOK'
      BY <1>8, <2>1, <2>2
         DEF LaneCall, IInv, TypeOK
    <2>4. (MoverHasOperation /\ Serialized /\ ClaimOfBinding)'
      BY <1>8
         DEF LaneCall, IInv, MoverHasOperation, Serialized, ClaimOfBinding, ClearOpen, MigOpen
    <2>5. LaneHasOperation'
      BY <1>8
         DEF LaneCall, IInv, TypeOK, LaneHasOperation, AnswerIsReceipt, Lanes, Waiters, Idle,
             ClearHeld, ClearOpen, ClearRows, ClearStates, NoOperation
    <2>6. ReceiptOfOperation'
      BY <1>8
         DEF LaneCall, IInv, TypeOK, ReceiptOfOperation, LaneHasOperation, ClearOpen, ClearHeld,
             ClearRows, ClearStates, NoOperation, Panes, Requests, Idle
    <2>7. AnswerIsReceipt'
      BY <1>8
         DEF LaneCall, IInv, TypeOK, AnswerIsReceipt, LaneHasOperation, Lanes, Waiters, Idle,
             ClearHeld, ClearOpen
    <2> QED BY <2>3, <2>4, <2>5, <2>6, <2>7 DEF IInv
  <1>9. ASSUME LaneAnswer PROVE IInv'
    <2>1. /\ clear \in ClearRows /\ clear.st \in {"rotating", "uncertain"}
          /\ clear.st \in ClearStates
          /\ {"rejected", "uncertain", "withdrawing", "succeeded"} \subseteq ClearStates
      BY <1>9, RotationOutcome
         DEF LaneAnswer, IInv, LaneHasOperation, ClearRows, ClearStates, ClearHeld, ClearOpen
    <2>2. UNCHANGED <<scenario, used, external, mig, req, mover, pass, seen>> /\ lane' = Idle
      BY <1>9 DEF LaneAnswer
    <2>3. /\ clear' \in ClearRows /\ clear'.sess = clear.sess
          /\ clear'.st \in {"rejected", "uncertain", "rotating", "withdrawing", "succeeded"}
      <3>1. PICK s \in ClearStates : /\ clear' = [clear EXCEPT !.st = s]
                                     /\ s \in {"rejected", "uncertain", "rotating",
                                               "withdrawing", "succeeded"}
        BY <1>9, <2>1, RotationOutcome
      <3> QED BY <2>1, <3>1, ClearRowUpdate
    <2>4. bind' \in Bindings
      <3>1. CASE bind' = bind
        BY <3>1 DEF IInv, TypeOK
      <3>2. CASE bind' = [bind EXCEPT !.epoch = @ + 1, !.sess = receipt]
        <4>1. bind \in Bindings /\ bind.epoch + 1 \in Nat /\ receipt \in Nat
          BY DEF IInv, TypeOK, Bindings
        <4> QED BY <3>2, <4>1 DEF Bindings
      <3> QED BY <1>9, <3>1, <3>2, RotationOutcome
    <2>5. claim' \in Claims /\ ClaimOfBinding'
      <3>1. CASE bind' = bind /\ claim' = claim
        BY <3>1 DEF IInv, TypeOK, ClaimOfBinding
      <3>2. CASE claim' = ClaimAfter(bind')
        BY <2>4, <3>2, ClaimFollows DEF ClaimOfBinding
      <3> QED BY <1>9, <3>1, <3>2, RotationOutcome
    <2>6. TypeOK'
      BY <2>2, <2>3, <2>4, <2>5 DEF IInv, TypeOK, Lanes, Idle
    <2>7. LaneHasOperation' /\ AnswerIsReceipt'
      BY <2>2 DEF LaneHasOperation, AnswerIsReceipt, Idle
    <2>8. MoverHasOperation'
      BY <2>2 DEF IInv, MoverHasOperation
    <2>9. Serialized'
      BY <2>1, <2>2, <2>3 DEF IInv, Serialized, ClearOpen
    <2>10. ReceiptOfOperation'
      BY <2>2, <2>3 DEF IInv, ReceiptOfOperation
    <2> QED BY <2>5, <2>6, <2>7, <2>8, <2>9, <2>10 DEF IInv
  <1>10. ASSUME LaneNoCapability PROVE IInv'
    <2>1. used' \in [Faults -> Nat]
      BY <1>10, SpendCounts
         DEF LaneNoCapability, IInv, Faults
    <2>2. clear' \in {NoOperation} \union ClearRows
      <3>1. clear \in ClearRows
        BY <1>10, OperationExists DEF LaneNoCapability
      <3>2. {"rejected", "rotating"} \subseteq ClearStates
        BY DEF ClearStates, ClearHeld, ClearOpen
      <3> QED BY <1>10, <3>1, <3>2, ClearRowUpdate DEF LaneNoCapability
    <2>3. lane' \in Lanes
      BY <1>10
         DEF LaneNoCapability, Spend, IInv, TypeOK, Lanes, Waiters, Idle
    <2>4. TypeOK'
      BY <1>10, <2>1, <2>2, <2>3
         DEF LaneNoCapability, Spend, IInv, TypeOK
    <2>5. (MoverHasOperation /\ ClaimOfBinding)'
      BY <1>10
         DEF LaneNoCapability, IInv, MoverHasOperation, ClaimOfBinding, ClearOpen, MigOpen
    <2>6. LaneHasOperation'
      BY <1>10
         DEF LaneNoCapability, Spend, IInv, TypeOK, LaneHasOperation, AnswerIsReceipt, Lanes,
             Waiters, Idle, ClearHeld, ClearOpen, ClearRows, ClearStates, NoOperation
    <2>7. Serialized'
      BY <1>10
         DEF LaneNoCapability, Spend, IInv, TypeOK, Serialized, LaneHasOperation,
             MoverHasOperation, ClearHeld, ClearOpen, MigOpen, ClearRows, ClearStates, Migrations,
             MigStates, NoOperation, Lanes, Movers, Waiters, Idle
    <2>8. ReceiptOfOperation'
      BY <1>10
         DEF LaneNoCapability, Spend, IInv, TypeOK, ReceiptOfOperation, LaneHasOperation,
             ClearOpen, ClearHeld, ClearRows, ClearStates, NoOperation, Panes, Requests, Idle
    <2>9. AnswerIsReceipt'
      BY <1>10
         DEF LaneNoCapability, Spend, IInv, TypeOK, AnswerIsReceipt, LaneHasOperation, Lanes,
             Waiters, Idle, ClearHeld, ClearOpen
    <2> QED BY <2>4, <2>5, <2>6, <2>7, <2>8, <2>9 DEF IInv
  <1>11. ASSUME LaneLost PROVE IInv'
    <2>1. used' \in [Faults -> Nat]
      BY <1>11, SpendCounts
         DEF LaneLost, IInv, Faults
    <2>2. clear' \in {NoOperation} \union ClearRows
      BY <1>11
         DEF LaneLost, Spend, AfterLostAnswer, IInv, TypeOK, ClearRows, ClearStates, ClearHeld,
             ClearOpen, NoOperation, Requests, Bindings, Idle, Places
    <2>3. lane' \in Lanes
      BY <1>11
         DEF LaneLost, Spend, AfterLostAnswer, IInv, TypeOK, Lanes, Waiters, Idle
    <2>4. TypeOK'
      BY <1>11, <2>1, <2>2, <2>3
         DEF LaneLost, Spend, IInv, TypeOK
    <2>5. (MoverHasOperation /\ ClaimOfBinding)'
      BY <1>11
         DEF LaneLost, IInv, MoverHasOperation, ClaimOfBinding, ClearOpen, MigOpen
    <2>6. LaneHasOperation'
      BY <1>11
         DEF LaneLost, Spend, AfterLostAnswer, IInv, TypeOK, LaneHasOperation, AnswerIsReceipt,
             Lanes, Waiters, Idle, ClearHeld, ClearOpen, ClearRows, ClearStates, NoOperation
    <2>7. Serialized'
      BY <1>11
         DEF LaneLost, Spend, AfterLostAnswer, IInv, TypeOK, Serialized, LaneHasOperation,
             MoverHasOperation, ClearHeld, ClearOpen, MigOpen, ClearRows, ClearStates, Migrations,
             MigStates, NoOperation, Lanes, Movers, Waiters, Idle
    <2>8. ReceiptOfOperation'
      BY <1>11
         DEF LaneLost, Spend, AfterLostAnswer, IInv, TypeOK, ReceiptOfOperation, LaneHasOperation,
             ClearOpen, ClearHeld, ClearRows, ClearStates, NoOperation, Panes, Requests, Idle
    <2>9. AnswerIsReceipt'
      BY <1>11
         DEF LaneLost, Spend, AfterLostAnswer, IInv, TypeOK, AnswerIsReceipt, LaneHasOperation,
             Lanes, Waiters, Idle, ClearHeld, ClearOpen
    <2> QED BY <2>4, <2>5, <2>6, <2>7, <2>8, <2>9 DEF IInv
  <1>12. ASSUME SettleWithdrawal PROVE IInv'
    <2>1. clear' \in {NoOperation} \union ClearRows
      BY <1>12
         DEF SettleWithdrawal, IInv, TypeOK, ClearRows, ClearStates, ClearHeld, ClearOpen,
             NoOperation, Requests, Bindings, Idle, Places
    <2>2. TypeOK'
      BY <1>12, <2>1
         DEF SettleWithdrawal, IInv, TypeOK
    <2>3. (MoverHasOperation /\ ClaimOfBinding /\ AnswerIsReceipt)'
      BY <1>12
         DEF SettleWithdrawal, IInv, MoverHasOperation, ClaimOfBinding, AnswerIsReceipt,
             ClearOpen, MigOpen
    <2>4. LaneHasOperation'
      BY <1>12
         DEF SettleWithdrawal, IInv, TypeOK, LaneHasOperation, AnswerIsReceipt, Lanes, Waiters,
             Idle, ClearHeld, ClearOpen, ClearRows, ClearStates, NoOperation
    <2>5. Serialized'
      BY <1>12
         DEF SettleWithdrawal, IInv, TypeOK, Serialized, LaneHasOperation, MoverHasOperation,
             ClearHeld, ClearOpen, MigOpen, ClearRows, ClearStates, Migrations, MigStates,
             NoOperation, Lanes, Movers, Waiters, Idle
    <2>6. ReceiptOfOperation'
      BY <1>12
         DEF SettleWithdrawal, IInv, TypeOK, ReceiptOfOperation, LaneHasOperation, ClearOpen,
             ClearHeld, ClearRows, ClearStates, NoOperation, Panes, Requests, Idle
    <2> QED BY <2>2, <2>3, <2>4, <2>5, <2>6 DEF IInv
  <1>13. ASSUME MoverRecover PROVE IInv'
    <2>1. mig' \in {NoOperation} \union Migrations
      BY <1>13
         DEF MoverRecover, IInv, TypeOK, Migrations, MigStates, MigOpen, NoOperation, Movers,
             Waiters, Bindings, Idle
    <2>2. mover' \in Movers
      BY <1>13
         DEF MoverRecover, IInv, TypeOK, Movers, Waiters, Idle, Bindings
    <2>3. TypeOK'
      BY <1>13, <2>1, <2>2
         DEF MoverRecover, IInv, TypeOK
    <2>4. (LaneHasOperation /\ ClaimOfBinding /\ ReceiptOfOperation /\ AnswerIsReceipt)'
      BY <1>13
         DEF MoverRecover, IInv, LaneHasOperation, ClaimOfBinding, ReceiptOfOperation,
             AnswerIsReceipt, ClearOpen, MigOpen
    <2>5. MoverHasOperation'
      BY <1>13
         DEF MoverRecover, IInv, TypeOK, MoverHasOperation, Movers, Waiters, Idle, MigOpen,
             Migrations, MigStates, NoOperation
    <2>6. Serialized'
      BY <1>13
         DEF MoverRecover, IInv, TypeOK, Serialized, LaneHasOperation, MoverHasOperation,
             ClearHeld, ClearOpen, MigOpen, ClearRows, ClearStates, Migrations, MigStates,
             NoOperation, Lanes, Movers, Waiters, Idle
    <2> QED BY <2>3, <2>4, <2>5, <2>6 DEF IInv
  <1>14. ASSUME MoverCapture PROVE IInv'
    <2>1. mover' \in Movers
      BY <1>14
         DEF MoverCapture, IInv, TypeOK, Movers, Waiters, Idle, Bindings
    <2>2. TypeOK'
      BY <1>14, <2>1
         DEF MoverCapture, IInv, TypeOK
    <2>3. (LaneHasOperation /\ Serialized /\ ClaimOfBinding /\ ReceiptOfOperation /\ AnswerIsReceipt)'
      BY <1>14
         DEF MoverCapture, IInv, LaneHasOperation, Serialized, ClaimOfBinding, ReceiptOfOperation,
             AnswerIsReceipt, ClearOpen, MigOpen
    <2>4. MoverHasOperation'
      BY <1>14
         DEF MoverCapture, IInv, TypeOK, MoverHasOperation, Movers, Waiters, Idle, MigOpen,
             Migrations, MigStates, NoOperation
    <2> QED BY <2>2, <2>3, <2>4 DEF IInv
  <1>15. ASSUME MoverAccept PROVE IInv'
    <2>1. mover' \in Movers
      BY <1>15
         DEF MoverAccept, IInv, TypeOK, Movers, Waiters, Idle, Bindings
    <2>2. mig' \in {NoOperation} \union Migrations
      BY <1>15
         DEF MoverAccept, IInv, TypeOK, Migrations, MigStates, MigOpen, NoOperation, Movers,
             Waiters, Bindings, Idle
    <2>3. moved' \in BOOLEAN
      BY <1>15
         DEF MoverAccept, IInv, TypeOK
    <2>4. calls' \subseteq {"rotate", "move"}
      BY <1>15
         DEF MoverAccept, IInv, TypeOK
    <2>5. TypeOK'
      BY <1>15, <2>1, <2>2, <2>3, <2>4
         DEF MoverAccept, IInv, TypeOK
    <2>6. (LaneHasOperation /\ ClaimOfBinding)'
      BY <1>15
         DEF MoverAccept, IInv, LaneHasOperation, ClaimOfBinding, ClearOpen, MigOpen
    <2>7. MoverHasOperation'
      BY <1>15
         DEF MoverAccept, IInv, TypeOK, MoverHasOperation, Movers, Waiters, Idle, MigOpen,
             Migrations, MigStates, NoOperation
    <2>8. Serialized'
      BY <1>15
         DEF MoverAccept, IInv, TypeOK, Serialized, LaneHasOperation, MoverHasOperation,
             ClearHeld, ClearOpen, MigOpen, ClearRows, ClearStates, Migrations, MigStates,
             NoOperation, Lanes, Movers, Waiters, Idle
    <2>9. ReceiptOfOperation'
      BY <1>15
         DEF MoverAccept, IInv, TypeOK, ReceiptOfOperation, LaneHasOperation, ClearOpen,
             ClearHeld, ClearRows, ClearStates, NoOperation, Panes, Requests, Idle
    <2>10. AnswerIsReceipt'
      BY <1>15
         DEF MoverAccept, IInv, TypeOK, AnswerIsReceipt, LaneHasOperation, Lanes, Waiters, Idle,
             ClearHeld, ClearOpen
    <2> QED BY <2>5, <2>6, <2>7, <2>8, <2>9, <2>10 DEF IInv
  <1>16. ASSUME MoverCall PROVE IInv'
    <2>1. mover' \in Movers
      BY <1>16
         DEF MoverCall, IInv, TypeOK, Movers, Waiters, Idle, Bindings
    <2>2. calls' \subseteq {"rotate", "move"}
      BY <1>16
         DEF MoverCall, IInv, TypeOK
    <2>3. TypeOK'
      BY <1>16, <2>1, <2>2
         DEF MoverCall, IInv, TypeOK
    <2>4. (LaneHasOperation /\ Serialized /\ ClaimOfBinding)'
      BY <1>16
         DEF MoverCall, IInv, LaneHasOperation, Serialized, ClaimOfBinding, ClearOpen, MigOpen
    <2>5. MoverHasOperation'
      BY <1>16
         DEF MoverCall, IInv, TypeOK, MoverHasOperation, Movers, Waiters, Idle, MigOpen,
             Migrations, MigStates, NoOperation
    <2>6. ReceiptOfOperation'
      BY <1>16
         DEF MoverCall, IInv, TypeOK, ReceiptOfOperation, LaneHasOperation, ClearOpen, ClearHeld,
             ClearRows, ClearStates, NoOperation, Panes, Requests, Idle
    <2>7. AnswerIsReceipt'
      BY <1>16
         DEF MoverCall, IInv, TypeOK, AnswerIsReceipt, LaneHasOperation, Lanes, Waiters, Idle,
             ClearHeld, ClearOpen
    <2> QED BY <2>3, <2>4, <2>5, <2>6, <2>7 DEF IInv
  <1>17. ASSUME MoverAnswer PROVE IInv'
    <2>1. mig \in Migrations /\ mig.st \in MigOpen
      BY <1>17, MoveOutcome
    <2>2. UNCHANGED <<scenario, used, external, clear, req, lane, pass, seen>> /\ mover' = Idle
      BY <1>17 DEF MoverAnswer
    <2>3. mig' \in Migrations
      <3>1. PICK s \in MigStates : mig' = [mig EXCEPT !.st = s]
        BY <1>17, MoveOutcome DEF MigStates, MigOpen
      <3> QED BY <2>1, <3>1, MigRowUpdate
    <2>4. bind' \in Bindings
      <3>1. CASE bind' = bind
        BY <3>1 DEF IInv, TypeOK
      <3>2. CASE bind' = [bind EXCEPT !.place = "home", !.token = "orch"]
        BY <3>2 DEF IInv, TypeOK, Bindings, Places, Tokens
      <3> QED BY <1>17, <3>1, <3>2, MoveOutcome
    <2>5. claim' \in Claims /\ ClaimOfBinding'
      <3>1. CASE bind' = bind /\ claim' = claim
        BY <3>1 DEF IInv, TypeOK, ClaimOfBinding
      <3>2. CASE claim' = ClaimAfter(bind')
        BY <2>4, <3>2, ClaimFollows DEF ClaimOfBinding
      <3> QED BY <1>17, <3>1, <3>2, MoveOutcome
    <2>6. TypeOK'
      BY <2>2, <2>3, <2>4, <2>5 DEF IInv, TypeOK, Movers, Idle
    <2>7. (LaneHasOperation /\ ReceiptOfOperation /\ AnswerIsReceipt)'
      BY <2>2 DEF IInv, LaneHasOperation, ReceiptOfOperation, AnswerIsReceipt
    <2>8. MoverHasOperation'
      BY <2>2 DEF MoverHasOperation, Idle
    <2>9. Serialized'
      BY <2>1, <2>2 DEF IInv, Serialized
    <2> QED BY <2>5, <2>6, <2>7, <2>8, <2>9 DEF IInv
  <1>18. ASSUME MoverNoCapability PROVE IInv'
    <2>1. used' \in [Faults -> Nat]
      BY <1>18, SpendCounts
         DEF MoverNoCapability, IInv, Faults
    <2>2. mig' \in {NoOperation} \union Migrations
      <3>1. mig \in Migrations
        BY <1>18, OperationExists DEF MoverNoCapability
      <3>2. "rejected" \in MigStates
        BY DEF MigStates
      <3> QED BY <1>18, <3>1, <3>2, MigRowUpdate DEF MoverNoCapability
    <2>3. mover' \in Movers
      BY <1>18
         DEF MoverNoCapability, Spend, IInv, TypeOK, Movers, Waiters, Idle, Bindings
    <2>4. TypeOK'
      BY <1>18, <2>1, <2>2, <2>3
         DEF MoverNoCapability, Spend, IInv, TypeOK
    <2>5. (LaneHasOperation /\ ClaimOfBinding /\ ReceiptOfOperation /\ AnswerIsReceipt)'
      BY <1>18
         DEF MoverNoCapability, IInv, LaneHasOperation, ClaimOfBinding, ReceiptOfOperation,
             AnswerIsReceipt, ClearOpen, MigOpen
    <2>6. MoverHasOperation'
      BY <1>18
         DEF MoverNoCapability, Spend, IInv, TypeOK, MoverHasOperation, Movers, Waiters, Idle,
             MigOpen, Migrations, MigStates, NoOperation
    <2>7. Serialized'
      BY <1>18
         DEF MoverNoCapability, Spend, IInv, TypeOK, Serialized, LaneHasOperation,
             MoverHasOperation, ClearHeld, ClearOpen, MigOpen, ClearRows, ClearStates, Migrations,
             MigStates, NoOperation, Lanes, Movers, Waiters, Idle
    <2> QED BY <2>4, <2>5, <2>6, <2>7 DEF IInv
  <1>19. ASSUME MoverLost PROVE IInv'
    <2>1. used' \in [Faults -> Nat]
      BY <1>19, SpendCounts
         DEF MoverLost, IInv, Faults
    <2>2. mig' \in {NoOperation} \union Migrations
      BY <1>19
         DEF MoverLost, Spend, IInv, TypeOK, Migrations, MigStates, MigOpen, NoOperation, Movers,
             Waiters, Bindings, Idle
    <2>3. mover' \in Movers
      BY <1>19
         DEF MoverLost, Spend, IInv, TypeOK, Movers, Waiters, Idle, Bindings
    <2>4. TypeOK'
      BY <1>19, <2>1, <2>2, <2>3
         DEF MoverLost, Spend, IInv, TypeOK
    <2>5. (LaneHasOperation /\ ClaimOfBinding /\ ReceiptOfOperation /\ AnswerIsReceipt)'
      BY <1>19
         DEF MoverLost, IInv, LaneHasOperation, ClaimOfBinding, ReceiptOfOperation,
             AnswerIsReceipt, ClearOpen, MigOpen
    <2>6. MoverHasOperation'
      BY <1>19
         DEF MoverLost, Spend, IInv, TypeOK, MoverHasOperation, Movers, Waiters, Idle, MigOpen,
             Migrations, MigStates, NoOperation
    <2>7. Serialized'
      BY <1>19
         DEF MoverLost, Spend, IInv, TypeOK, Serialized, LaneHasOperation, MoverHasOperation,
             ClearHeld, ClearOpen, MigOpen, ClearRows, ClearStates, Migrations, MigStates,
             NoOperation, Lanes, Movers, Waiters, Idle
    <2> QED BY <2>4, <2>5, <2>6, <2>7 DEF IInv
  <1>20. ASSUME CoreRotate PROVE IInv'
    <2>1. calls' \subseteq {"rotate", "move"}
      BY <1>20
         DEF CoreRotate, Reply, ShowsRuntime, IInv, TypeOK
    <2>2. core' \in Panes
      BY <1>20
         DEF CoreRotate, Reply, ShowsRuntime, IInv, TypeOK, Panes, Tokens, Places
    <2>3. receipt' \in Nat
      BY <1>20
         DEF CoreRotate, Reply, ShowsRuntime, IInv, TypeOK, Panes
    <2>4. lane' \in Lanes
      BY <1>20
         DEF CoreRotate, Reply, ShowsRuntime, IInv, TypeOK, Lanes, Waiters, Idle
    <2>5. TypeOK'
      BY <1>20, <2>1, <2>2, <2>3, <2>4
         DEF CoreRotate, IInv, TypeOK
    <2>6. (MoverHasOperation /\ Serialized /\ ClaimOfBinding)'
      BY <1>20
         DEF CoreRotate, IInv, MoverHasOperation, Serialized, ClaimOfBinding, ClearOpen, MigOpen
    <2>7. LaneHasOperation'
      BY <1>20
         DEF CoreRotate, Reply, ShowsRuntime, IInv, TypeOK, LaneHasOperation, AnswerIsReceipt,
             Lanes, Waiters, Idle, ClearHeld, ClearOpen, ClearRows, ClearStates, NoOperation
    <2>8. ReceiptOfOperation'
      BY <1>20
         DEF CoreRotate, Reply, ShowsRuntime, IInv, TypeOK, ReceiptOfOperation, LaneHasOperation,
             ClearOpen, ClearHeld, ClearRows, ClearStates, NoOperation, Panes, Requests, Idle
    <2>9. AnswerIsReceipt'
      <3>1. CASE lane.pc # "call"
        <4>1. lane' = lane
          BY <1>20, <3>1 DEF CoreRotate, Reply
        <4> QED BY <3>1, <4>1 DEF AnswerIsReceipt
      <3>2. CASE lane.pc = "call"
        <4> DEFINE fits == ShowsRuntime(core, clear) /\ core.seq = clear.seq
                   outcome == IF receipt # 0 \/ fits THEN "done" ELSE "refused"
        <4>1. lane' = [lane EXCEPT !.reply = outcome]
          BY <1>20, <3>2 DEF CoreRotate, Reply
        <4>2. lane'.reply = outcome
          BY <3>2, <4>1 DEF IInv, TypeOK, Lanes, Waiters
        <4>3. calls' = calls \ {"rotate"}
          BY <1>20 DEF CoreRotate
        <4>4. CASE receipt # 0 \/ fits
          <5>1. receipt' # 0
            <6>1. CASE receipt # 0
              BY <1>20, <6>1 DEF CoreRotate
            <6>2. CASE receipt = 0 /\ fits
              <7>1. receipt' = core.sess + 1 /\ core.sess \in Nat
                BY <1>20, <6>2 DEF CoreRotate, IInv, TypeOK, Panes
              <7> QED BY <7>1
            <6> QED BY <4>4, <6>1, <6>2
          <5> QED BY <4>2, <4>4, <5>1 DEF AnswerIsReceipt
        <4>5. CASE ~(receipt # 0 \/ fits)
          <5>1. receipt' = 0
            BY <1>20, <4>5 DEF CoreRotate
          <5> QED BY <4>2, <4>3, <4>5, <5>1 DEF AnswerIsReceipt
        <4> QED BY <4>4, <4>5
      <3> QED BY <3>1, <3>2
    <2> QED BY <2>5, <2>6, <2>7, <2>8, <2>9 DEF IInv
  <1>21. ASSUME CoreMove PROVE IInv'
    <2>1. calls' \subseteq {"rotate", "move"}
      BY <1>21
         DEF CoreMove, Reply, IInv, TypeOK
    <2>2. core' \in Panes
      BY ZenonT(40), <1>21
         DEF CoreMove, Reply, IInv, TypeOK, Panes, Tokens, Places
    <2>3. moved' \in BOOLEAN
      BY <1>21
         DEF CoreMove, Reply, IInv, TypeOK
    <2>4. mover' \in Movers
      BY <1>21
         DEF CoreMove, Reply, IInv, TypeOK, Movers, Waiters, Idle, Bindings
    <2>5. TypeOK'
      BY <1>21, <2>1, <2>2, <2>3, <2>4
         DEF CoreMove, IInv, TypeOK
    <2>6. (LaneHasOperation /\ Serialized /\ ClaimOfBinding)'
      BY <1>21
         DEF CoreMove, IInv, LaneHasOperation, Serialized, ClaimOfBinding, ClearOpen, MigOpen
    <2>7. MoverHasOperation'
      BY <1>21
         DEF CoreMove, Reply, IInv, TypeOK, MoverHasOperation, Movers, Waiters, Idle, MigOpen,
             Migrations, MigStates, NoOperation
    <2>8. ReceiptOfOperation'
      BY <1>21
         DEF CoreMove, Reply, IInv, TypeOK, ReceiptOfOperation, LaneHasOperation, ClearOpen,
             ClearHeld, ClearRows, ClearStates, NoOperation, Panes, Requests, Idle
    <2>9. AnswerIsReceipt'
      BY <1>21
         DEF CoreMove, Reply, IInv, TypeOK, AnswerIsReceipt, LaneHasOperation, Lanes, Waiters,
             Idle, ClearHeld, ClearOpen
    <2> QED BY <2>5, <2>6, <2>7, <2>8, <2>9 DEF IInv
  <1>22. ASSUME PassRead PROVE IInv'
    <2>1. pass' \in Passes
      BY <1>22
         DEF PassRead, IInv, TypeOK, Passes, Idle, Panes, Bindings, Nothing
    <2>2. TypeOK'
      BY <1>22, <2>1
         DEF PassRead, IInv, TypeOK
    <2>3. (LaneHasOperation /\ MoverHasOperation /\ Serialized /\ ClaimOfBinding /\ ReceiptOfOperation /\ AnswerIsReceipt)'
      BY <1>22
         DEF PassRead, IInv, LaneHasOperation, MoverHasOperation, Serialized, ClaimOfBinding,
             ReceiptOfOperation, AnswerIsReceipt, ClearOpen, MigOpen
    <2> QED BY <2>2, <2>3 DEF IInv
  <1>23. ASSUME PassApply PROVE IInv'
    <2>1. UNCHANGED <<scenario, used, external, clear, mig, req, lane, mover>>
      BY <1>23 DEF PassApply
    <2>2. pass' = Idle /\ seen' = pass.pane /\ pass.pane \in Panes
      BY <1>23, PassOutcome DEF PassApply
    <2>3. bind' \in Bindings
      <3>1. CASE bind' = bind
        BY <3>1 DEF IInv, TypeOK
      <3>2. CASE \E s \in {"orphaned", "degraded"} : bind' = [bind EXCEPT !.att = s]
        BY <3>2 DEF IInv, TypeOK, Bindings
      <3>3. CASE bind' = [bind EXCEPT !.sess = pass.pane.sess, !.term = pass.pane.term,
                                      !.token = pass.pane.token, !.att = "attached"]
        BY <2>2, <3>3 DEF IInv, TypeOK, Bindings, Panes
      <3> QED BY <1>23, <3>1, <3>2, <3>3, PassOutcome
    <2>4. claim' \in Claims /\ ClaimOfBinding'
      <3>1. CASE bind' = bind /\ claim' = claim
        BY <3>1 DEF IInv, TypeOK, ClaimOfBinding
      <3>2. CASE \E s \in {"orphaned", "degraded"} :
                    bind' = [bind EXCEPT !.att = s] /\ claim' = claim
        BY <3>2 DEF IInv, TypeOK, ClaimOfBinding, Bindings
      <3>3. CASE claim' = ClaimAfter(bind')
        BY <2>3, <3>3, ClaimFollows DEF ClaimOfBinding
      <3> QED BY <1>23, <3>1, <3>2, <3>3, PassOutcome
    <2>5. TypeOK'
      BY <2>1, <2>2, <2>3, <2>4 DEF IInv, TypeOK, Passes
    <2>6. (LaneHasOperation /\ MoverHasOperation /\ Serialized)'
      BY <2>1 DEF IInv, LaneHasOperation, MoverHasOperation, Serialized
    <2>7. (ReceiptOfOperation /\ AnswerIsReceipt)'
      BY <2>1 DEF IInv, ReceiptOfOperation, AnswerIsReceipt
    <2> QED BY <2>4, <2>5, <2>6, <2>7 DEF IInv
  <1>24. ASSUME Turn PROVE IInv'
    <2>1. used' \in [Faults -> Nat]
      BY <1>24, SpendCounts
         DEF Turn, World, IInv, Faults
    <2>2. core' \in Panes
      BY <1>24
         DEF Turn, World, Spend, IInv, TypeOK, Panes, Tokens, Places
    <2>3. TypeOK'
      BY <1>24, <2>1, <2>2
         DEF Turn, World, Spend, IInv, TypeOK
    <2>4. (LaneHasOperation /\ MoverHasOperation /\ Serialized /\ ClaimOfBinding /\ ReceiptOfOperation /\ AnswerIsReceipt)'
      BY <1>24
         DEF Turn, World, IInv, LaneHasOperation, MoverHasOperation, Serialized, ClaimOfBinding,
             ReceiptOfOperation, AnswerIsReceipt, ClearOpen, MigOpen
    <2> QED BY <2>3, <2>4 DEF IInv
  <1>25. ASSUME Relabel PROVE IInv'
    <2>1. used' \in [Faults -> Nat]
      BY <1>25, SpendCounts
         DEF Relabel, World, IInv, Faults
    <2>2. core' \in Panes
      BY <1>25
         DEF Relabel, World, Spend, IInv, TypeOK, Panes, Tokens, Places
    <2>3. TypeOK'
      BY <1>25, <2>1, <2>2
         DEF Relabel, World, Spend, IInv, TypeOK
    <2>4. (LaneHasOperation /\ MoverHasOperation /\ Serialized /\ ClaimOfBinding /\ ReceiptOfOperation /\ AnswerIsReceipt)'
      BY <1>25
         DEF Relabel, World, IInv, LaneHasOperation, MoverHasOperation, Serialized,
             ClaimOfBinding, ReceiptOfOperation, AnswerIsReceipt, ClearOpen, MigOpen
    <2> QED BY <2>3, <2>4 DEF IInv
  <1>26. ASSUME Unregister PROVE IInv'
    <2>1. used' \in [Faults -> Nat]
      BY <1>26, SpendCounts
         DEF Unregister, World, IInv, Faults
    <2>2. core' \in Panes
      BY <1>26
         DEF Unregister, World, Spend, IInv, TypeOK, Panes, Tokens, Places
    <2>3. TypeOK'
      BY <1>26, <2>1, <2>2
         DEF Unregister, World, Spend, IInv, TypeOK
    <2>4. (LaneHasOperation /\ MoverHasOperation /\ Serialized /\ ClaimOfBinding /\ ReceiptOfOperation /\ AnswerIsReceipt)'
      BY <1>26
         DEF Unregister, World, IInv, LaneHasOperation, MoverHasOperation, Serialized,
             ClaimOfBinding, ReceiptOfOperation, AnswerIsReceipt, ClearOpen, MigOpen
    <2> QED BY <2>3, <2>4 DEF IInv
  <1>27. ASSUME Vanish PROVE IInv'
    <2>1. used' \in [Faults -> Nat]
      BY <1>27, SpendCounts
         DEF Vanish, World, IInv, Faults
    <2>2. core' \in Panes
      BY <1>27
         DEF Vanish, World, Spend, IInv, TypeOK, Panes, Tokens, Places
    <2>3. TypeOK'
      BY <1>27, <2>1, <2>2
         DEF Vanish, World, Spend, IInv, TypeOK
    <2>4. (LaneHasOperation /\ MoverHasOperation /\ Serialized /\ ClaimOfBinding /\ ReceiptOfOperation /\ AnswerIsReceipt)'
      BY <1>27
         DEF Vanish, World, IInv, LaneHasOperation, MoverHasOperation, Serialized, ClaimOfBinding,
             ReceiptOfOperation, AnswerIsReceipt, ClearOpen, MigOpen
    <2> QED BY <2>3, <2>4 DEF IInv
  <1>28. ASSUME Return PROVE IInv'
    <2>1. core' \in Panes
      <3>1. core \in Panes /\ core.term \in Nat /\ core.term + 1 \in Nat
        BY DEF IInv, TypeOK, Panes
      <3>2. CASE core.live
        BY <1>28, <3>1, <3>2 DEF Return, Panes
      <3>3. CASE ~core.live
        BY <1>28, <3>1, <3>3 DEF Return, Panes
      <3> QED BY <3>2, <3>3
    <2>2. TypeOK'
      BY <1>28, <2>1
         DEF Return, IInv, TypeOK
    <2>3. (LaneHasOperation /\ MoverHasOperation /\ Serialized /\ ClaimOfBinding /\ ReceiptOfOperation /\ AnswerIsReceipt)'
      BY <1>28
         DEF Return, IInv, LaneHasOperation, MoverHasOperation, Serialized, ClaimOfBinding,
             ReceiptOfOperation, AnswerIsReceipt, ClearOpen, MigOpen
    <2> QED BY <2>2, <2>3 DEF IInv
  <1>29. ASSUME Crash PROVE IInv'
    <2>1. used' \in [Faults -> Nat]
      BY <1>29, SpendCounts
         DEF Crash, IInv, Faults
    <2>2. req' \in Requests
      BY <1>29
         DEF Crash, Spend, IInv, TypeOK, Requests, Panes, Idle, Bindings
    <2>3. lane' \in Lanes
      BY <1>29
         DEF Crash, Spend, IInv, TypeOK, Lanes, Waiters, Idle
    <2>4. mover' \in Movers
      BY <1>29
         DEF Crash, Spend, IInv, TypeOK, Movers, Waiters, Idle, Bindings
    <2>5. pass' \in Passes
      BY <1>29
         DEF Crash, Spend, IInv, TypeOK, Passes, Idle, Panes, Bindings, Nothing
    <2>6. seen' \in {Nothing} \union Panes
      BY <1>29
         DEF Crash, Spend, IInv, TypeOK, Passes, Idle, Panes
    <2>7. TypeOK'
      BY <1>29, <2>1, <2>2, <2>3, <2>4, <2>5, <2>6
         DEF Crash, Spend, IInv, TypeOK
    <2>8. (Serialized /\ ClaimOfBinding /\ ReceiptOfOperation)'
      BY <1>29
         DEF Crash, IInv, Serialized, ClaimOfBinding, ReceiptOfOperation, ClearOpen, MigOpen
    <2>9. LaneHasOperation'
      BY <1>29
         DEF Crash, Spend, IInv, TypeOK, LaneHasOperation, AnswerIsReceipt, Lanes, Waiters, Idle,
             ClearHeld, ClearOpen, ClearRows, ClearStates, NoOperation
    <2>10. MoverHasOperation'
      BY <1>29
         DEF Crash, Spend, IInv, TypeOK, MoverHasOperation, Movers, Waiters, Idle, MigOpen,
             Migrations, MigStates, NoOperation
    <2>11. AnswerIsReceipt'
      BY <1>29
         DEF Crash, Spend, IInv, TypeOK, AnswerIsReceipt, LaneHasOperation, Lanes, Waiters, Idle,
             ClearHeld, ClearOpen
    <2> QED BY <2>7, <2>8, <2>9, <2>10, <2>11 DEF IInv
  <1>30. ASSUME UNCHANGED vars PROVE IInv'
    BY <1>30 DEF vars, IInv, TypeOK, LaneHasOperation, MoverHasOperation, Serialized, ClaimOfBinding, ReceiptOfOperation, AnswerIsReceipt
  <1> QED
    BY <1>1, <1>2, <1>3, <1>4, <1>5, <1>6, <1>7, <1>8, <1>9, <1>10, <1>11, <1>12, <1>13, <1>14, <1>15,
       <1>16, <1>17, <1>18, <1>19, <1>20, <1>21, <1>22, <1>23, <1>24, <1>25, <1>26, <1>27, <1>28, <1>29, <1>30
       DEF Next

\* The Binding, the claim and the operations start in the invariant.
LEMMA InitHolds == Init => IInv
  <1> SUFFICES ASSUME Init PROVE IInv
    OBVIOUS
  <1>1. scenario.place \in Places
    BY DEF Init, Places
  <1>2. core \in Panes /\ bind \in Bindings /\ claim \in Claims
    BY <1>1 DEF Init, Panes, Bindings, Claims, Tokens
  <1>3. TypeOK
    BY <1>2 DEF Init, TypeOK, NoOperation, Requests, Lanes, Movers, Passes, Idle
  <1>4. LaneHasOperation /\ MoverHasOperation /\ Serialized /\ ClaimOfBinding
    BY DEF Init, LaneHasOperation, MoverHasOperation, Serialized, ClaimOfBinding, Idle, ClearOpen
  <1>5. ReceiptOfOperation /\ AnswerIsReceipt
    BY DEF Init, ReceiptOfOperation, AnswerIsReceipt, Idle
  <1> QED BY <1>3, <1>4, <1>5 DEF IInv
-----------------------------------------------------------------------------
\* Under the proviso every step keeps the fence of a claimed rotation standing.
LEMMA StepKeepsFence ==
    ASSUME IInv, IInv', Proviso, PInv, [Next]_vars
    PROVE  Fenced'
  <1> USE DEF store, external, process
  <1>1. ASSUME RequestCapture PROVE Fenced'
    <2>1. (HomeIsNamed /\ FenceStands /\ RejectedIsSilent)'
      BY <1>1
         DEF RequestCapture, PInv, Fenced, HomeIsNamed, FenceStands, RejectedIsSilent, ClearFence
    <2>2. TerminalsGrow'
      BY <1>1
         DEF RequestCapture, Spend, PInv, Fenced, TerminalsGrow, Panes, Bindings, Passes, Requests,
             ClearRows, NoOperation, Idle, IInv, TypeOK
    <2>3. HomeIsCleared'
      BY <1>1
         DEF RequestCapture, Spend, PInv, Fenced, HomeIsCleared, Requests, Bindings, ClearRows,
             NoOperation, Idle, IInv, TypeOK
    <2> QED BY <2>1, <2>2, <2>3 DEF PInv, Fenced
  <1>2. ASSUME RequestObserve PROVE Fenced'
    <2>1. (HomeIsNamed /\ FenceStands /\ RejectedIsSilent)'
      BY <1>2
         DEF RequestObserve, PInv, Fenced, HomeIsNamed, FenceStands, RejectedIsSilent, ClearFence
    <2>2. TerminalsGrow'
      BY <1>2
         DEF RequestObserve, ShowsRuntime, PInv, Fenced, TerminalsGrow, Panes, Bindings, Passes, Requests,
             ClearRows, NoOperation, Idle, IInv, TypeOK
    <2>3. HomeIsCleared'
      BY <1>2
         DEF RequestObserve, ShowsRuntime, PInv, Fenced, HomeIsCleared, Requests, Bindings, ClearRows,
             NoOperation, Idle, IInv, TypeOK
    <2> QED BY <2>1, <2>2, <2>3 DEF PInv, Fenced
  <1>3. ASSUME RequestAccept PROVE Fenced'
    <2>1. (HomeIsNamed)'
      BY <1>3
         DEF RequestAccept, PInv, Fenced, HomeIsNamed
    <2>2. TerminalsGrow'
      BY <1>3
         DEF RequestAccept, MayAccept, hasActiveIdentityMigration, PInv, Fenced, TerminalsGrow, Panes,
             Bindings, Passes, Requests, ClearRows, NoOperation, Idle, IInv, TypeOK
    <2>3. HomeIsCleared'
      BY <1>3
         DEF RequestAccept, MayAccept, hasActiveIdentityMigration, PInv, Fenced, HomeIsCleared, Requests,
             Bindings, ClearRows, NoOperation, Idle, IInv, TypeOK
    <2>4. FenceStands'
      BY <1>3
         DEF RequestAccept, MayAccept, hasActiveIdentityMigration, PInv, Fenced, FenceStands, ClearFence,
             ClearRows, NoOperation, TerminalsGrow, Panes, Bindings, IInv, TypeOK,
             LaneHasOperation, ReceiptOfOperation
    <2>5. RejectedIsSilent'
      BY <1>3
         DEF RequestAccept, MayAccept, hasActiveIdentityMigration, PInv, Fenced, RejectedIsSilent,
             ClearRows, NoOperation, IInv, TypeOK, LaneHasOperation, ReceiptOfOperation
    <2> QED BY <2>1, <2>2, <2>3, <2>4, <2>5 DEF PInv, Fenced
  <1>4. ASSUME LaneStart PROVE Fenced'
    BY <1>4
       DEF LaneStart, PInv, Fenced, TerminalsGrow, HomeIsNamed, HomeIsCleared, FenceStands,
           RejectedIsSilent, ClearFence
  <1>5. ASSUME LaneObserve PROVE Fenced'
    BY <1>5
       DEF LaneObserve, PInv, Fenced, TerminalsGrow, HomeIsNamed, HomeIsCleared, FenceStands,
           RejectedIsSilent, ClearFence
  <1>6. ASSUME LaneReject PROVE Fenced'
    <2>1. clear \in ClearRows /\ clear.st = "accepted"
      BY <1>6, OperationExists DEF LaneReject, IInv, LaneHasOperation
    <2>2. /\ clear'.st = "rejected" /\ clear'.place = clear.place /\ clear'.term = clear.term
          /\ UNCHANGED <<scenario, external, bind, req, pass, seen>>
      <3>1. "rejected" \in ClearStates
        BY DEF ClearStates
      <3> QED BY <1>6, <2>1, <3>1, ClearRowUpdate DEF LaneReject
    <2>3. (TerminalsGrow /\ HomeIsNamed /\ HomeIsCleared)'
      BY <2>1, <2>2 DEF PInv, Fenced, TerminalsGrow, HomeIsNamed, HomeIsCleared
    <2>4. (FenceStands /\ RejectedIsSilent)'
      BY <2>1, <2>2 DEF FenceStands, RejectedIsSilent, IInv, ReceiptOfOperation
    <2> QED BY <2>3, <2>4 DEF PInv, Fenced
  <1>7. ASSUME LaneClaim PROVE Fenced'
    <2>1. clear \in ClearRows /\ clear.st = "accepted" /\ receipt = 0
      BY <1>7, OperationExists DEF LaneClaim, IInv, LaneHasOperation, ReceiptOfOperation
    <2>2. UNCHANGED <<scenario, external, bind, req, pass, seen>>
      BY <1>7 DEF LaneClaim
    <2>3. CASE UNCHANGED clear
      BY <2>2, <2>3 DEF PInv, Fenced, TerminalsGrow, HomeIsNamed, HomeIsCleared, FenceStands,
                        ClearFence, RejectedIsSilent
    <2>4. CASE ClearFence(bind) /\ clear' = [clear EXCEPT !.st = "rotating"]
      <3>1. /\ clear'.st = "rotating" /\ clear'.place = clear.place /\ clear'.term = clear.term
            /\ clear'.epoch = clear.epoch /\ clear'.sess = clear.sess
        <4>1. "rotating" \in ClearStates
          BY DEF ClearStates, ClearHeld, ClearOpen
        <4> QED BY <2>1, <2>4, <4>1, ClearRowUpdate
      <3>2. (TerminalsGrow /\ HomeIsNamed /\ HomeIsCleared)'
        BY <2>1, <2>2, <3>1 DEF PInv, Fenced, TerminalsGrow, HomeIsNamed, HomeIsCleared
      <3>3. FenceStands'
        BY <2>1, <2>2, <2>4, <3>1 DEF FenceStands, ClearFence
      <3>4. RejectedIsSilent'
        BY <3>1 DEF RejectedIsSilent
      <3> QED BY <3>2, <3>3, <3>4 DEF PInv, Fenced
    <2> QED BY <1>7, <2>3, <2>4 DEF LaneClaim
  <1>8. ASSUME LaneCall PROVE Fenced'
    <2>1. (TerminalsGrow /\ HomeIsNamed /\ HomeIsCleared /\ FenceStands)'
      BY <1>8
         DEF LaneCall, PInv, Fenced, TerminalsGrow, HomeIsNamed, HomeIsCleared, FenceStands, ClearFence
    <2>2. RejectedIsSilent'
      BY <1>8
         DEF LaneCall, PInv, Fenced, RejectedIsSilent, ClearRows, NoOperation, IInv, TypeOK,
             LaneHasOperation, ReceiptOfOperation
    <2> QED BY <2>1, <2>2 DEF PInv, Fenced
  <1>9. ASSUME LaneAnswer PROVE Fenced'
    <2>1. /\ clear \in ClearRows /\ clear.st \in {"rotating", "uncertain"}
          /\ clear.st \in ClearStates /\ lane.pc = "call"
          /\ {"rejected", "uncertain", "withdrawing", "succeeded"} \subseteq ClearStates
      BY <1>9, RotationOutcome
         DEF LaneAnswer, IInv, LaneHasOperation, ClearRows, ClearStates, ClearHeld, ClearOpen
    <2>2. UNCHANGED <<scenario, external, req, pass, seen>>
      BY <1>9 DEF LaneAnswer
    <2>3. /\ clear'.place = clear.place /\ clear'.term = clear.term /\ clear'.sess = clear.sess
          /\ clear'.epoch = clear.epoch /\ clear'.st # "none"
      <3>1. PICK s \in ClearStates : clear' = [clear EXCEPT !.st = s]
        BY <1>9, <2>1, RotationOutcome
      <3>2. s # "none"
        BY DEF ClearStates, ClearHeld, ClearOpen
      <3> QED BY <2>1, <3>1, <3>2, ClearRowUpdate
    <2>4. bind'.term = bind.term
      BY <1>9, RotationOutcome DEF IInv, TypeOK, Bindings
    <2>5. (TerminalsGrow /\ HomeIsNamed /\ HomeIsCleared)'
      BY <2>1, <2>2, <2>3, <2>4 DEF PInv, Fenced, TerminalsGrow, HomeIsNamed, HomeIsCleared
    <2>6. lane.reply = "done" => ClearFence(bind)
      BY <2>1 DEF PInv, Fenced, FenceStands, IInv, AnswerIsReceipt
    <2>7. CASE bind' = bind
      <3>1. FenceStands'
        BY <2>1, <2>2, <2>3, <2>7 DEF PInv, Fenced, FenceStands, ClearFence
      <3>2. clear'.st = "rejected" => lane.reply = "refused"
        <4>1. clear'.st \notin {"withdrawing", "succeeded"} =>
                (clear'.st = "rejected" => lane.reply = "refused" \/ ~ClearFence(bind))
          BY <1>9, <2>1, RotationOutcome DEF ClearRows
        <4>2. lane.reply \in {"done", "refused"}
          BY <1>9, <2>1 DEF LaneAnswer, IInv, TypeOK, Lanes, Waiters
        <4> QED BY <2>6, <4>1, <4>2
      <3>3. RejectedIsSilent'
        BY <2>1, <2>2, <3>2 DEF RejectedIsSilent, IInv, AnswerIsReceipt
      <3> QED BY <2>5, <3>1, <3>3 DEF PInv, Fenced
    <2>8. CASE \E s \in {"withdrawing", "succeeded"} : clear' = [clear EXCEPT !.st = s]
      <3>1. clear'.st \in {"withdrawing", "succeeded"}
        BY <2>1, <2>8, ClearRowUpdate
      <3> QED BY <2>5, <3>1 DEF PInv, Fenced, FenceStands, RejectedIsSilent
    <2> QED BY <1>9, <2>7, <2>8, RotationOutcome
  <1>10. ASSUME LaneNoCapability PROVE Fenced'
    <2>1. used["noprobe"] \in Nat /\ used["noprobe"] < scenario["noprobe"]
      BY <1>10, SpendCounts DEF LaneNoCapability, IInv, Faults
    <2> QED BY <2>1 DEF Proviso
  <1>11. ASSUME LaneLost PROVE Fenced'
    <2>1. (HomeIsNamed)'
      BY <1>11
         DEF LaneLost, PInv, Fenced, HomeIsNamed
    <2>2. TerminalsGrow'
      BY <1>11
         DEF LaneLost, Spend, AfterLostAnswer, PInv, Fenced, TerminalsGrow, Panes, Bindings, Passes,
             Requests, ClearRows, NoOperation, Idle, IInv, TypeOK
    <2>3. HomeIsCleared'
      BY <1>11
         DEF LaneLost, Spend, AfterLostAnswer, PInv, Fenced, HomeIsCleared, Requests, Bindings, ClearRows,
             NoOperation, Idle, IInv, TypeOK
    <2>4. FenceStands'
      BY <1>11
         DEF LaneLost, Spend, AfterLostAnswer, PInv, Fenced, FenceStands, ClearFence, ClearRows,
             NoOperation, TerminalsGrow, Panes, Bindings, IInv, TypeOK, LaneHasOperation,
             ReceiptOfOperation
    <2>5. RejectedIsSilent'
      BY <1>11
         DEF LaneLost, Spend, AfterLostAnswer, PInv, Fenced, RejectedIsSilent, ClearRows, NoOperation,
             IInv, TypeOK, LaneHasOperation, ReceiptOfOperation
    <2> QED BY <2>1, <2>2, <2>3, <2>4, <2>5 DEF PInv, Fenced
  <1>12. ASSUME SettleWithdrawal PROVE Fenced'
    <2>1. (HomeIsNamed)'
      BY <1>12
         DEF SettleWithdrawal, PInv, Fenced, HomeIsNamed
    <2>2. TerminalsGrow'
      BY <1>12
         DEF SettleWithdrawal, PInv, Fenced, TerminalsGrow, Panes, Bindings, Passes, Requests, ClearRows,
             NoOperation, Idle, IInv, TypeOK
    <2>3. HomeIsCleared'
      BY <1>12
         DEF SettleWithdrawal, PInv, Fenced, HomeIsCleared, Requests, Bindings, ClearRows, NoOperation,
             Idle, IInv, TypeOK
    <2>4. FenceStands'
      BY <1>12
         DEF SettleWithdrawal, PInv, Fenced, FenceStands, ClearFence, ClearRows, NoOperation,
             TerminalsGrow, Panes, Bindings, IInv, TypeOK, LaneHasOperation, ReceiptOfOperation
    <2>5. RejectedIsSilent'
      BY <1>12
         DEF SettleWithdrawal, PInv, Fenced, RejectedIsSilent, ClearRows, NoOperation, IInv, TypeOK,
             LaneHasOperation, ReceiptOfOperation
    <2> QED BY <2>1, <2>2, <2>3, <2>4, <2>5 DEF PInv, Fenced
  <1>13. ASSUME MoverRecover PROVE Fenced'
    BY <1>13
       DEF MoverRecover, PInv, Fenced, TerminalsGrow, HomeIsNamed, HomeIsCleared, FenceStands,
           RejectedIsSilent, ClearFence
  <1>14. ASSUME MoverCapture PROVE Fenced'
    BY <1>14
       DEF MoverCapture, PInv, Fenced, TerminalsGrow, HomeIsNamed, HomeIsCleared, FenceStands,
           RejectedIsSilent, ClearFence
  <1>15. ASSUME MoverAccept PROVE Fenced'
    <2>1. (TerminalsGrow /\ HomeIsNamed /\ HomeIsCleared /\ FenceStands)'
      BY <1>15
         DEF MoverAccept, PInv, Fenced, TerminalsGrow, HomeIsNamed, HomeIsCleared, FenceStands, ClearFence
    <2>2. RejectedIsSilent'
      BY <1>15
         DEF MoverAccept, PInv, Fenced, RejectedIsSilent, ClearRows, NoOperation, IInv, TypeOK,
             LaneHasOperation, ReceiptOfOperation
    <2> QED BY <2>1, <2>2 DEF PInv, Fenced
  <1>16. ASSUME MoverCall PROVE Fenced'
    <2>1. (TerminalsGrow /\ HomeIsNamed /\ HomeIsCleared /\ FenceStands)'
      BY <1>16
         DEF MoverCall, PInv, Fenced, TerminalsGrow, HomeIsNamed, HomeIsCleared, FenceStands, ClearFence
    <2>2. RejectedIsSilent'
      BY <1>16
         DEF MoverCall, PInv, Fenced, RejectedIsSilent, ClearRows, NoOperation, IInv, TypeOK,
             LaneHasOperation, ReceiptOfOperation
    <2> QED BY <2>1, <2>2 DEF PInv, Fenced
  <1>17. ASSUME MoverAnswer PROVE Fenced'
    <2>1. UNCHANGED <<scenario, external, clear, req, pass, seen>> /\ bind'.term = bind.term
      BY <1>17, MoveOutcome DEF MoverAnswer, IInv, TypeOK, Bindings
    <2>2. clear.st \notin ClearOpen
      BY <1>17, MoveOutcome DEF IInv, Serialized
    <2>3. (TerminalsGrow /\ HomeIsNamed /\ HomeIsCleared)'
      BY <2>1 DEF PInv, Fenced, TerminalsGrow, HomeIsNamed, HomeIsCleared
    <2>4. (FenceStands /\ RejectedIsSilent)'
      BY <2>1, <2>2 DEF PInv, Fenced, FenceStands, RejectedIsSilent, ClearOpen
    <2> QED BY <2>3, <2>4 DEF PInv, Fenced
  <1>18. ASSUME MoverNoCapability PROVE Fenced'
    BY <1>18
       DEF MoverNoCapability, PInv, Fenced, TerminalsGrow, HomeIsNamed, HomeIsCleared, FenceStands,
           RejectedIsSilent, ClearFence
  <1>19. ASSUME MoverLost PROVE Fenced'
    BY <1>19
       DEF MoverLost, PInv, Fenced, TerminalsGrow, HomeIsNamed, HomeIsCleared, FenceStands,
           RejectedIsSilent, ClearFence
  <1>20. ASSUME CoreRotate PROVE Fenced'
    <2>1. (HomeIsCleared)'
      BY <1>20
         DEF CoreRotate, PInv, Fenced, HomeIsCleared
    <2>2. TerminalsGrow'
      BY <1>20
         DEF CoreRotate, Reply, ShowsRuntime, PInv, Fenced, TerminalsGrow, Panes, Bindings, Passes,
             Requests, ClearRows, NoOperation, Idle, IInv, TypeOK
    <2>3. HomeIsNamed'
      BY <1>20
         DEF CoreRotate, Reply, ShowsRuntime, PInv, Fenced, HomeIsNamed, Panes, Passes, Idle, IInv, TypeOK
    <2>4. FenceStands'
      BY <1>20
         DEF CoreRotate, Reply, ShowsRuntime, PInv, Fenced, FenceStands, ClearFence, ClearRows,
             NoOperation, TerminalsGrow, Panes, Bindings, IInv, TypeOK, LaneHasOperation,
             ReceiptOfOperation
    <2>5. RejectedIsSilent'
      BY <1>20
         DEF CoreRotate, Reply, ShowsRuntime, PInv, Fenced, RejectedIsSilent, ClearRows, NoOperation,
             IInv, TypeOK, LaneHasOperation, ReceiptOfOperation
    <2> QED BY <2>1, <2>2, <2>3, <2>4, <2>5 DEF PInv, Fenced
  <1>21. ASSUME CoreMove PROVE Fenced'
    <2>1. /\ core'.term = core.term /\ core'.live = core.live
          /\ core'.place = "home" => core'.token = "orch"
      BY ZenonT(40), <1>21 DEF CoreMove, IInv, TypeOK, Panes, PInv, Fenced, HomeIsNamed
    <2>2. /\ UNCHANGED <<scenario, store, receipt, req, pass, seen>>
          /\ "rotate" \in calls' => "rotate" \in calls
      BY <1>21 DEF CoreMove
    <2>3. (TerminalsGrow /\ HomeIsNamed /\ HomeIsCleared)'
      BY <2>1, <2>2 DEF PInv, Fenced, TerminalsGrow, HomeIsNamed, HomeIsCleared
    <2>4. (FenceStands /\ RejectedIsSilent)'
      BY <2>1, <2>2 DEF PInv, Fenced, FenceStands, RejectedIsSilent, ClearFence
    <2> QED BY <2>3, <2>4 DEF PInv, Fenced
  <1>22. ASSUME PassRead PROVE Fenced'
    <2>1. (HomeIsCleared /\ FenceStands /\ RejectedIsSilent)'
      BY <1>22
         DEF PassRead, PInv, Fenced, HomeIsCleared, FenceStands, RejectedIsSilent, ClearFence
    <2>2. TerminalsGrow'
      BY <1>22
         DEF PassRead, PInv, Fenced, TerminalsGrow, Panes, Bindings, Passes, Requests, ClearRows,
             NoOperation, Idle, IInv, TypeOK
    <2>3. HomeIsNamed'
      BY <1>22
         DEF PassRead, PInv, Fenced, HomeIsNamed, Panes, Passes, Idle, IInv, TypeOK
    <2> QED BY <2>1, <2>2, <2>3 DEF PInv, Fenced
  <1>23. ASSUME PassApply PROVE Fenced'
    <2>1. /\ UNCHANGED <<scenario, external, clear, mig, req, lane>>
          /\ pass.pc = "read" /\ pass' = Idle
      BY <1>23 DEF PassApply
    <2>2. pass.pane \in Panes /\ bind \in Bindings /\ core \in Panes
      BY <1>23, PassOutcome DEF IInv, TypeOK
    <2>3. (HomeIsNamed /\ HomeIsCleared /\ RejectedIsSilent)'
      BY <2>1 DEF PInv, Fenced, HomeIsNamed, HomeIsCleared, RejectedIsSilent, Idle
    <2>4. CASE bind'.term = bind.term /\ (ClearFence(bind) => ClearFence(bind)')
      <3>1. TerminalsGrow'
        BY <2>1, <2>4 DEF PInv, Fenced, TerminalsGrow, Idle
      <3>2. FenceStands'
        BY <2>1, <2>4 DEF PInv, Fenced, FenceStands
      <3> QED BY <2>3, <3>1, <3>2 DEF PInv, Fenced
    <2>5. CASE bind' = bind
      BY <2>1, <2>4, <2>5 DEF ClearFence
    <2>6. CASE \E s \in {"orphaned", "degraded"} : bind' = [bind EXCEPT !.att = s]
      BY <2>1, <2>2, <2>4, <2>6 DEF ClearFence, Bindings
    <2>7. CASE /\ pass.pane.place = bind.place /\ pass.pane.sess = bind.sess
               /\ bind' = [bind EXCEPT !.sess = pass.pane.sess, !.term = pass.pane.term,
                                       !.token = pass.pane.token, !.att = "attached"]
      <3>1. /\ bind'.sess = bind.sess /\ bind'.term = pass.pane.term /\ bind'.epoch = bind.epoch
            /\ bind'.token = pass.pane.token /\ bind'.place = bind.place
        BY <2>2, <2>7 DEF Bindings
      <3>2. TerminalsGrow'
        BY <2>1, <3>1 DEF PInv, Fenced, TerminalsGrow, Idle
      <3>3. ASSUME clear.st \in {"rotating", "uncertain"}, core.term = clear.term \/ receipt # 0
            PROVE  ClearFence(bind)'
        <4>1. ClearFence(bind)
          BY <3>3 DEF PInv, Fenced, FenceStands
        <4>2. pass.pane.term = clear.term
          <5>1. /\ bind.term <= pass.pane.term /\ pass.pane.term <= core.term
                /\ bind.term = clear.term
            BY <2>1, <4>1 DEF PInv, Fenced, TerminalsGrow, ClearFence
          <5>2. bind.term \in Nat /\ pass.pane.term \in Nat /\ core.term \in Nat
            BY <2>2 DEF Bindings, Panes
          <5>3. receipt # 0 => pass.pane.term <= clear.term
            BY <2>1, <2>7, <3>3, <4>1 DEF PInv, RotatedIsAhead, ClearFence
          <5> QED BY <3>3, <5>1, <5>2, <5>3
        <4>3. pass.pane.token = "orch"
          BY <2>1, <2>7, <3>3, <4>1 DEF PInv, Fenced, HomeIsNamed, HomeIsCleared, ClearFence
        <4> QED BY <2>1, <3>1, <4>1, <4>2, <4>3 DEF ClearFence
      <3>4. FenceStands'
        BY <2>1, <3>3 DEF PInv, Fenced, FenceStands
      <3> QED BY <2>3, <3>2, <3>4 DEF PInv, Fenced
    <2> QED BY <1>23, <2>5, <2>6, <2>7, PassOutcome
  <1>24. ASSUME Turn PROVE Fenced'
    <2>1. (HomeIsCleared /\ RejectedIsSilent)'
      BY <1>24
         DEF Turn, World, PInv, Fenced, HomeIsCleared, RejectedIsSilent
    <2>2. TerminalsGrow'
      BY <1>24
         DEF Turn, World, Spend, PInv, Fenced, TerminalsGrow, Panes, Bindings, Passes, Requests,
             ClearRows, NoOperation, Idle, IInv, TypeOK
    <2>3. HomeIsNamed'
      BY <1>24
         DEF Turn, World, Spend, PInv, Fenced, HomeIsNamed, Panes, Passes, Idle, IInv, TypeOK
    <2>4. FenceStands'
      BY <1>24
         DEF Turn, World, Spend, PInv, Fenced, FenceStands, ClearFence, ClearRows, NoOperation,
             TerminalsGrow, Panes, Bindings, IInv, TypeOK, LaneHasOperation, ReceiptOfOperation
    <2> QED BY <2>1, <2>2, <2>3, <2>4 DEF PInv, Fenced
  <1>25. ASSUME Relabel PROVE Fenced'
    <2>1. used["relabel"] \in Nat /\ used["relabel"] < scenario["relabel"]
      BY <1>25, SpendCounts DEF Relabel, World, IInv, Faults
    <2> QED BY <2>1 DEF Proviso, Undisturbed
  <1>26. ASSUME Unregister PROVE Fenced'
    <2>1. (HomeIsCleared /\ RejectedIsSilent)'
      BY <1>26
         DEF Unregister, World, PInv, Fenced, HomeIsCleared, RejectedIsSilent
    <2>2. TerminalsGrow'
      BY <1>26
         DEF Unregister, World, Spend, PInv, Fenced, TerminalsGrow, Panes, Bindings, Passes, Requests,
             ClearRows, NoOperation, Idle, IInv, TypeOK
    <2>3. HomeIsNamed'
      BY <1>26
         DEF Unregister, World, Spend, PInv, Fenced, HomeIsNamed, Panes, Passes, Idle, IInv, TypeOK
    <2>4. FenceStands'
      BY <1>26
         DEF Unregister, World, Spend, PInv, Fenced, FenceStands, ClearFence, ClearRows, NoOperation,
             TerminalsGrow, Panes, Bindings, IInv, TypeOK, LaneHasOperation, ReceiptOfOperation
    <2> QED BY <2>1, <2>2, <2>3, <2>4 DEF PInv, Fenced
  <1>27. ASSUME Vanish PROVE Fenced'
    <2>1. /\ UNCHANGED <<scenario, store, calls, receipt, process>>
          /\ core' = [core EXCEPT !.live = FALSE] /\ core \in Panes
      BY <1>27 DEF Vanish, World, Spend, IInv, TypeOK
    <2>2. core'.term = core.term /\ core'.place = core.place /\ core'.token = core.token
      BY <2>1 DEF Panes
    <2>3. (TerminalsGrow /\ HomeIsNamed /\ HomeIsCleared)'
      BY <2>1, <2>2 DEF PInv, Fenced, TerminalsGrow, HomeIsNamed, HomeIsCleared
    <2>4. (FenceStands /\ RejectedIsSilent)'
      BY <2>1, <2>2 DEF PInv, Fenced, FenceStands, RejectedIsSilent, ClearFence
    <2> QED BY <2>3, <2>4 DEF PInv, Fenced
  <1>28. ASSUME Return PROVE Fenced'
    <2>1. (HomeIsCleared /\ RejectedIsSilent)'
      BY <1>28
         DEF Return, PInv, Fenced, HomeIsCleared, RejectedIsSilent
    <2>2. TerminalsGrow'
      BY <1>28
         DEF Return, PInv, Fenced, TerminalsGrow, Panes, Bindings, Passes, Requests, ClearRows,
             NoOperation, Idle, IInv, TypeOK
    <2>3. HomeIsNamed'
      BY <1>28
         DEF Return, PInv, Fenced, HomeIsNamed, Panes, Passes, Idle, IInv, TypeOK
    <2>4. FenceStands'
      BY <1>28
         DEF Return, PInv, Fenced, FenceStands, ClearFence, ClearRows, NoOperation, TerminalsGrow, Panes,
             Bindings, IInv, TypeOK, LaneHasOperation, ReceiptOfOperation
    <2> QED BY <2>1, <2>2, <2>3, <2>4 DEF PInv, Fenced
  <1>29. ASSUME Crash PROVE Fenced'
    <2>1. (FenceStands /\ RejectedIsSilent)'
      BY <1>29
         DEF Crash, PInv, Fenced, FenceStands, RejectedIsSilent, ClearFence
    <2>2. TerminalsGrow'
      BY <1>29
         DEF Crash, Spend, PInv, Fenced, TerminalsGrow, Panes, Bindings, Passes, Requests, ClearRows,
             NoOperation, Idle, IInv, TypeOK
    <2>3. HomeIsNamed'
      BY <1>29
         DEF Crash, Spend, PInv, Fenced, HomeIsNamed, Panes, Passes, Idle, IInv, TypeOK
    <2>4. HomeIsCleared'
      BY <1>29
         DEF Crash, Spend, PInv, Fenced, HomeIsCleared, Requests, Bindings, ClearRows, NoOperation, Idle,
             IInv, TypeOK
    <2> QED BY <2>1, <2>2, <2>3, <2>4 DEF PInv, Fenced
  <1>30. ASSUME UNCHANGED vars PROVE Fenced'
    BY <1>30 DEF vars, PInv, Fenced, TerminalsGrow, HomeIsNamed, HomeIsCleared, FenceStands, RejectedIsSilent,
       ClearFence
  <1> QED
    BY <1>1, <1>2, <1>3, <1>4, <1>5, <1>6, <1>7, <1>8, <1>9, <1>10, <1>11, <1>12, <1>13, <1>14, <1>15,
       <1>16, <1>17, <1>18, <1>19, <1>20, <1>21, <1>22, <1>23, <1>24, <1>25, <1>26, <1>27, <1>28, <1>29, <1>30
       DEF Next

\* Nothing but the outcomes of a rotation, a migration and a pass writes the Binding.
LEMMA BindingWriters ==
    ASSUME [Next]_vars, ~LaneAnswer, ~MoverAnswer, ~PassApply
    PROVE  bind' = bind
  BY
     DEF Next, vars, store, external, process, World, RequestCapture, RequestObserve,
         RequestAccept, LaneStart, LaneObserve, LaneReject, LaneClaim, LaneCall, LaneNoCapability,
         LaneLost, SettleWithdrawal, MoverRecover, MoverCapture, MoverAccept, MoverCall,
         MoverNoCapability, MoverLost, CoreRotate, CoreMove, PassRead, Turn, Relabel, Unregister,
         Vanish, Return, Crash

\* What most steps do: the sessions of Core only grow, no rotation is claimed or executed, and no
\* snapshot is read.
LEMMA AheadStays ==
    ASSUME IInv, RotatedIsAhead, core'.sess \in Nat, core.sess <= core'.sess, receipt' = receipt,
           pass' \in {pass, Idle},
           clear'.st \in {"rotating", "uncertain"} =>
               /\ clear.st \in {"rotating", "uncertain"}
               /\ clear'.sess = clear.sess /\ clear'.term = clear.term
    PROVE  RotatedIsAhead'
  <1>1. core.sess \in Nat
    BY DEF IInv, TypeOK, Panes
  <1>2. SUFFICES ASSUME clear'.st \in {"rotating", "uncertain"}, receipt # 0
                 PROVE  /\ clear'.sess < core'.sess
                        /\ (pass'.pc = "read" /\ pass'.pane.sess = clear'.sess) =>
                               pass'.pane.term <= clear'.term
    BY DEF RotatedIsAhead
  <1>3. clear \in ClearRows /\ clear.sess \in Nat /\ clear.sess < core.sess
    BY <1>2, OperationExists DEF RotatedIsAhead, ClearRows
  <1>4. clear'.sess < core'.sess
    BY <1>1, <1>2, <1>3
  <1>5. CASE pass' = pass
    BY <1>2, <1>4, <1>5 DEF RotatedIsAhead
  <1>6. CASE pass' = Idle
    BY <1>4, <1>6 DEF Idle
  <1> QED BY <1>5, <1>6

\* Every step keeps Core's session ahead of the operation whose rotation it executed.
LEMMA StepKeepsAhead ==
    ASSUME IInv, PInv, [Next]_vars
    PROVE  RotatedIsAhead'
  <1> USE DEF store, external, process
  <1>1. core.sess \in Nat /\ core \in Panes /\ RotatedIsAhead
    BY DEF IInv, TypeOK, Panes, PInv
  <1>2. CASE \/ RequestCapture \/ RequestObserve \/ LaneStart \/ LaneObserve \/ LaneCall
             \/ MoverRecover \/ MoverCapture \/ MoverAccept \/ MoverCall \/ MoverAnswer
             \/ MoverNoCapability \/ MoverLost \/ PassApply \/ Crash \/ UNCHANGED vars
    <2>1. UNCHANGED <<core, receipt, clear>> /\ pass' \in {pass, Idle}
      BY <1>2 DEF RequestCapture, RequestObserve, LaneStart, LaneObserve, LaneCall, MoverRecover,
                  MoverCapture, MoverAccept, MoverCall, MoverAnswer, MoverNoCapability, MoverLost,
                  PassApply, Crash, vars
    <2> QED BY <1>1, <2>1, AheadStays
  <1>3. CASE RequestAccept
    <2>1. UNCHANGED <<core, pass>> /\ (UNCHANGED <<clear, receipt>> \/ receipt' = 0)
      BY <1>3 DEF RequestAccept
    <2>2. CASE receipt' = 0
      BY <2>2 DEF RotatedIsAhead
    <2>3. CASE UNCHANGED <<clear, receipt>>
      BY <1>1, <2>1, <2>3, AheadStays
    <2> QED BY <2>1, <2>2, <2>3
  <1>4. CASE LaneReject \/ LaneNoCapability \/ SettleWithdrawal
    <2>1. PICK s \in {"rejected", "succeeded", "partial"} : clear' = [clear EXCEPT !.st = s]
      BY <1>4 DEF LaneReject, LaneNoCapability, SettleWithdrawal
    <2>2. clear \in ClearRows
      BY <1>4, OperationExists DEF LaneReject, LaneNoCapability, SettleWithdrawal
    <2>3. clear'.st = s
      BY <2>1, <2>2 DEF ClearRows
    <2> QED BY <2>3 DEF RotatedIsAhead
  <1>5. CASE LaneClaim
    <2>1. receipt = 0 /\ UNCHANGED receipt
      BY <1>5 DEF LaneClaim, IInv, LaneHasOperation, ReceiptOfOperation
    <2> QED BY <2>1 DEF RotatedIsAhead
  <1>6. CASE LaneLost
    <2>1. /\ clear \in ClearRows /\ clear.st \in {"rotating", "uncertain"}
          /\ UNCHANGED <<core, receipt, pass>>
      BY <1>6, OperationExists DEF LaneLost, IInv, LaneHasOperation
    <2>2. clear' = [clear EXCEPT !.st = AfterLostAnswer(clear.st)]
      BY <1>6 DEF LaneLost
    <2>3. clear'.sess = clear.sess /\ clear'.term = clear.term
      BY <2>1, <2>2 DEF ClearRows
    <2> QED BY <1>1, <2>1, <2>3, AheadStays
  <1>7. CASE LaneAnswer
    <2>1. /\ clear \in ClearRows /\ clear.st \in {"rotating", "uncertain"}
          /\ UNCHANGED <<core, receipt, pass>>
      BY <1>7, OperationExists DEF LaneAnswer, IInv, LaneHasOperation
    <2>2. PICK s \in ClearStates : clear' = [clear EXCEPT !.st = s]
      <3>1. {"rejected", "uncertain", "withdrawing", "succeeded"} \subseteq ClearStates
            /\ clear.st \in ClearStates
        BY <2>1 DEF ClearRows, ClearStates, ClearHeld, ClearOpen
      <3> QED BY <1>7, <2>1, <3>1, RotationOutcome
    <2>3. clear'.sess = clear.sess /\ clear'.term = clear.term
      BY <2>1, <2>2, ClearRowUpdate
    <2> QED BY <1>1, <2>1, <2>3, AheadStays
  <1>8. CASE CoreRotate
    <2>1. UNCHANGED <<clear, pass>>
      BY <1>8 DEF CoreRotate
    <2>2. CASE UNCHANGED <<core, receipt>>
      BY <1>1, <2>1, <2>2, AheadStays
    <2>3. CASE ShowsRuntime(core, clear) /\ core' = [core EXCEPT !.sess = @ + 1]
      <3>1. clear.term = core.term /\ clear.sess = core.sess /\ core'.sess = core.sess + 1
        BY <1>1, <2>3 DEF ShowsRuntime, Panes
      <3>2. pass.pc = "read" => pass.pane.term <= clear.term
        BY <3>1 DEF PInv, Fenced, TerminalsGrow
      <3> QED BY <1>1, <2>1, <3>1, <3>2 DEF RotatedIsAhead
    <2> QED BY <1>8, <2>2, <2>3 DEF CoreRotate
  <1>9. CASE CoreMove \/ Turn \/ Relabel \/ Unregister \/ Vanish \/ Return
    <2>1. UNCHANGED <<receipt, clear, pass>>
      BY <1>9 DEF CoreMove, Turn, Relabel, Unregister, Vanish, Return, World
    <2>2. core'.sess = core.sess
      BY <1>1, <1>9 DEF CoreMove, Turn, Relabel, Unregister, Vanish, Return, World, Panes
    <2> QED BY <1>1, <2>1, <2>2, AheadStays
  <1>10. CASE PassRead
    <2>1. UNCHANGED <<core, receipt, clear>> /\ pass'.pane = core
      BY <1>10 DEF PassRead
    <2>2. SUFFICES ASSUME clear.st \in {"rotating", "uncertain"}, receipt # 0
                   PROVE  clear.sess < core.sess /\ core.sess # clear.sess
      BY <2>1 DEF RotatedIsAhead
    <2>3. clear \in ClearRows /\ clear.sess < core.sess
      BY <1>1, <2>2, OperationExists DEF RotatedIsAhead
    <2> QED BY <1>1, <2>3 DEF ClearRows
  <1> QED BY <1>2, <1>3, <1>4, <1>5, <1>6, <1>7, <1>8, <1>9, <1>10 DEF Next

\* The scenario is fixed.
LEMMA ScenarioFixed == [Next]_vars => scenario' = scenario
  BY
     DEF Next, vars, Spend, store, external, process, World, RequestCapture, RequestObserve,
         RequestAccept, LaneStart, LaneObserve, LaneReject, LaneClaim, LaneCall, LaneAnswer,
         LaneNoCapability, LaneLost, SettleWithdrawal, MoverRecover, MoverCapture, MoverAccept,
         MoverCall, MoverAnswer, MoverNoCapability, MoverLost, CoreRotate, CoreMove, PassRead,
         PassApply, Turn, Relabel, Unregister, Vanish, Return, Crash

\* Under the proviso nothing was rotated, claimed or rejected yet.
LEMMA InitFence == Init => PInv
  <1> SUFFICES ASSUME Init PROVE PInv
    OBVIOUS
  <1>1. TerminalsGrow /\ HomeIsCleared
    BY DEF Init, TerminalsGrow, HomeIsCleared, Idle
  <1>2. HomeIsNamed /\ FenceStands /\ RotatedIsAhead /\ RejectedIsSilent
    BY DEF Init, HomeIsNamed, FenceStands, RotatedIsAhead, RejectedIsSilent, Idle
  <1> QED BY <1>1, <1>2 DEF PInv, Fenced
-----------------------------------------------------------------------------
\* The inductive invariant is an invariant of the specification.
THEOREM InvariantHolds == Spec => []IInv
  BY InitHolds, StepKeepsInvariant, PTL DEF Spec

\* Every reachable Pane, Binding, claim, operation, request and pass has its type: what was read
\* before an await and is used after it is still a snapshot of the kind that was read.
THEOREM TypeCorrect == Spec => []TypeOK
  <1>1. IInv => TypeOK
    BY DEF IInv
  <1> QED BY <1>1, InvariantHolds, PTL

\* A clear and a migration of the Orchestrator are never open together, however the awaits of
\* the request, the lane, the migration workflow and their recoveries interleave.
THEOREM NeverOverlap == Spec => []Serialized
  <1>1. IInv => Serialized
    BY DEF IInv
  <1> QED BY <1>1, InvariantHolds, PTL

\* No snapshot, however late, and no migration changes the session of the Binding; a rotation
\* does, once, to a later session and with the next epoch.
THEOREM SessionPerEpoch == Spec => OneSessionPerEpoch
  <1>1. ASSUME IInv, [Next]_vars
        PROVE  [bind'.sess # bind.sess => bind'.epoch = bind.epoch + 1 /\ bind'.sess > bind.sess]_bind
    <2>1. CASE LaneAnswer
      <3>1. CASE bind' = bind
        BY <3>1
      <3>2. CASE /\ lane.reply = "done" /\ ClearFence(bind)
                 /\ bind' = [bind EXCEPT !.epoch = @ + 1, !.sess = receipt]
        <4>1. bind'.epoch = bind.epoch + 1 /\ bind'.sess = receipt
          BY <1>1, <3>2 DEF IInv, TypeOK, Bindings
        <4>2. receipt = clear.sess + 1
          BY <1>1, <2>1, <3>2 DEF LaneAnswer, IInv, AnswerIsReceipt, ReceiptOfOperation
        <4>3. clear.sess = bind.sess /\ bind.sess \in Nat
          BY <1>1, <3>2 DEF ClearFence, IInv, TypeOK, Bindings
        <4> QED BY <4>1, <4>2, <4>3
      <3> QED BY <1>1, <2>1, <3>1, <3>2, RotationOutcome
    <2>2. CASE MoverAnswer
      <3>1. bind'.sess = bind.sess
        BY <1>1, <2>2, MoveOutcome DEF IInv, TypeOK, Bindings
      <3> QED BY <3>1
    <2>3. CASE PassApply
      <3>1. bind'.sess = bind.sess
        BY <1>1, <2>3, PassOutcome DEF IInv, TypeOK, Bindings
      <3> QED BY <3>1
    <2>4. CASE ~LaneAnswer /\ ~MoverAnswer /\ ~PassApply
      BY <1>1, <2>4, BindingWriters
    <2> QED BY <2>1, <2>2, <2>3, <2>4
  <1> QED BY <1>1, InvariantHolds, PTL DEF Spec, OneSessionPerEpoch

\* As long as no capability probe fails, a rejected clear rotated nothing and never will, even
\* when its Pane vanishes with the receipt under way: the fence that applyRotationReceipt checks
\* cannot fall between the claim and the receipt.
THEOREM RejectedUnrotated == Spec => [](scenario.noprobe = 0 => RejectedMeansUnrotated)
  <1>1. Init => RInv
    BY InitHolds, InitFence DEF RInv
  <1>2. RInv /\ [Next]_vars => RInv'
    <2> SUFFICES ASSUME RInv, [Next]_vars PROVE RInv'
      OBVIOUS
    <2>1. IInv'
      BY StepKeepsInvariant DEF RInv
    <2>2. ASSUME Proviso' PROVE PInv'
      <3>1. Proviso
        BY <2>2, ScenarioFixed DEF Proviso, Undisturbed
      <3>2. Fenced' /\ RotatedIsAhead'
        BY <2>1, <3>1, StepKeepsFence, StepKeepsAhead DEF RInv
      <3> QED BY <3>2 DEF PInv
    <2> QED BY <2>1, <2>2 DEF RInv
  <1>3. RInv => (scenario.noprobe = 0 => RejectedMeansUnrotated)
    BY DEF RInv, Proviso, PInv, Fenced, RejectedIsSilent, RejectedMeansUnrotated
  <1> QED BY <1>1, <1>2, <1>3, PTL DEF Spec
=============================================================================
