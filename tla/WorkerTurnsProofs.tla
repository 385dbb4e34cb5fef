-------------------------- MODULE WorkerTurnsProofs --------------------------
(***************************************************************************)
(* What WorkerTurns guarantees for any number of turns, any queue depth and *)
(* any scenario: a prompt is submitted once and in order, and a terminated  *)
(* session's turns are left alone.                                          *)
(***************************************************************************)
EXTENDS WorkerTurns, TLAPS

\* A turn that waits was never submitted, and only submitted turns have a turn of the Agent.
SentLeftQueue == \A t \in Turns : /\ st[t] \in Waiting => sent[t] = 0
                                  /\ native[t] # "none" => sent[t] > 0

\* The drain has a turn exactly while it dispatches one; that turn has left the queue, and is
\* not submitted yet while its watch is being opened.
DrainHasTurn ==
    /\ drain.pc \in {"off", "next"} => drain.t = 0
    /\ drain.pc \notin {"off", "next"} => drain.t \in Turns /\ st[drain.t] \notin Waiting
    /\ drain.pc = "open" => sent[drain.t] = 0

\* The supervisor looks at a turn that has left the queue.
LookHasTurn == sup.pc # "off" => sup.t \in Turns /\ st[sup.t] \notin Waiting

\* Turns are accepted one after the other.
AcceptedInOrder == \A a, b \in Turns : a < b /\ st[b] # "none" => st[a] # "none"

\* A turn that is submitted, or about to be, has no waiting turn before it.
Underway(b) == sent[b] > 0 \/ (drain.pc = "open" /\ drain.t = b)
NoneWaitsBefore ==
    \A a, b \in Turns : a < b /\ (pri[a] \/ ~pri[b]) /\ Underway(b) => st[a] \notin Waiting

IInv == /\ TypeOK /\ SentLeftQueue /\ DrainHasTurn /\ LookHasTurn /\ AcceptedInOrder
        /\ SubmittedOnce /\ NoneWaitsBefore
\* Every step of the dispatcher, the observer, the supervisor, the reconciler, the stop command,
\* the process and the Agent keeps the invariant.
LEMMA StepKeepsInvariant == IInv /\ [Next]_vars => IInv'
  <1> SUFFICES ASSUME IInv, [Next]_vars PROVE IInv'
    OBVIOUS
  <1> USE DEF IInv, TypeOK, SentLeftQueue, DrainHasTurn, LookHasTurn, AcceptedInOrder,
              SubmittedOnce, NoneWaitsBefore, Underway, Turns, States, Waiting, Observable,
              ActiveRuntime, Terminal, PaneStates, InstanceRow, DrainState, LookState, Budgets,
              table, memory, world
  <1>1. ASSUME NEW t \in Turns, submit(t) PROVE IInv'
    <2>1. st' \in [Turns -> States]
      BY <1>1 DEF submit, Accept, Spend, wakeInstance
    <2>2. wake' \in BOOLEAN
      BY <1>1 DEF submit, Accept, Spend, wakeInstance
    <2>3. TypeOK'
      BY SMTT(20), <1>1, <2>1, <2>2 DEF submit, Accept, Spend, wakeInstance
    <2>4. (SentLeftQueue /\ DrainHasTurn /\ LookHasTurn)'
      BY <1>1 DEF submit, Accept, Spend, wakeInstance
    <2>5. (AcceptedInOrder /\ SubmittedOnce)'
      BY <1>1 DEF submit, Accept, Spend, wakeInstance
    <2>6. NoneWaitsBefore'
      BY <1>1 DEF submit, Accept, Spend, wakeInstance
    <2> QED BY <2>3, <2>4, <2>5, <2>6
  <1>2. ASSUME NEW t \in Turns, acceptPriorityTurn(t) PROVE IInv'
    <2>1. st' \in [Turns -> States]
      BY <1>2 DEF acceptPriorityTurn, Accept, Spend, wakeInstance
    <2>2. wake' \in BOOLEAN
      BY <1>2 DEF acceptPriorityTurn, Accept, Spend, wakeInstance
    <2>3. TypeOK'
      BY SMTT(20), <1>2, <2>1, <2>2 DEF acceptPriorityTurn, Accept, Spend, wakeInstance
    <2>4. (SentLeftQueue /\ DrainHasTurn /\ LookHasTurn)'
      BY <1>2 DEF acceptPriorityTurn, Accept, Spend, wakeInstance
    <2>5. (AcceptedInOrder /\ SubmittedOnce)'
      BY <1>2 DEF acceptPriorityTurn, Accept, Spend, wakeInstance
    <2>6. NoneWaitsBefore'
      BY <1>2 DEF acceptPriorityTurn, Accept, Spend, wakeInstance
    <2> QED BY <2>3, <2>4, <2>5, <2>6
  <1>3. ASSUME DrainStarts PROVE IInv'
    <2>1. drain' \in DrainState
      BY <1>3 DEF DrainStarts
    <2>2. wake' \in BOOLEAN
      BY <1>3 DEF DrainStarts
    <2>3. TypeOK'
      BY <1>3, <2>1, <2>2 DEF DrainStarts
    <2>4. (SentLeftQueue /\ DrainHasTurn /\ LookHasTurn)'
      BY <1>3 DEF DrainStarts
    <2>5. (AcceptedInOrder /\ SubmittedOnce)'
      BY <1>3 DEF DrainStarts
    <2>6. NoneWaitsBefore'
      BY <1>3 DEF DrainStarts
    <2> QED BY <2>3, <2>4, <2>5, <2>6
  <1>4. ASSUME DrainReturns PROVE IInv'
    BY <1>4 DEF DrainReturns, NoDrain
  <1>5. ASSUME NEW t \in Turns, ClaimTurn(t) PROVE IInv'
    <2>1. st' \in [Turns -> States]
      BY <1>5 DEF ClaimTurn, Claimable, hasActiveRuntime, Before
    <2>2. drain' \in DrainState
      BY <1>5 DEF ClaimTurn, Claimable, hasActiveRuntime, Before
    <2>3. TypeOK'
      BY <1>5, <2>1, <2>2 DEF ClaimTurn, Claimable, hasActiveRuntime, Before
    <2>4. (SentLeftQueue /\ DrainHasTurn /\ LookHasTurn)'
      BY <1>5 DEF ClaimTurn, Claimable, hasActiveRuntime, Before
    <2>5. (AcceptedInOrder /\ SubmittedOnce)'
      BY <1>5 DEF ClaimTurn, Claimable, hasActiveRuntime, Before
    <2>6. NoneWaitsBefore'
      BY <1>5 DEF ClaimTurn, Claimable, hasActiveRuntime, Before
    <2> QED BY <2>3, <2>4, <2>5, <2>6
  <1>6. ASSUME SubmitPrompt PROVE IInv'
    BY <1>6 DEF SubmitPrompt
  <1>7. ASSUME NEW r \in {"confirmed", "uncertain", "not"}, SubmitRefused(r) PROVE IInv'
    <2>1. drain' \in DrainState
      BY <1>7 DEF SubmitRefused
    <2>2. watching' \subseteq Turns
      BY <1>7 DEF SubmitRefused
    <2>3. TypeOK'
      BY <1>7, <2>1, <2>2 DEF SubmitRefused
    <2>4. (SentLeftQueue /\ DrainHasTurn /\ LookHasTurn)'
      BY <1>7 DEF SubmitRefused
    <2>5. (AcceptedInOrder /\ SubmittedOnce)'
      BY <1>7 DEF SubmitRefused
    <2>6. NoneWaitsBefore'
      BY <1>7 DEF SubmitRefused
    <2> QED BY <2>3, <2>4, <2>5, <2>6
  <1>8. ASSUME onDispatched PROVE IInv'
    <2>1. st' \in [Turns -> States]
      BY <1>8 DEF onDispatched, update
    <2>2. TypeOK'
      BY SMTT(20), <1>8, <2>1 DEF onDispatched, update
    <2>3. (SentLeftQueue /\ DrainHasTurn /\ LookHasTurn)'
      BY <1>8 DEF onDispatched, update
    <2>4. (AcceptedInOrder /\ SubmittedOnce)'
      BY <1>8 DEF onDispatched, update
    <2>5. NoneWaitsBefore'
      BY <1>8 DEF onDispatched, update
    <2> QED BY <2>2, <2>3, <2>4, <2>5
  <1>9. ASSUME NEW r \in {"confirmed", "uncertain", "not"}, SubmitReturns(r) PROVE IInv'
    <2>1. drain' \in DrainState
      BY <1>9 DEF SubmitReturns
    <2>2. TypeOK'
      BY <1>9, <2>1 DEF SubmitReturns
    <2>3. (SentLeftQueue /\ DrainHasTurn /\ LookHasTurn)'
      BY <1>9 DEF SubmitReturns
    <2>4. (AcceptedInOrder /\ SubmittedOnce)'
      BY <1>9 DEF SubmitReturns
    <2>5. NoneWaitsBefore'
      BY <1>9 DEF SubmitReturns
    <2> QED BY <2>2, <2>3, <2>4, <2>5
  <1>10. ASSUME Flushed PROVE IInv'
    BY SMTT(20), <1>10 DEF Flushed, NoDrain
  <1>11. ASSUME Stopped PROVE IInv'
    <2>1. CASE drain.pc = "stop" /\ (drain.receipt # "confirmed" \/ driver = "terminal")
      <3>1. st' = update(drain.t, Verdict) /\ Verdict \in States \ Waiting
        BY <1>11, <2>1 DEF Stopped, Verdict
      <3>2. inst' \in InstanceRow
        <4>1. inst' \in {inst, [inst EXCEPT !.want = "running", !.obs = "idle"]}
          BY <1>11 DEF Stopped
        <4> QED BY ZenonT(40), <4>1
      <3>3. drain' \in DrainState /\ drain'.t = 0 /\ drain'.pc \in {"off", "next"}
        BY <1>11 DEF Stopped, NoDrain
      <3>4. TypeOK'
        BY <1>11, <3>1, <3>2, <3>3 DEF Stopped, update
      <3> QED BY SMTT(20), <1>11, <2>1, <3>1, <3>3, <3>4 DEF Stopped, update
    <2>2. CASE ~(drain.pc = "stop" /\ (drain.receipt # "confirmed" \/ driver = "terminal"))
      <3>1. st' = st /\ inst' = inst
        BY <1>11, <2>2 DEF Stopped
      <3>2. drain' \in DrainState /\ drain'.t = 0 /\ drain'.pc \in {"off", "next"}
        BY <1>11 DEF Stopped, NoDrain
      <3>3. TypeOK'
        BY <1>11, <3>1, <3>2 DEF Stopped
      <3> QED BY <1>11, <3>1, <3>2, <3>3 DEF Stopped
    <2> QED BY <2>1, <2>2
  <1>12. ASSUME NEW t \in Turns, WatchBinds(t) PROVE IInv'
    BY <1>12 DEF WatchBinds, CanBind
  <1>13. ASSUME NEW t \in Turns, WatchSettles(t) PROVE IInv'
    <2>1. st' \in [Turns -> States]
      BY <1>13 DEF WatchSettles, CanSettle, End, wakeInstance
    <2>2. wake' \in BOOLEAN
      BY <1>13 DEF WatchSettles, CanSettle, End, wakeInstance
    <2>3. TypeOK'
      BY <1>13, <2>1, <2>2 DEF WatchSettles, CanSettle, End, wakeInstance
    <2>4. (SentLeftQueue /\ DrainHasTurn /\ LookHasTurn)'
      BY <1>13 DEF WatchSettles, CanSettle, End, wakeInstance
    <2>5. (AcceptedInOrder /\ SubmittedOnce)'
      BY SMTT(20), <1>13 DEF WatchSettles, CanSettle, End, wakeInstance
    <2>6. NoneWaitsBefore'
      BY <1>13 DEF WatchSettles, CanSettle, End, wakeInstance
    <2> QED BY <2>3, <2>4, <2>5, <2>6
  <1>14. ASSUME NEW t \in Turns, WatchEnds(t) PROVE IInv'
    BY SMTT(20), <1>14 DEF WatchEnds
  <1>15. ASSUME NEW t \in Turns, TakeSnapshot(t) PROVE IInv'
    <2>1. sup' \in LookState
      BY <1>15 DEF TakeSnapshot, NoLook
    <2>2. TypeOK'
      BY SMTT(20), <1>15, <2>1 DEF TakeSnapshot, NoLook
    <2>3. (SentLeftQueue /\ DrainHasTurn /\ LookHasTurn)'
      BY <1>15 DEF TakeSnapshot, NoLook
    <2>4. (AcceptedInOrder /\ SubmittedOnce)'
      BY <1>15 DEF TakeSnapshot, NoLook
    <2>5. NoneWaitsBefore'
      BY <1>15 DEF TakeSnapshot, NoLook
    <2> QED BY <2>2, <2>3, <2>4, <2>5
  <1>16. ASSUME NEW t \in Turns, InspectPane(t) PROVE IInv'
    <2>1. sup' \in LookState
      BY <1>16 DEF InspectPane, NoLook, Spend
    <2>2. left' \in [Budgets -> Nat]
      BY <1>16 DEF InspectPane, NoLook, Spend
    <2>3. TypeOK'
      BY SMTT(20), <1>16, <2>1, <2>2 DEF InspectPane, NoLook, Spend
    <2>4. (SentLeftQueue /\ DrainHasTurn /\ LookHasTurn)'
      BY <1>16 DEF InspectPane, NoLook, Spend
    <2>5. (AcceptedInOrder /\ SubmittedOnce)'
      BY <1>16 DEF InspectPane, NoLook, Spend
    <2>6. NoneWaitsBefore'
      BY <1>16 DEF InspectPane, NoLook, Spend
    <2> QED BY <2>3, <2>4, <2>5, <2>6
  <1>17. ASSUME LookVoid PROVE IInv'
    BY <1>17 DEF LookVoid, NoLook, Looks
  <1>18. ASSUME LookGone PROVE IInv'
    <2>1. st' \in [Turns -> States]
      BY <1>18 DEF LookGone, NoLook, Looks, terminateWorkerSession, Retired
    <2>2. inst' \in InstanceRow
      BY <1>18 DEF LookGone, NoLook, Looks, terminateWorkerSession, Retired
    <2>3. TypeOK'
      BY <1>18, <2>1, <2>2 DEF LookGone, NoLook, Looks, terminateWorkerSession, Retired
    <2>4. (SentLeftQueue /\ DrainHasTurn /\ LookHasTurn)'
      BY <1>18 DEF LookGone, NoLook, Looks, terminateWorkerSession, Retired
    <2>5. (AcceptedInOrder /\ SubmittedOnce)'
      BY <1>18 DEF LookGone, NoLook, Looks, terminateWorkerSession, Retired
    <2>6. NoneWaitsBefore'
      BY <1>18 DEF LookGone, NoLook, Looks, terminateWorkerSession, Retired
    <2> QED BY <2>3, <2>4, <2>5, <2>6
  <1>19. ASSUME RecoverSettles PROVE IInv'
    <2>1. st' \in [Turns -> States]
      BY <1>19 DEF RecoverSettles, NoLook, Looks, CanSettle, End, Observed, wakeInstance
    <2>2. inst' \in InstanceRow
      BY <1>19 DEF RecoverSettles, NoLook, Looks, CanSettle, End, Observed, wakeInstance
    <2>3. wake' \in BOOLEAN
      BY <1>19 DEF RecoverSettles, NoLook, Looks, CanSettle, End, Observed, wakeInstance
    <2>4. TypeOK'
      BY <1>19, <2>1, <2>2, <2>3 DEF RecoverSettles, NoLook, Looks, CanSettle, End, Observed,
         wakeInstance
    <2>5. (SentLeftQueue /\ DrainHasTurn /\ LookHasTurn)'
      BY <1>19 DEF RecoverSettles, NoLook, Looks, CanSettle, End, Observed, wakeInstance
    <2>6. (AcceptedInOrder /\ SubmittedOnce)'
      BY <1>19 DEF RecoverSettles, NoLook, Looks, CanSettle, End, Observed, wakeInstance
    <2>7. NoneWaitsBefore'
      BY <1>19 DEF RecoverSettles, NoLook, Looks, CanSettle, End, Observed, wakeInstance
    <2> QED BY <2>4, <2>5, <2>6, <2>7
  <1>20. ASSUME LookBusy PROVE IInv'
    <2>1. st' \in [Turns -> States]
      BY <1>20 DEF LookBusy, NotRecovered, Looks, NoLook, update
    <2>2. TypeOK'
      BY <1>20, <2>1 DEF LookBusy, NotRecovered, Looks, NoLook, update
    <2>3. (SentLeftQueue /\ DrainHasTurn /\ LookHasTurn)'
      BY <1>20 DEF LookBusy, NotRecovered, Looks, NoLook, update
    <2>4. (AcceptedInOrder /\ SubmittedOnce)'
      BY <1>20 DEF LookBusy, NotRecovered, Looks, NoLook, update
    <2>5. NoneWaitsBefore'
      BY <1>20 DEF LookBusy, NotRecovered, Looks, NoLook, update
    <2> QED BY <2>2, <2>3, <2>4, <2>5
  <1>21. ASSUME LookNothing PROVE IInv'
    BY <1>21 DEF LookNothing, NotRecovered, Looks, NoLook
  <1>22. ASSUME LookIdleDone PROVE IInv'
    <2>1. st' \in [Turns -> States]
      BY <1>22 DEF LookIdleDone, Looks, NoLook, update, Observed, wakeInstance
    <2>2. inst' \in InstanceRow
      BY <1>22 DEF LookIdleDone, Looks, NoLook, update, Observed, wakeInstance
    <2>3. wake' \in BOOLEAN
      BY <1>22 DEF LookIdleDone, Looks, NoLook, update, Observed, wakeInstance
    <2>4. TypeOK'
      BY <1>22, <2>1, <2>2, <2>3 DEF LookIdleDone, Looks, NoLook, update, Observed, wakeInstance
    <2>5. (SentLeftQueue /\ DrainHasTurn /\ LookHasTurn)'
      BY <1>22 DEF LookIdleDone, Looks, NoLook, update, Observed, wakeInstance
    <2>6. (AcceptedInOrder /\ SubmittedOnce)'
      BY <1>22 DEF LookIdleDone, Looks, NoLook, update, Observed, wakeInstance
    <2>7. NoneWaitsBefore'
      BY <1>22 DEF LookIdleDone, Looks, NoLook, update, Observed, wakeInstance
    <2> QED BY <2>4, <2>5, <2>6, <2>7
  <1>23. ASSUME LookIdleUnknown PROVE IInv'
    <2>1. st' \in [Turns -> States]
      BY <1>23 DEF LookIdleUnknown, Looks, NoLook, update
    <2>2. TypeOK'
      BY <1>23, <2>1 DEF LookIdleUnknown, Looks, NoLook, update
    <2>3. (SentLeftQueue /\ DrainHasTurn /\ LookHasTurn)'
      BY <1>23 DEF LookIdleUnknown, Looks, NoLook, update
    <2>4. (AcceptedInOrder /\ SubmittedOnce)'
      BY <1>23 DEF LookIdleUnknown, Looks, NoLook, update
    <2>5. NoneWaitsBefore'
      BY <1>23 DEF LookIdleUnknown, Looks, NoLook, update
    <2> QED BY <2>2, <2>3, <2>4, <2>5
  <1>24. ASSUME Reconcile PROVE IInv'
    <2>1. CASE pane = "gone"
      <3>1. inst' \in InstanceRow
        <4>1. inst' \in {inst, [live |-> FALSE, want |-> "stopped", attached |-> FALSE,
                              obs |-> "stopped"]}
          BY <1>24, <2>1 DEF Reconcile, terminateWorkerSession
        <4>2. [live |-> FALSE, want |-> "stopped", attached |-> FALSE, obs |-> "stopped"]
                \in InstanceRow
          OBVIOUS
        <4> QED BY <4>1, <4>2
      <3>2. st' \in [Turns -> States]
        BY <1>24, <2>1 DEF Reconcile, terminateWorkerSession, Retired
      <3>3. TypeOK'
        BY <1>24, <2>1, <3>1, <3>2 DEF Reconcile
      <3>4. terminateWorkerSession /\ UNCHANGED <<drain, sup, sent, native, pri>>
        BY <1>24, <2>1 DEF Reconcile
      <3>5. (SentLeftQueue /\ DrainHasTurn /\ LookHasTurn)'
        BY <3>4 DEF terminateWorkerSession, Retired
      <3>6. (AcceptedInOrder /\ SubmittedOnce /\ NoneWaitsBefore)'
        BY <3>4 DEF terminateWorkerSession, Retired
      <3> QED BY <3>3, <3>5, <3>6
    <2>2. CASE pane # "gone"
      <3>1. normalizeState \in {"idle", "working", "blocked", "detached"}
        BY DEF normalizeState
      <3>2. st' = st /\ inst' \in InstanceRow
        BY <1>24, <2>2, <3>1 DEF Reconcile
      <3>3. wake' \in BOOLEAN
        BY <1>24, <2>2 DEF Reconcile, wakeInstance
      <3>4. TypeOK'
        BY <1>24, <3>2, <3>3 DEF Reconcile
      <3> QED BY <1>24, <3>2, <3>4 DEF Reconcile
    <2> QED BY <2>1, <2>2
  <1>25. ASSUME StopReserves PROVE IInv'
    BY SMTT(20), <1>25 DEF StopReserves, Spend
  <1>26. ASSUME StopFinishes PROVE IInv'
    <2>1. inst' \in InstanceRow
      BY <1>26 DEF StopFinishes
    <2>2. stopping' \in BOOLEAN
      BY <1>26 DEF StopFinishes
    <2>3. TypeOK'
      BY <1>26, <2>1, <2>2 DEF StopFinishes
    <2>4. (SentLeftQueue /\ DrainHasTurn /\ LookHasTurn)'
      BY <1>26 DEF StopFinishes
    <2>5. (AcceptedInOrder /\ SubmittedOnce)'
      BY <1>26 DEF StopFinishes
    <2>6. NoneWaitsBefore'
      BY <1>26 DEF StopFinishes
    <2> QED BY <2>3, <2>4, <2>5, <2>6
  <1>27. ASSUME StopRollsBack PROVE IInv'
    <2>1. inst' \in InstanceRow
      BY <1>27 DEF StopRollsBack
    <2>2. stopping' \in BOOLEAN
      BY <1>27 DEF StopRollsBack
    <2>3. TypeOK'
      BY <1>27, <2>1, <2>2 DEF StopRollsBack
    <2>4. (SentLeftQueue /\ DrainHasTurn /\ LookHasTurn)'
      BY <1>27 DEF StopRollsBack
    <2>5. (AcceptedInOrder /\ SubmittedOnce)'
      BY <1>27 DEF StopRollsBack
    <2>6. NoneWaitsBefore'
      BY <1>27 DEF StopRollsBack
    <2> QED BY <2>3, <2>4, <2>5, <2>6
  <1>28. ASSUME ShutdownBegins PROVE IInv'
    BY <1>28 DEF ShutdownBegins
  <1>29. ASSUME ShutdownDeadline PROVE IInv'
    <2>1. st' \in [Turns -> States]
      BY <1>29 DEF ShutdownDeadline, update
    <2>2. detached' \subseteq Turns
      BY <1>29 DEF ShutdownDeadline, update
    <2>3. TypeOK'
      BY <1>29, <2>1, <2>2 DEF ShutdownDeadline, update
    <2>4. (SentLeftQueue /\ DrainHasTurn /\ LookHasTurn)'
      BY <1>29 DEF ShutdownDeadline, update
    <2>5. (AcceptedInOrder /\ SubmittedOnce)'
      BY <1>29 DEF ShutdownDeadline, update
    <2>6. NoneWaitsBefore'
      BY <1>29 DEF ShutdownDeadline, update
    <2> QED BY <2>3, <2>4, <2>5, <2>6
  <1>30. ASSUME Crash PROVE IInv'
    <2>1. drain' \in DrainState
      BY <1>30 DEF Crash, Die, Spend, NoDrain, NoLook
    <2>2. sup' \in LookState
      BY <1>30 DEF Crash, Die, Spend, NoDrain, NoLook
    <2>3. left' \in [Budgets -> Nat]
      BY <1>30 DEF Crash, Die, Spend, NoDrain, NoLook
    <2>4. TypeOK'
      BY ZenonT(40), <1>30, <2>1, <2>2, <2>3 DEF Crash, Die, Spend, NoDrain, NoLook
    <2>5. (SentLeftQueue /\ DrainHasTurn /\ LookHasTurn)'
      BY <1>30 DEF Crash, Die, Spend, NoDrain, NoLook
    <2>6. (AcceptedInOrder /\ SubmittedOnce)'
      BY <1>30 DEF Crash, Die, Spend, NoDrain, NoLook
    <2>7. NoneWaitsBefore'
      BY <1>30 DEF Crash, Die, Spend, NoDrain, NoLook
    <2> QED BY <2>4, <2>5, <2>6, <2>7
  <1>31. ASSUME NEW t \in Turns, CrashAfterClaim(t) PROVE IInv'
    <2>1. drain' \in DrainState
      BY <1>31 DEF CrashAfterClaim, Die, Spend, NoDrain, NoLook, Claimable, hasActiveRuntime
    <2>2. sup' \in LookState
      BY <1>31 DEF CrashAfterClaim, Die, Spend, NoDrain, NoLook, Claimable, hasActiveRuntime
    <2>3. left' \in [Budgets -> Nat]
      BY <1>31 DEF CrashAfterClaim, Die, Spend, NoDrain, NoLook, Claimable, hasActiveRuntime
    <2>4. TypeOK'
      BY <1>31, <2>1, <2>2, <2>3 DEF CrashAfterClaim, Die, Spend, NoDrain, NoLook, Claimable,
         hasActiveRuntime
    <2>5. (SentLeftQueue /\ DrainHasTurn /\ LookHasTurn)'
      BY <1>31 DEF CrashAfterClaim, Die, Spend, NoDrain, NoLook, Claimable, hasActiveRuntime
    <2>6. (AcceptedInOrder /\ SubmittedOnce)'
      BY <1>31 DEF CrashAfterClaim, Die, Spend, NoDrain, NoLook, Claimable, hasActiveRuntime
    <2>7. NoneWaitsBefore'
      BY <1>31 DEF CrashAfterClaim, Die, Spend, NoDrain, NoLook, Claimable, hasActiveRuntime
    <2> QED BY <2>4, <2>5, <2>6, <2>7
  <1>32. ASSUME Restart PROVE IInv'
    <2>1. st' \in [Turns -> States]
      BY <1>32 DEF Restart, recover
    <2>2. TypeOK'
      BY <1>32, <2>1 DEF Restart, recover
    <2>3. (SentLeftQueue /\ DrainHasTurn /\ LookHasTurn)'
      BY <1>32 DEF Restart, recover
    <2>4. (AcceptedInOrder /\ SubmittedOnce)'
      BY <1>32 DEF Restart, recover
    <2>5. NoneWaitsBefore'
      BY <1>32 DEF Restart, recover
    <2> QED BY <2>2, <2>3, <2>4, <2>5
  <1>33. ASSUME NEW p \in PaneStates, PaneChanges(p) PROVE IInv'
    BY <1>33 DEF PaneChanges, Spend
  <1>34. ASSUME NEW t \in Turns, NativeStarts(t) PROVE IInv'
    BY <1>34 DEF NativeStarts
  <1>35. ASSUME NEW t \in Turns, NEW e \in {"done", "aborted"}, NativeEnds(t, e) PROVE IInv'
    BY SMTT(20), <1>35 DEF NativeEnds
  <1>36. CASE UNCHANGED vars
    BY <1>36 DEF vars
  <1> HIDE DEF IInv
  <1> QED
    BY <1>1, <1>2, <1>3, <1>4, <1>5, <1>6, <1>7, <1>8, <1>9, <1>10, <1>11, <1>12, <1>13, <1>14,
       <1>15, <1>16, <1>17, <1>18, <1>19, <1>20, <1>21, <1>22, <1>23, <1>24, <1>25, <1>26,
       <1>27, <1>28, <1>29, <1>30, <1>31, <1>32, <1>33, <1>34, <1>35, <1>36 DEF Next, Drain,
       Look

\* The first state: the table is empty and the process has just started.
LEMMA InitHasInvariant == Init => IInv
  <1> SUFFICES ASSUME Init PROVE IInv
    OBVIOUS
  <1> USE DEF Init, Turns
  <1>1. driver \in {"structured", "terminal", "none"} /\ left \in [Budgets -> Nat]
    BY WorkerAssumption
  <1>2. inst \in InstanceRow
    BY DEF InstanceRow
  <1>3. drain \in DrainState /\ sup \in LookState
    BY DEF DrainState, LookState, NoDrain, NoLook, States, PaneStates
  <1>4. TypeOK
    BY <1>1, <1>2, <1>3 DEF TypeOK, States, PaneStates
  <1>5. SentLeftQueue /\ DrainHasTurn /\ LookHasTurn
    BY DEF SentLeftQueue, DrainHasTurn, LookHasTurn, NoDrain, NoLook
  <1>6. AcceptedInOrder /\ SubmittedOnce /\ NoneWaitsBefore
    BY DEF AcceptedInOrder, SubmittedOnce, NoneWaitsBefore, Underway, NoDrain
  <1> QED BY <1>4, <1>5, <1>6 DEF IInv

\* The invariant holds in every reachable state.
THEOREM Invariant == Spec => []IInv
  BY InitHasInvariant, StepKeepsInvariant, PTL DEF Spec

\* The types of the rows and of what the process remembers are kept by every operation.
THEOREM TypeCorrect == Spec => []TypeOK
  <1>1. IInv => TypeOK
    BY DEF IInv
  <1> QED BY Invariant, <1>1, PTL

\* For any number of turns, over crashes, requeues and several writers, the dispatcher hands a
\* prompt to the Agent at most once.
THEOREM NeverReplayed == Spec => []SubmittedOnce
  <1>1. IInv => SubmittedOnce
    BY DEF IInv
  <1> QED BY Invariant, <1>1, PTL

\* Prompts reach the Agent in the order of the queue: by priority, then by acceptance.
THEOREM QueueOrder == Spec => []SubmittedInOrder
  <1>1. IInv => SubmittedInOrder
    BY DEF IInv, NoneWaitsBefore, Underway, SubmittedInOrder
  <1> QED BY Invariant, <1>1, PTL

\* The generation fence: nothing writes to the turns of a session that was terminated.
THEOREM TerminatedSessionsAreLeftAlone == Spec => RetiredFrozen
  <1>1. IInv /\ [Next]_vars => [~inst.live => UNCHANGED <<st, bound>>]_vars
    <2> SUFFICES ASSUME IInv, Next, ~inst.live PROVE UNCHANGED <<st, bound>>
      OBVIOUS
    <2> st = [t \in Turns |-> st[t]]
      BY DEF IInv, TypeOK
    <2> QED
      BY DEF Next, Drain, Look, table, memory, world, submit, acceptPriorityTurn, Accept,
         DrainStarts, DrainReturns, ClaimTurn, Claimable, SubmitPrompt, SubmitRefused,
         onDispatched, SubmitReturns, Flushed, Stopped, update, WatchBinds, CanBind, WatchSettles,
         CanSettle, WatchEnds, TakeSnapshot, InspectPane, LookVoid, LookGone, RecoverSettles,
         LookBusy, LookNothing, LookIdleDone, LookIdleUnknown, Reconcile, terminateWorkerSession,
         StopReserves, StopFinishes, StopRollsBack, ShutdownBegins, ShutdownDeadline, Crash,
         CrashAfterClaim, Die, Restart, recover, PaneChanges, NativeStarts, NativeEnds
  <1> QED BY Invariant, <1>1, PTL DEF Spec, RetiredFrozen
=============================================================================
