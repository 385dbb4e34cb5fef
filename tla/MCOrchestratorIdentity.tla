----------------------- MODULE MCOrchestratorIdentity -----------------------
(***************************************************************************)
(* The scenarios the identity of the Orchestrator is checked under.  Each   *)
(* one gives every fault a number of times it may happen.                   *)
(***************************************************************************)
EXTENDS OrchestratorIdentity

Quiet == [ask |-> 0, crash |-> 0, lost |-> 0, relabel |-> 0, vanish |-> 0,
          unregister |-> 0, turn |-> 0, noprobe |-> 0, place |-> "home", calm |-> TRUE,
          targets |-> TRUE]

\* Two clears of a Pane that has to be migrated first, over crashes, lost answers and a turn.
Clears == [Quiet EXCEPT !.ask = 2, !.crash = 2, !.lost = 2, !.turn = 1, !.place = "away"]

\* The Pane loses its token while clears are asked for.
Relabelled == [Quiet EXCEPT !.ask = 2, !.crash = 1, !.lost = 1, !.relabel = 1]

\* The Pane vanishes and is restored while clears are asked for, but (calm) not between
\* the claim of a rotation and its receipt.
Vanished == [Quiet EXCEPT !.ask = 2, !.crash = 1, !.lost = 1, !.vanish = 2]

\* The Agent is unregistered, and its Pane lost, while nothing else is going on.
Unregistered == [Quiet EXCEPT !.crash = 1, !.unregister = 2, !.vanish = 1, !.turn = 1]

\* A capability probe fails, but no earlier call of the same operation is under way.
Unprobed == [Quiet EXCEPT !.ask = 2, !.noprobe = 2, !.turn = 1, !.place = "away"]

MCScenarios == {[s EXCEPT !.targets = t] :
                  s \in {Clears, Relabelled, Vanished, Unregistered, Unprobed}, t \in BOOLEAN}

\* The capability probe fails once, after the rotation may have been sent.
MCProbeFails == {[Quiet EXCEPT !.ask = 1, !.lost = 1, !.noprobe = 1]}

\* The Pane loses its token while it is still being migrated.
MCRelabelledMove == {[Quiet EXCEPT !.relabel = 1, !.crash = 1]}

\* The Agent is unregistered while its Pane has to be migrated.
MCUnregisteredMove == {[Quiet EXCEPT !.unregister = 1, !.place = "away"]}

\* The Pane vanishes and is restored while its session is rotated.
MCVanishedClear == {[Quiet EXCEPT !.ask = 1, !.vanish = 1, !.calm = FALSE]}

\* The Agent is unregistered while its session is rotated.
MCUnregisteredClear == {[Quiet EXCEPT !.ask = 1, !.unregister = 1]}
=============================================================================
