---------------------------- MODULE MCEventInbox ----------------------------
(* Instances of EventInbox: what the environment may do in each of them.     *)
EXTENDS EventInbox

Calm == [trim |-> 0, rings |-> 0, invalid |-> 0, fault |-> 0, frame |-> 0, close |-> 0,
         proj |-> 0, crash |-> 0, snap |-> {}, before |-> 0, mux |-> FALSE, cursor |-> FALSE]

(* Reads alone: Core forgets and rejects, reads fail; Core and the process are    *)
(* restarted; the feed: the socket closes, Core forgets or restarts; settlement:   *)
(* two settlers and a newer release; a snapshot recovered ahead of the live lane.  *)
ReadScenario    == [Calm EXCEPT !.trim = 1, !.fault = 1, !.invalid = 2, !.before = 1]
RestartScenario == [Calm EXCEPT !.trim = 1, !.rings = 1, !.crash = 1, !.before = 2]
RacedScenario   == [Calm EXCEPT !.trim = 2, !.rings = 2, !.before = 2]
CloseScenario   == [Calm EXCEPT !.mux = TRUE, !.close = 1, !.trim = 1]
RingScenario    == [Calm EXCEPT !.mux = TRUE, !.rings = 1, !.before = 1]
SettleScenario  == [Calm EXCEPT !.cursor = TRUE, !.proj = 3, !.crash = 1, !.before = 2]
SnapScenario    == [Calm EXCEPT !.mux = TRUE, !.snap = {2}, !.proj = 1]
AllScenarios == {ReadScenario, RestartScenario, RacedScenario, CloseScenario, RingScenario,
                 SettleScenario, SnapScenario}
FrameScenarios == {[Calm EXCEPT !.mux = TRUE, !.frame = 1]}
=============================================================================
