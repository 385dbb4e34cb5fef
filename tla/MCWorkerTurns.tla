---------------------------- MODULE MCWorkerTurns ----------------------------
(***************************************************************************)
(* The scenarios the turns of a Worker are checked under.                   *)
(***************************************************************************)
EXTENDS WorkerTurns, TLC

None == [b \in Budgets |-> 0]
With(d, l) == [driver |-> d, left |-> l @@ None]

\* Two turns, scans and a death at every step.
Dies == With("structured", "turns" :> 2 @@ "deaths" :> 1)
\* A steer overtakes a queued turn.
Steered == With("structured", "turns" :> 1 @@ "steers" :> 1)
\* The Pane is looked at and changes.
Busy == With("structured", "turns" :> 1 @@ "visits" :> 1 @@ "moods" :> 1)
\* The Pane changes around one turn, and the process dies.
Moody == With("structured", "turns" :> 1 @@ "moods" :> 1 @@ "deaths" :> 1)
\* An Agent without a transcript, with a look at the first turn that outlives it.
Terminals == With("terminal", "turns" :> 2 @@ "visits" :> 1)
\* A Worker is stopped around a turn.
Stops == With("structured", "turns" :> 1 @@ "stops" :> 1)
\* No driver is installed; a third turn meets a full queue.
NoDriver == With("none", "turns" :> 3 @@ "deaths" :> 1)
\* One turn and nothing else.
OneTurn == {With("structured", "turns" :> 1)}

MCScenarios == {Dies, Steered, Busy, Moody, Terminals, Stops, NoDriver}
=============================================================================
