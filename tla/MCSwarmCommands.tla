--------------------------- MODULE MCSwarmCommands ---------------------------
(* Small instances of SwarmCommands: 1 and 2 are commands of one            *)
(* conversation and lane, 3 another message of that conversation, 4 a       *)
(* message of a worker thread that never has room for it.                   *)
EXTENDS SwarmCommands

MCScopes == [m \in Messages |-> IF m = 4 THEN "thread" ELSE "topic"]
MCLanes == [m \in Messages |-> IF m > 2 THEN "none" ELSE "session"]
MCKinds == [m \in Messages |-> CASE m = 1 -> "primary" [] m = 2 -> "global" [] OTHER -> "worker"]

Quiet == [arrive |-> {}, prune |-> 0, fault |-> 0, restart |-> 0, rebind |-> 0]
Faults == {"prune", "fault", "restart"}

\* One command under any two disturbances (a global one has no session to
\* move on) or followed by another message, one beside a message that is
\* never taken.  Both is for a longer run of the invariants alone.
Alone == {[Quiet EXCEPT !.arrive = {1}, !.rebind = 1, ![a] = 1] : a \in Faults}
           \cup {[Quiet EXCEPT !.arrive = {2}, !.prune = 1, !.fault = 1, !.restart = 1, ![a] = 0] :
                    a \in Faults}
Together == {[Quiet EXCEPT !.arrive = {2, 3}], [Quiet EXCEPT !.arrive = {1, 3}, !.fault = 1]}
Both == {[Quiet EXCEPT !.arrive = {1, 2}, ![a] = 1] : a \in Faults}
Beside == {[Quiet EXCEPT !.arrive = {2, 4}]}
Disturbed == Alone \cup Together \cup Beside

Undisturbed == {[Quiet EXCEPT !.arrive = {1}]}
=============================================================================
