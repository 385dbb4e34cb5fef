---------------------------- MODULE MCTurnCard ----------------------------
EXTENDS TurnCard

Quiet == [change |-> 0, close |-> 0, activity |-> 0, fail |-> 0, crash |-> 0]

\* Any two kinds of disturbance, and what follows a delivery that is given up.
Pairs ==
  {[Quiet EXCEPT ![a] = 1, ![b] = 1] : a \in DOMAIN Quiet, b \in DOMAIN Quiet}
GivenUp == {[Quiet EXCEPT ![a] = 1, !.fail = 2] : a \in {"change", "close"}}
Disturbed == Pairs \cup GivenUp

Late == {[Quiet EXCEPT !.change = 1]}
Refused == {[Quiet EXCEPT !.fail = 2]}
=============================================================================
