----------------------------- MODULE MCDelivery -----------------------------
(* Instances of Delivery: what the environment may do in each of them.     *)
EXTENDS Delivery

Calm(kinds, users, failures) ==
  [kinds |-> kinds, users |-> users, failures |-> failures, crash |-> 0, lapse |-> 0,
   renew |-> 0, clear |-> 0, cutover |-> 0, operate |-> 0]

(* Lanes that hold one another up and a crash; an operator and a session      *)
(* rotation; a stream under the faults of claims; snapshots that replace each other; *)
(* a topic reset under a claim.                                               *)
SafetyScenarios ==
  { [Calm({"card", "text"}, 2, {"permanent", "transient", "uncertain"}) EXCEPT !.crash = 1],
    [Calm({"card", "text"}, 2, {"permanent", "uncertain"}) EXCEPT !.clear = 1, !.operate = 1],
    [Calm({"stream"}, 1, AllFailures) EXCEPT !.crash = 1, !.lapse = 1, !.operate = 1],
    [Calm({"stream"}, 1, AllFailures) EXCEPT !.crash = 1, !.renew = 1, !.clear = 1],
    [Calm({"card"}, 3, {"rejected", "uncertain"}) EXCEPT !.operate = 1],
    [Calm({"card", "big"}, 2, {"permanent", "uncertain"}) EXCEPT !.crash = 1, !.cutover = 1] }

LiveScenarios == { [Calm({"card", "text"}, 2, {"permanent", "uncertain"}) EXCEPT !.crash = 1] }
OversizedScenarios == { Calm({"big"}, 2, {"transient"}) }
ReviewScenarios == { [Calm({"card"}, 2, {"permanent"}) EXCEPT !.operate = 1] }
=============================================================================
