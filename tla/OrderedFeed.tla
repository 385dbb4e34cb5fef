---------------------------- MODULE OrderedFeed ----------------------------
(***************************************************************************)
(* What the ingestion of a Core session promises to everything that reads  *)
(* the durable inbox: Core's events come in Core's order, each at most     *)
(* once, and an event that never comes is declared lost before anything    *)
(* behind it is handed over.                                               *)
(***************************************************************************)
EXTENDS Integers, Sequences

CONSTANT MaxEvents      \* bound: events are numbered 1..MaxEvents by Core

VARIABLES
    written,    \* how many events Core has written
    delivered,  \* the events the lane holds, in lane order
    lost        \* the events a durable gap declares lost

vars == <<written, delivered, lost>>

Init == written \in 0..MaxEvents /\ delivered = <<>> /\ lost = {}

\* The events dealt with so far, one way or the other.
Handled == {delivered[i] : i \in DOMAIN delivered} \cup lost
Upto(S) == \A e \in S : \A f \in 1..e : f \in S

Write == written < MaxEvents /\ written' = written + 1 /\ UNCHANGED <<delivered, lost>>

\* The next n events in a row.
Deliver ==
    \E n \in 1..MaxEvents :
        LET top == IF Handled = {} THEN 0 ELSE CHOOSE m \in Handled : \A k \in Handled : k <= m
        IN /\ top + n <= written
           /\ delivered' = delivered \o [i \in 1..n |-> top + i]
           /\ UNCHANGED <<written, lost>>

Lose ==
    \E S \in SUBSET (1..written) :
        /\ S # {} /\ S \cap Handled = {}
        /\ Upto(Handled \cup S)
        /\ lost' = lost \cup S
        /\ UNCHANGED <<written, delivered>>

Next == Write \/ Deliver \/ Lose
Spec == Init /\ [][Next]_vars
=============================================================================
