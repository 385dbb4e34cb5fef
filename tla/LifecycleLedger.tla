--------------------------- MODULE LifecycleLedger ---------------------------
(***************************************************************************)
(* The ledger of cleanups (runtime/lifecycle-ledger.ts), the order in which*)
(* a shutdown closes what is registered, and what has become of the stops  *)
(* it asked for.  RuntimeLifecycle fills the ledger and works it off.      *)
(***************************************************************************)
EXTENDS Integers, Sequences, FiniteSets

VARIABLES
    entries,  \* RuntimeLifecycleLedger.entries
    awaiting, \* the component whose work the start sequence awaits
    settled,  \* components whose stop promise has settled
    failed,   \* components whose stop rejected
    owns      \* what the process still holds of the fence, lease and store

Stages == <<"ingress", "observers", "workers", "projections", "health">>

StageOf(e) == CHOOSE k \in 1 .. Len(Stages) : Stages[k] = e.stage

\* The order of the plan, as registrations: stage by stage, the latest
\* registration of a stage first.
ClosesBefore(i, j) ==
    \/ StageOf(entries[i]) < StageOf(entries[j])
    \/ StageOf(entries[i]) = StageOf(entries[j]) /\ i > j

\* How many registrations close before this one.
ClosingRank(i) == Cardinality({j \in 1 .. Len(entries) : ClosesBefore(j, i)})

\* shutdownPlan: the registrations in that order.
ClosingAt(k) == CHOOSE i \in 1 .. Len(entries) : ClosingRank(i) = k - 1

ShutdownPlan == [k \in 1 .. Len(entries) |-> entries[ClosingAt(k)]]
-----------------------------------------------------------------------------
\* The SQLite ownership is given up only when every registered writer has been
\* asked to stop, has settled without failure and has none of its work awaited
\* by a start sequence still in flight.
OwnershipOutlivesRegisteredWriters ==
    owns # {"fence", "lease", "store"} =>
        \A i \in 1 .. Len(entries) :
            entries[i].kind = "writer" =>
                /\ entries[i].name \in settled \ failed
                /\ awaiting # entries[i].name
=============================================================================
