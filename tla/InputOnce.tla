----------------------------- MODULE InputOnce -----------------------------
(***************************************************************************)
(* What Agent Input promises for every Submission Intent, whatever crashes,*)
(* times out or races: the body is handed to Herdr Core at most once, and  *)
(* the durable verdict never contradicts what Core did with it.            *)
(***************************************************************************)
EXTENDS Naturals

CONSTANT Intent   \* the Submission Intents

VARIABLES
    calls,    \* how often the body was handed to Core
    outcome,  \* what Core did with it: "none", "taken" or "declined"
    verdict   \* what the ledger says for good: "open", "accepted", "refused"

Init ==
    /\ calls = [i \in Intent |-> 0]
    /\ outcome = [i \in Intent |-> "none"]
    /\ verdict = [i \in Intent |-> "open"]

\* The one call.  A refused intent is never called.
Call(i) ==
    /\ calls[i] = 0 /\ verdict[i] # "refused"
    /\ calls'[i] = 1
    /\ outcome'[i] = outcome[i] /\ verdict'[i] = verdict[i]

\* Core takes or declines what was handed to it, once.
Answer(i) ==
    /\ calls[i] = 1 /\ outcome[i] = "none"
    /\ outcome'[i] \in {"taken", "declined"}
    /\ calls'[i] = calls[i] /\ verdict'[i] = verdict[i]

\* Acceptance is evidence of an effect.
Accept(i) ==
    /\ outcome[i] = "taken" /\ verdict[i] = "open"
    /\ verdict'[i] = "accepted"
    /\ calls'[i] = calls[i] /\ outcome'[i] = outcome[i]

\* Refusal is proof that there is none and that there will be none.
Refuse(i) ==
    /\ \/ calls[i] = 0
       \/ outcome[i] = "declined"
    /\ verdict[i] = "open"
    /\ verdict'[i] = "refused"
    /\ calls'[i] = calls[i] /\ outcome'[i] = outcome[i]

Stay(i) ==
    calls'[i] = calls[i] /\ outcome'[i] = outcome[i] /\ verdict'[i] = verdict[i]

\* One transaction may settle several intents.
Next ==
    /\ calls' \in [Intent -> 0 .. 1]
    /\ outcome' \in [Intent -> {"none", "taken", "declined"}]
    /\ verdict' \in [Intent -> {"open", "accepted", "refused"}]
    /\ \A i \in Intent :
           Stay(i) \/ Call(i) \/ Answer(i) \/ Accept(i) \/ Refuse(i)

Spec == Init /\ [][Next]_<<calls, outcome, verdict>>
=============================================================================
