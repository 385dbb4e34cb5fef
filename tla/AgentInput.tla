----------------------------- MODULE AgentInput -----------------------------
(***************************************************************************)
(* Agent Input: the durable ledger of Submission Intents                   *)
(* (store/sqlite/submission-intent-store.ts), the drainer that claims an   *)
(* intent and hands it to Herdr Core (coordinator/agent-input-drainer.ts), *)
(* the startup recovery that scans the ledger page by page beside it, and  *)
(* Core itself, external, answering late, out of order or not at all.      *)
(*                                                                         *)
(* One incarnation of the service runs at a time (see InstanceLease); its  *)
(* predecessor may still hand over a body it was about to hand over when it*)
(* lost the lease, but writes nothing.  An await is a point where any other*)
(* step may intervene; a SQLite transaction is one step.                   *)
(***************************************************************************)
EXTENDS Integers, FiniteSets

CONSTANTS
    Intent,      \* Submission Intents, numbered in (created_at, submission_id) order
    Typed,       \* intents that carry a typed choice
    Sessionless, \* typed intents admitted without an expected session
    Mismatched,  \* intents whose Core receipts name another route
    PageLimit,   \* recoveryBatchLimit
    MaxRestarts  \* bound on crashes

ASSUME IntentAssumption ==
    /\ Intent \subseteq Nat \ {0} /\ IsFiniteSet(Intent)
    /\ Sessionless \subseteq Typed /\ Typed \subseteq Intent
    /\ Mismatched \subseteq Intent
    /\ PageLimit \in Nat \ {0}
    /\ MaxRestarts \in Nat

VARIABLES
    \* durable
    st,      \* submission_intents.state, "absent" before admission
    tried,   \* attempted_at IS NOT NULL
    code,    \* code in uncertainty_json: "none", "typed" or "other"
    rcpt,    \* state in receipt_json, "none" without one
    scan,    \* the row of agent_input_recovery_scan
    \* the current incarnation
    open,    \* ingress is open: the first recovery page is behind
    task,    \* the drain of every intent
    rec,     \* the recovery loop
    page,    \* the page it claimed
    item,    \* the work of every intent of that page
    swept,   \* history: cutoff of the scan this incarnation finished, or 0
    \* outside
    ghost,   \* intents a fenced-off predecessor may still hand over
    wire,    \* the last request to Core: "none", "sent", "taken", "refused"
    core,    \* Core's submission record
    sends,   \* history: how often the body was handed to Core
    restarts

durable == <<st, tried, code, rcpt, scan>>
local == <<open, task, rec, page, item, swept>>
world == <<ghost, wire, core, sends>>
bounds == <<restarts>>
vars == <<durable, local, world, bounds>>
-----------------------------------------------------------------------------
ReceiptStates == {"prepared", "observed", "terminal", "cancelled"}
States == {"absent", "recorded", "attempting", "uncertain"} \cup ReceiptStates

NoResult == [kind |-> "none", val |-> "none"]
Results == {NoResult, [kind |-> "rejected", val |-> "none"],
            [kind |-> "uncertain", val |-> "typed"],
            [kind |-> "uncertain", val |-> "other"]}
           \cup {[kind |-> "receipt", val |-> s] : s \in ReceiptStates}

Rejected == [kind |-> "rejected", val |-> "none"]
Uncertain(c) == [kind |-> "uncertain", val |-> c]
Receipt(s) == [kind |-> "receipt", val |-> s]

Idle == [at |-> "idle", res |-> NoResult]
NoScan == [on |-> FALSE, cutoff |-> 0, after |-> 0]
NoPage == [items |-> {}, next |-> 0, more |-> FALSE, cutoff |-> 0]

TypeOK ==
    /\ st \in [Intent -> States]
    /\ tried \in [Intent -> BOOLEAN]
    /\ code \in [Intent -> {"none", "typed", "other"}]
    /\ rcpt \in [Intent -> ReceiptStates \cup {"none"}]
    /\ scan \in [on : BOOLEAN, cutoff : Nat, after : Nat]
    /\ open \in BOOLEAN
    /\ task \in [Intent -> [at : {"idle", "cap", "call", "reply"}, res : Results]]
    /\ rec \in {"claim", "page", "wait", "done"}
    /\ page \in [items : SUBSET Intent, next : Nat, more : BOOLEAN, cutoff : Nat]
    /\ item \in [Intent -> [at : {"idle", "cap", "call", "query", "reply"}, res : Results]]
    /\ swept \in Nat
    /\ ghost \subseteq Intent
    /\ wire \in [Intent -> {"none", "sent", "taken", "refused"}]
    /\ core \in [Intent -> ReceiptStates \cup {"none"}]
    /\ sends \in [Intent -> Nat]
    /\ restarts \in Nat

Init ==
    /\ st = [i \in Intent |-> "absent"]
    /\ tried = [i \in Intent |-> FALSE]
    /\ code = [i \in Intent |-> "none"]
    /\ rcpt = [i \in Intent |-> "none"]
    /\ scan = NoScan
    /\ open = FALSE
    /\ task = [i \in Intent |-> Idle]
    /\ rec = "claim"
    /\ page = NoPage
    /\ item = [i \in Intent |-> Idle]
    /\ swept = 0
    /\ ghost = {}
    /\ wire = [i \in Intent |-> "none"]
    /\ core = [i \in Intent |-> "none"]
    /\ sends = [i \in Intent |-> 0]
    /\ restarts = 0
-----------------------------------------------------------------------------
(* The ledger.                                                              *)

Admitted == {i \in Intent : st[i] # "absent"}

\* The only states from which the body may be handed over: never attempted, or
\* an attempt that ended at the typed-capability check, before the call.
Claimable(i) == st[i] = "recorded" \/ (st[i] = "uncertain" /\ code[i] = "typed")

Rank(s) == CASE s = "prepared" -> 1 [] s = "observed" -> 2 [] OTHER -> 3

\* Faulty variant: a receipt is adopted whatever the row says.
CanAdoptAnyRank(i, s) ==
    /\ i \notin Mismatched
    /\ st[i] \notin {"absent", "recorded"}

\* canAdoptCoreReceipt, coreReceiptMatchesIntent included.
CanAdopt(i, s) ==
    /\ i \notin Mismatched
    /\ st[i] \notin {"absent", "recorded"}
    /\ CASE st[i] \in {"terminal", "cancelled"} -> st[i] = s /\ rcpt[i] = s
         [] st[i] \in {"attempting", "uncertain"} -> TRUE
         [] OTHER -> Rank(s) >= Rank(st[i])

\* What an outcome writes: recordReceipt, recordDefiniteRejection and
\* recordUncertain, and their counterparts inside completeRecoveryWorkPage.
StateAfter(i, r) ==
    CASE r.kind = "receipt" -> r.val
      [] r.kind = "rejected" -> "cancelled"
      [] OTHER -> "uncertain"

CodeAfter(i, r) == IF r.kind = "uncertain" THEN r.val ELSE "none"

RcptAfter(i, r) == IF r.kind = "receipt" THEN r.val ELSE rcpt[i]

\* Faulty variant: the row is updated without comparing its state.
DrainRecordsAlways(i, r) ==
    /\ st' = [st EXCEPT ![i] = StateAfter(i, r)]
    /\ code' = [code EXCEPT ![i] = CodeAfter(i, r)]
    /\ rcpt' = [rcpt EXCEPT ![i] = RcptAfter(i, r)]

\* The drain's result, as the drainer records it: a receipt that is not adopted
\* becomes an uncertainty; a rejection needs 'attempting', an uncertainty
\* 'attempting' or 'uncertain'; anything else changes no row.
DrainRecords(i, r) ==
    LET eff == IF r.kind = "receipt" /\ ~CanAdopt(i, r.val)
               THEN Uncertain("other") ELSE r
        applies == CASE eff.kind = "receipt" -> TRUE
                     [] eff.kind = "rejected" -> st[i] = "attempting"
                     [] OTHER -> st[i] \in {"attempting", "uncertain"}
    IN  IF applies
        THEN /\ st' = [st EXCEPT ![i] = StateAfter(i, eff)]
             /\ code' = [code EXCEPT ![i] = CodeAfter(i, eff)]
             /\ rcpt' = [rcpt EXCEPT ![i] = RcptAfter(i, eff)]
        ELSE UNCHANGED <<st, code, rcpt>>

\* An admission commits 'recorded': a message, or a completion choice whose
\* transaction admits and whose resume comes later.
Admit(i) ==
    /\ open
    /\ st[i] = "absent"
    /\ \A j \in Intent : j < i => st[j] # "absent"
    /\ st' = [st EXCEPT ![i] = "recorded"]
    /\ UNCHANGED <<tried, code, rcpt, scan>> /\ UNCHANGED local
    /\ UNCHANGED world /\ UNCHANGED bounds
-----------------------------------------------------------------------------
(* The drain of one intent: submit, a redelivered message, or resume.       *)

\* claimRecorded.
DrainClaims(i) ==
    /\ open
    /\ task[i] = Idle
    /\ Claimable(i)
    /\ st' = [st EXCEPT ![i] = "attempting"]
    /\ tried' = [tried EXCEPT ![i] = TRUE]
    /\ task' = [task EXCEPT ![i].at = "cap"]
    /\ UNCHANGED <<code, rcpt, scan, open, rec, page, item, swept>>
    /\ UNCHANGED world /\ UNCHANGED bounds

\* typedInputCapabilityFailure: a typed choice without a session is refused for
\* good, and one Core cannot take (or cannot say so) stays safe to retry.
CapabilityFailure(i) ==
    IF i \in Sessionless THEN {Rejected}
    ELSE IF i \in Typed THEN {Uncertain("typed")} ELSE {}

DrainFailsCapability(i) ==
    /\ task[i].at = "cap"
    /\ \E r \in CapabilityFailure(i) : DrainRecords(i, r)
    /\ task' = [task EXCEPT ![i] = Idle]
    /\ UNCHANGED <<tried, scan, open, rec, page, item, swept>>
    /\ UNCHANGED world /\ UNCHANGED bounds

HandOver(i) ==
    /\ sends' = [sends EXCEPT ![i] = @ + 1]
    /\ wire' = [wire EXCEPT ![i] = "sent"]

\* core.submit leaves the process.
DrainSubmits(i) ==
    /\ task[i].at = "cap" /\ i \notin Sessionless
    /\ HandOver(i)
    /\ task' = [task EXCEPT ![i].at = "call"]
    /\ UNCHANGED <<open, rec, page, item, swept, ghost, core>>
    /\ UNCHANGED durable /\ UNCHANGED bounds

\* Faulty variant: a failed call is taken for a definite rejection.
SubmitResultsEager(i) ==
    {Uncertain("other"), Rejected}
    \cup (IF wire[i] = "taken" THEN {Receipt(core[i])} ELSE {})

\* What a submit call can return: Core's receipt as of the answer, one of the
\* definite pre-effect codes, or nothing conclusive (timeout, transport).
SubmitResults(i) ==
    {Uncertain("other")}
    \cup (IF wire[i] = "taken" THEN {Receipt(core[i])} ELSE {})
    \cup (IF wire[i] = "refused" THEN {Rejected} ELSE {})

DrainAnswered(i) ==
    /\ task[i].at = "call"
    /\ \E r \in SubmitResults(i) : task' = [task EXCEPT ![i] = [at |-> "reply", res |-> r]]
    /\ UNCHANGED <<open, rec, page, item, swept>>
    /\ UNCHANGED durable /\ UNCHANGED world /\ UNCHANGED bounds

DrainFinishes(i) ==
    /\ task[i].at = "reply"
    /\ DrainRecords(i, task[i].res)
    /\ task' = [task EXCEPT ![i] = Idle]
    /\ UNCHANGED <<tried, scan, open, rec, page, item, swept>>
    /\ UNCHANGED world /\ UNCHANGED bounds
-----------------------------------------------------------------------------
(* Startup recovery, one page at a time.                                    *)

Cutoff == IF scan.on THEN scan.cutoff ELSE Cardinality(Admitted)

\* listRecoveryWorkPage: unsettled intents of the scan behind its cursor.
Listed ==
    {i \in Intent : /\ st[i] \in {"recorded", "attempting", "prepared", "uncertain"}
                    /\ i > scan.after /\ i <= Cutoff}

FirstOf(S) == {i \in S : Cardinality({j \in S : j < i}) < PageLimit}

\* Faulty variant: an interrupted attempt without a receipt is submitted again.
MaySubmitAttempting(i) == st[i] \in {"recorded", "attempting"} /\ rcpt[i] = "none"

\* action "submit" of a listed row; every other row is only queried.
MaySubmit(i) == (st[i] = "recorded" /\ ~tried[i]) \/ (st[i] = "uncertain" /\ code[i] = "typed")

\* nextCursor: the last row of the page, or the cursor it was read from.
IsNextCursor(n, S) ==
    IF S = {} THEN n = scan.after ELSE n \in S /\ \A j \in S : j <= n

\* claimRecoveryWorkPage: the scan row and the claims of the page's submissions
\* commit together.
ClaimPage ==
    /\ rec = "claim"
    /\ LET items == FirstOf(Listed)
           submits == {i \in items : MaySubmit(i)}
       IN  /\ st' = [i \in Intent |-> IF i \in submits THEN "attempting" ELSE st[i]]
           /\ tried' = [i \in Intent |-> i \in submits \/ tried[i]]
           /\ scan' = IF scan.on THEN scan
                      ELSE [on |-> TRUE, cutoff |-> Cutoff, after |-> 0]
           /\ \E n \in items \cup {scan.after} :
                  /\ IsNextCursor(n, items)
                  /\ page' = [items |-> items, next |-> n,
                              more |-> items # Listed, cutoff |-> Cutoff]
           /\ item' = [i \in Intent |->
                  IF i \in submits THEN [at |-> "cap", res |-> NoResult]
                  ELSE IF i \in items THEN [at |-> "query", res |-> NoResult] ELSE Idle]
    /\ rec' = "page"
    /\ UNCHANGED <<code, rcpt, open, task, swept>>
    /\ UNCHANGED world /\ UNCHANGED bounds

Resolve(i, r) == item' = [item EXCEPT ![i] = [at |-> "reply", res |-> r]]

\* submitRecovery: the capability check, then the call; outcomes stay in memory.
ItemFailsCapability(i) ==
    /\ item[i].at = "cap"
    /\ \E r \in CapabilityFailure(i) : Resolve(i, r)
    /\ UNCHANGED <<open, task, rec, page, swept>>
    /\ UNCHANGED durable /\ UNCHANGED world /\ UNCHANGED bounds

ItemSubmits(i) ==
    /\ item[i].at = "cap" /\ i \notin Sessionless
    /\ HandOver(i)
    /\ item' = [item EXCEPT ![i].at = "call"]
    /\ UNCHANGED <<open, task, rec, page, swept, ghost, core>>
    /\ UNCHANGED durable /\ UNCHANGED bounds

ItemAnswered(i) ==
    /\ item[i].at = "call"
    /\ \E r \in SubmitResults(i) : Resolve(i, r)
    /\ UNCHANGED <<open, task, rec, page, swept>>
    /\ UNCHANGED durable /\ UNCHANGED world /\ UNCHANGED bounds

\* queryRecovery: a receipt, or an uncertainty (absent, unavailable, thrown).
ItemQueried(i) ==
    /\ item[i].at = "query"
    /\ \E r \in {Uncertain("other")}
                \cup (IF core[i] = "none" THEN {} ELSE {Receipt(core[i])}) : Resolve(i, r)
    /\ UNCHANGED <<open, task, rec, page, swept>>
    /\ UNCHANGED durable /\ UNCHANGED world /\ UNCHANGED bounds

PageDone == \A i \in page.items : item[i].at = "reply"

\* Faulty variant: an uncertainty is accepted only for an attempt.
AppliesToAttempts(i) ==
    LET r == item[i].res
    IN  IF r.kind = "receipt" THEN CanAdopt(i, r.val) ELSE st[i] = "attempting"

\* completeRecoveryWorkPage accepts an outcome only from these states, and
\* throws otherwise.
Applies(i) ==
    LET r == item[i].res
    IN  CASE r.kind = "receipt" -> CanAdopt(i, r.val)
          [] r.kind = "rejected" -> st[i] = "attempting"
          [] OTHER -> st[i] \in {"attempting", "prepared", "uncertain"}

EndPage(next) ==
    /\ rec' = next
    /\ page' = NoPage
    /\ item' = [i \in Intent |-> Idle]
    /\ open' = TRUE
    /\ UNCHANGED task

\* Faulty variant: a cursor that is off by one.
ScanAfterPageSkipping ==
    IF page.more THEN [scan EXCEPT !.after = page.next + 1] ELSE NoScan

\* Where the cursor goes: behind the page, or the finished scan is deleted.
ScanAfterPage ==
    IF page.more THEN [scan EXCEPT !.after = page.next] ELSE NoScan

\* All outcomes of the page and the cursor in one transaction.
CompletePage ==
    /\ rec = "page" /\ PageDone
    /\ \A i \in page.items : Applies(i)
    /\ st' = [i \in Intent |-> IF i \in page.items THEN StateAfter(i, item[i].res) ELSE st[i]]
    /\ code' = [i \in Intent |-> IF i \in page.items THEN CodeAfter(i, item[i].res) ELSE code[i]]
    /\ rcpt' = [i \in Intent |-> IF i \in page.items THEN RcptAfter(i, item[i].res) ELSE rcpt[i]]
    /\ scan' = ScanAfterPage
    /\ swept' = IF page.more THEN swept ELSE page.cutoff
    /\ EndPage(IF page.more THEN "claim" ELSE "done")
    /\ UNCHANGED tried
    /\ UNCHANGED world /\ UNCHANGED bounds

\* One outcome that no longer applies rolls the page back; the loop retries.
RollBackPage ==
    /\ rec = "page" /\ PageDone
    /\ \E i \in page.items : ~Applies(i)
    /\ EndPage("wait")
    /\ UNCHANGED swept
    /\ UNCHANGED durable /\ UNCHANGED world /\ UNCHANGED bounds

\* The claim or the completion itself fails (SQLite busy, disk): the same retry.
PageFails ==
    /\ rec = "claim" \/ (rec = "page" /\ PageDone)
    /\ EndPage("wait")
    /\ UNCHANGED swept
    /\ UNCHANGED durable /\ UNCHANGED world /\ UNCHANGED bounds

\* waitForRetry ends; the next claim lists the page again.
RetryPage ==
    /\ rec = "wait"
    /\ rec' = "claim"
    /\ UNCHANGED <<open, task, page, item, swept>>
    /\ UNCHANGED durable /\ UNCHANGED world /\ UNCHANGED bounds
-----------------------------------------------------------------------------
(* Canonical evidence, Core and the process itself.                         *)

\* observeCanonicalHumanMessage, from the ingestion of the session's events.
Observe(i) ==
    /\ core[i] \in {"observed", "terminal"}
    /\ st[i] \in {"attempting", "prepared", "uncertain"}
    /\ st' = [st EXCEPT ![i] = "observed"]
    /\ UNCHANGED <<tried, code, rcpt, scan>> /\ UNCHANGED local
    /\ UNCHANGED world /\ UNCHANGED bounds

\* Core takes the request, whether or not anyone still waits for the answer.
CoreTakes(i) ==
    /\ wire[i] = "sent"
    /\ wire' = [wire EXCEPT ![i] = "taken"]
    /\ core' = [core EXCEPT ![i] = "prepared"]
    /\ UNCHANGED <<ghost, sends>>
    /\ UNCHANGED durable /\ UNCHANGED local /\ UNCHANGED bounds

\* Core refuses it before any effect.
CoreRefuses(i) ==
    /\ wire[i] = "sent"
    /\ wire' = [wire EXCEPT ![i] = "refused"]
    /\ UNCHANGED <<ghost, core, sends>>
    /\ UNCHANGED durable /\ UNCHANGED local /\ UNCHANGED bounds

CoreAdvances(i) ==
    /\ \E s \in (CASE core[i] = "prepared" -> {"observed", "cancelled"}
                   [] core[i] = "observed" -> {"terminal", "cancelled"}
                   [] OTHER -> {}) : core' = [core EXCEPT ![i] = s]
    /\ UNCHANGED <<ghost, wire, sends>>
    /\ UNCHANGED durable /\ UNCHANGED local /\ UNCHANGED bounds

\* The process dies, or loses the lease and is replaced: its memory is gone, and
\* what it was about to hand over it may still hand over.
Restart ==
    /\ restarts < MaxRestarts
    /\ restarts' = restarts + 1
    /\ ghost' = ghost \cup {i \in Intent \ Sessionless :
                               task[i].at = "cap" \/ item[i].at = "cap"}
    /\ open' = FALSE
    /\ task' = [i \in Intent |-> Idle]
    /\ rec' = "claim"
    /\ page' = NoPage
    /\ item' = [i \in Intent |-> Idle]
    /\ swept' = 0
    /\ UNCHANGED <<wire, core, sends>>
    /\ UNCHANGED durable

GhostSubmits(i) ==
    /\ i \in ghost
    /\ ghost' = ghost \ {i}
    /\ HandOver(i)
    /\ UNCHANGED core
    /\ UNCHANGED durable /\ UNCHANGED local /\ UNCHANGED bounds
-----------------------------------------------------------------------------
IntentStep(i) ==
    \/ Admit(i)
    \/ DrainClaims(i)
    \/ DrainFailsCapability(i)
    \/ DrainSubmits(i)
    \/ DrainAnswered(i)
    \/ DrainFinishes(i)
    \/ ItemFailsCapability(i)
    \/ ItemSubmits(i)
    \/ ItemAnswered(i)
    \/ ItemQueried(i)
    \/ Observe(i)
    \/ CoreTakes(i)
    \/ CoreRefuses(i)
    \/ CoreAdvances(i)
    \/ GhostSubmits(i)

Next ==
    \/ \E i \in Intent : IntentStep(i)
    \/ ClaimPage
    \/ CompletePage
    \/ RollBackPage
    \/ PageFails
    \/ RetryPage
    \/ Restart

Spec == Init /\ [][Next]_vars

\* Calls return (a command has a timeout), the recovery loop keeps going, and a
\* drain that claimed runs on.  A transaction tried again and again is one day
\* not failed by SQLite.  Nothing is assumed of Core or of new input.
Fairness ==
    /\ SF_vars(ClaimPage)
    /\ SF_vars(CompletePage \/ RollBackPage)
    /\ WF_vars(RetryPage)
    /\ \A i \in Intent :
           /\ WF_vars(ItemFailsCapability(i) \/ ItemSubmits(i))
           /\ WF_vars(ItemAnswered(i))
           /\ WF_vars(ItemQueried(i))

FairSpec == Spec /\ Fairness
-----------------------------------------------------------------------------
(* What Agent Input promises.                                               *)

\* The body of an intent is handed to Core at most once: by the drain, by a
\* recovery page of this or a later incarnation, or by a predecessor that lost
\* its lease between the claim and the call (core invariant 3).
AtMostOneSubmit == \A i \in Intent : sends[i] <= 1

\* Whoever may still hand a body over, or has, did so behind a durable
\* 'attempting': no crash can leave a possible effect on a row that the next
\* recovery would submit.
EffectIsBehindAttempt ==
    \A i \in Intent :
        (sends[i] > 0 \/ i \in ghost) => tried[i] /\ ~Claimable(i)

\* 'prepared', 'observed' and 'terminal' are evidence that Core took the input,
\* and an intent cancelled without a receipt is proof that it did not and never
\* will, although answers arrive after timeouts, restarts and recovery queries.
VerdictMatchesCore ==
    \A i \in Intent :
        /\ st[i] \in {"prepared", "observed", "terminal"} => core[i] # "none"
        /\ st[i] = "cancelled" /\ rcpt[i] = "none" =>
               core[i] = "none" /\ wire[i] # "sent" /\ i \notin ghost

\* Receipts only move forward once canonical evidence exists: an observed intent
\* settles or stays, and a settled one never changes, whatever stale receipt or
\* late uncertainty a drain or a recovery page still carries.
SettledNeverReopens ==
    [][\A i \in Intent :
           /\ st[i] \in {"terminal", "cancelled"} => st'[i] = st[i]
           /\ st[i] = "observed" => st'[i] \in {"observed", "terminal", "cancelled"}]_vars

\* When the recovery scan of this incarnation has finished, no intent up to its
\* cutoff is left 'recorded': pages, rollbacks and a cursor inherited from a
\* crashed scan skip nothing.
ScanSkipsNothing == \A i \in Intent : i <= swept => st[i] # "recorded"

\* A scan reaches every intent that was 'recorded' when it began: no other intent
\* holds it back ("No transition checks a predecessor Submission Intent").
ScanReachesEveryRecorded ==
    \A i \in Intent :
        (scan.on /\ i <= scan.cutoff /\ st[i] = "recorded") ~> st[i] # "recorded"

\* Agent Input implements InputOnce: the refinement mapping reads the verdict
\* off the row (a receipt is kept when the state falls back to 'uncertain').
Verdict(i) ==
    IF rcpt[i] # "none" \/ st[i] \in {"prepared", "observed", "terminal"} THEN "accepted"
    ELSE IF st[i] = "cancelled" THEN "refused" ELSE "open"

CoreOutcome(i) ==
    IF core[i] # "none" THEN "taken" ELSE IF wire[i] = "refused" THEN "declined" ELSE "none"

Once == INSTANCE InputOnce WITH
            calls <- sends,
            outcome <- [i \in Intent |-> CoreOutcome(i)],
            verdict <- [i \in Intent |-> Verdict(i)]

\* At most one hand-over per intent, and a durable verdict that never
\* contradicts what Core did.
ImplementsInputOnce == Once!Spec

\* The right to hand over the body of an intent: held by the drain, by the
\* recovery page or by a predecessor, between the durable claim and the call.
DrainHolds(i) == task[i].at = "cap"
PageHolds(i) == item[i].at = "cap"
Holds(i) == DrainHolds(i) \/ PageHolds(i) \/ i \in ghost

\* Once claimed, an intent is neither claimable nor 'recorded' again until an
\* attempt ends at the capability check.
Claimed(i) == tried[i] /\ st[i] \notin {"absent", "recorded"} /\ ~Claimable(i)

\* At most one of the three holds the right, nobody does once the body was
\* handed over, and the holder left the row claimed.
OneHolder ==
    \A i \in Intent :
        /\ ~(DrainHolds(i) /\ PageHolds(i))
        /\ i \in ghost => ~DrainHolds(i) /\ ~PageHolds(i)
        /\ Holds(i) => sends[i] = 0 /\ Claimed(i)
        /\ sends[i] > 0 => sends[i] = 1 /\ ~Holds(i) /\ Claimed(i)
        /\ i \in ghost => i \notin Sessionless

\* What a call or a page still carries is true of the intent when it lands.
PendingResultsAreSound ==
    \A i \in Intent :
        /\ task[i].at = "idle" => task[i].res = NoResult
        /\ task[i].at \in {"call", "reply"} => sends[i] = 1
        /\ task[i].at = "reply" =>
               /\ task[i].res # Uncertain("typed")
               /\ task[i].res.kind # "none"
               /\ task[i].res.kind = "receipt" => core[i] # "none"
               /\ task[i].res = Rejected => wire[i] = "refused"
        /\ item[i].at = "call" => sends[i] = 1
        /\ item[i].at = "reply" =>
               /\ item[i].res.kind # "none"
               /\ item[i].res.kind = "receipt" => core[i] # "none"
               /\ item[i].res = Rejected =>
                      (wire[i] = "refused"
                       \/ (i \in Sessionless /\ sends[i] = 0 /\ st[i] = "attempting"
                           /\ ~Holds(i)))
               /\ item[i].res = Uncertain("typed") =>
                      sends[i] = 0 /\ st[i] = "attempting" /\ ~Holds(i)
        /\ PageHolds(i) => st[i] = "attempting"
        /\ DrainHolds(i) => st[i] \in {"attempting", "uncertain"}

\* The request and Core's record agree with the hand-over.
CoreAnswersTheCall ==
    \A i \in Intent :
        /\ wire[i] = "none" <=> sends[i] = 0
        /\ wire[i] = "taken" <=> core[i] # "none"
        /\ rcpt[i] # "none" => core[i] # "none"
        /\ st[i] = "prepared" => rcpt[i] # "none"

\* The inductive invariant behind the theorems.
IndInv ==
    TypeOK /\ OneHolder /\ PendingResultsAreSound /\ CoreAnswersTheCall
           /\ VerdictMatchesCore
=============================================================================
