-------------------------- MODULE AgentInputProofs --------------------------
(***************************************************************************)
(* Proofs about AgentInput for any finite set of intents, any page limit   *)
(* and any number of restarts.  The inductive invariant is IndInv: who     *)
(* holds the right to hand a body over (OneHolder), what the answers still *)
(* in flight will say when they land (PendingResultsAreSound), and how     *)
(* Core's record relates to the call (CoreAnswersTheCall).                 *)
(***************************************************************************)
EXTENDS AgentInput, FiniteSetTheorems, TLAPS

\* The cutoff of a scan is a number: there are finitely many intents.
LEMMA CutoffType == TypeOK => Cutoff \in Nat
<1> SUFFICES ASSUME TypeOK PROVE Cutoff \in Nat
  OBVIOUS
<1>1. IsFiniteSet(Admitted)
  BY IntentAssumption, FS_Subset DEF Admitted
<1>2. Cardinality(Admitted) \in Nat
  BY <1>1, FS_CardinalityType
<1> QED
  BY <1>2 DEF Cutoff, TypeOK

\* Every initial state satisfies the invariant.
LEMMA InitInv == Init => IndInv
<1> SUFFICES ASSUME Init PROVE IndInv
  OBVIOUS
<1> USE DEF Init
<1>1. TypeOK
  BY DEF TypeOK, States, ReceiptStates, Results, NoResult, Idle, NoScan, NoPage
<1>2. OneHolder
  BY DEF OneHolder, Holds, DrainHolds, PageHolds, Idle
<1>3. PendingResultsAreSound
  BY DEF PendingResultsAreSound, DrainHolds, PageHolds, Idle, NoResult
<1>4. CoreAnswersTheCall
  BY DEF CoreAnswersTheCall
<1>5. VerdictMatchesCore
  BY DEF VerdictMatchesCore
<1> QED
  BY <1>1, <1>2, <1>3, <1>4, <1>5 DEF IndInv

\* What the results of calls and queries look like.
LEMMA ResultTypes ==
    /\ NoResult \in Results /\ Rejected \in Results
    /\ Uncertain("typed") \in Results /\ Uncertain("other") \in Results
    /\ \A t \in ReceiptStates : Receipt(t) \in Results
    /\ \A r \in Results :
           /\ r.kind = "receipt" => r.val \in ReceiptStates
           /\ r.kind = "uncertain" => r.val \in {"typed", "other"}
  BY DEF Results, NoResult, Rejected, Uncertain, Receipt, ReceiptStates

\* What an outcome writes has the column's type.
LEMMA AfterTypes ==
    ASSUME TypeOK, NEW i \in Intent, NEW r \in Results
    PROVE  /\ StateAfter(i, r) \in States
           /\ CodeAfter(i, r) \in {"none", "typed", "other"}
           /\ RcptAfter(i, r) \in ReceiptStates \cup {"none"}
  BY ResultTypes DEF StateAfter, CodeAfter, RcptAfter, TypeOK, States, ReceiptStates

\* Recording the result of a drain keeps the types of the three columns.
LEMMA DrainRecordsType ==
    ASSUME TypeOK, NEW i \in Intent, NEW r \in Results, DrainRecords(i, r)
    PROVE  /\ st' \in [Intent -> States]
           /\ code' \in [Intent -> {"none", "typed", "other"}]
           /\ rcpt' \in [Intent -> ReceiptStates \cup {"none"}]
<1> DEFINE eff == IF r.kind = "receipt" /\ ~CanAdopt(i, r.val)
                  THEN Uncertain("other") ELSE r
<1>1. eff \in Results
  BY ResultTypes
<1>2. /\ StateAfter(i, eff) \in States
      /\ CodeAfter(i, eff) \in {"none", "typed", "other"}
      /\ RcptAfter(i, eff) \in ReceiptStates \cup {"none"}
  BY <1>1, AfterTypes
<1>3. \/ /\ st' = [st EXCEPT ![i] = StateAfter(i, eff)]
         /\ code' = [code EXCEPT ![i] = CodeAfter(i, eff)]
         /\ rcpt' = [rcpt EXCEPT ![i] = RcptAfter(i, eff)]
      \/ UNCHANGED <<st, code, rcpt>>
  BY DEF DrainRecords
<1>4. /\ st \in [Intent -> States]
      /\ code \in [Intent -> {"none", "typed", "other"}]
      /\ rcpt \in [Intent -> ReceiptStates \cup {"none"}]
  BY DEF TypeOK
<1> HIDE DEF eff
<1> QED
  BY <1>2, <1>3, <1>4

\* The results a submit call can return are results.
LEMMA SubmitResultsType ==
    ASSUME TypeOK, NEW i \in Intent, CoreAnswersTheCall
    PROVE  SubmitResults(i) \subseteq Results
<1>1. wire[i] = "taken" => core[i] \in ReceiptStates
  BY DEF TypeOK, CoreAnswersTheCall
<1> QED
  BY <1>1, ResultTypes DEF SubmitResults

\* Resolving an item of the page keeps its type.
LEMMA ResolveType ==
    ASSUME TypeOK, NEW i \in Intent, NEW r \in Results, Resolve(i, r)
    PROVE  item' \in [Intent -> [at : {"idle", "cap", "call", "query", "reply"},
                                 res : Results]]
  BY DEF Resolve, TypeOK

\* Every step keeps the types.
LEMMA TypeStep == TypeOK /\ CoreAnswersTheCall /\ [Next]_vars => TypeOK'
<1> SUFFICES ASSUME TypeOK, CoreAnswersTheCall, [Next]_vars PROVE TypeOK'
  OBVIOUS
<1> USE DEF TypeOK, Idle, durable, local, world, bounds
<1>1. ASSUME NEW i \in Intent, Admit(i) PROVE TypeOK'
  BY <1>1 DEF Admit, States
<1>2. ASSUME NEW i \in Intent, DrainClaims(i) PROVE TypeOK'
  <2>1. task' \in [Intent -> [at : {"idle", "cap", "call", "reply"}, res : Results]]
    BY <1>2 DEF DrainClaims
  <2> QED
    BY <1>2, <2>1 DEF DrainClaims, States
<1>3. ASSUME NEW i \in Intent, DrainFailsCapability(i) PROVE TypeOK'
  <2>1. \E r \in Results : DrainRecords(i, r)
    BY <1>3, ResultTypes DEF DrainFailsCapability, CapabilityFailure
  <2>2. /\ st' \in [Intent -> States]
        /\ code' \in [Intent -> {"none", "typed", "other"}]
        /\ rcpt' \in [Intent -> ReceiptStates \cup {"none"}]
    BY <2>1, DrainRecordsType
  <2>3. task' \in [Intent -> [at : {"idle", "cap", "call", "reply"}, res : Results]]
    BY <1>3, ResultTypes DEF DrainFailsCapability
  <2> QED
    BY <1>3, <2>2, <2>3 DEF DrainFailsCapability
<1>4. ASSUME NEW i \in Intent, DrainSubmits(i) PROVE TypeOK'
  <2>1. task' \in [Intent -> [at : {"idle", "cap", "call", "reply"}, res : Results]]
    BY <1>4 DEF DrainSubmits
  <2>2. /\ sends' \in [Intent -> Nat]
        /\ wire' \in [Intent -> {"none", "sent", "taken", "refused"}]
    BY <1>4 DEF DrainSubmits, HandOver
  <2> QED
    BY <1>4, <2>1, <2>2 DEF DrainSubmits
<1>5. ASSUME NEW i \in Intent, DrainAnswered(i) PROVE TypeOK'
  <2>1. \E r \in Results : task' = [task EXCEPT ![i] = [at |-> "reply", res |-> r]]
    BY <1>5, SubmitResultsType DEF DrainAnswered
  <2>2. task' \in [Intent -> [at : {"idle", "cap", "call", "reply"}, res : Results]]
    BY <2>1
  <2> QED
    BY <1>5, <2>2 DEF DrainAnswered
<1>6. ASSUME NEW i \in Intent, DrainFinishes(i) PROVE TypeOK'
  <2>1. task[i].res \in Results
    OBVIOUS
  <2>2. /\ st' \in [Intent -> States]
        /\ code' \in [Intent -> {"none", "typed", "other"}]
        /\ rcpt' \in [Intent -> ReceiptStates \cup {"none"}]
    BY <1>6, <2>1, DrainRecordsType DEF DrainFinishes
  <2>3. task' \in [Intent -> [at : {"idle", "cap", "call", "reply"}, res : Results]]
    BY <1>6, ResultTypes DEF DrainFinishes
  <2> QED
    BY <1>6, <2>2, <2>3 DEF DrainFinishes
<1>7. ASSUME NEW i \in Intent, ItemFailsCapability(i) PROVE TypeOK'
  <2>1. \E r \in Results : Resolve(i, r)
    BY <1>7, ResultTypes DEF ItemFailsCapability, CapabilityFailure
  <2> QED
    BY <1>7, <2>1, ResolveType DEF ItemFailsCapability
<1>8. ASSUME NEW i \in Intent, ItemSubmits(i) PROVE TypeOK'
  <2>1. item' \in [Intent -> [at : {"idle", "cap", "call", "query", "reply"}, res : Results]]
    BY <1>8 DEF ItemSubmits
  <2>2. /\ sends' \in [Intent -> Nat]
        /\ wire' \in [Intent -> {"none", "sent", "taken", "refused"}]
    BY <1>8 DEF ItemSubmits, HandOver
  <2> QED
    BY <1>8, <2>1, <2>2 DEF ItemSubmits
<1>9. ASSUME NEW i \in Intent, ItemAnswered(i) PROVE TypeOK'
  <2>1. \E r \in Results : Resolve(i, r)
    BY <1>9, SubmitResultsType DEF ItemAnswered
  <2> QED
    BY <1>9, <2>1, ResolveType DEF ItemAnswered
<1>10. ASSUME NEW i \in Intent, ItemQueried(i) PROVE TypeOK'
  <2>1. \E r \in Results : Resolve(i, r)
    BY <1>10, ResultTypes DEF ItemQueried
  <2> QED
    BY <1>10, <2>1, ResolveType DEF ItemQueried
<1>11. ASSUME NEW i \in Intent, Observe(i) PROVE TypeOK'
  BY <1>11 DEF Observe, States, ReceiptStates
<1>12. ASSUME NEW i \in Intent, CoreTakes(i) PROVE TypeOK'
  BY <1>12 DEF CoreTakes, ReceiptStates
<1>13. ASSUME NEW i \in Intent, CoreRefuses(i) PROVE TypeOK'
  BY <1>13 DEF CoreRefuses
<1>14. ASSUME NEW i \in Intent, CoreAdvances(i) PROVE TypeOK'
  BY <1>14 DEF CoreAdvances, ReceiptStates
<1>15. ASSUME NEW i \in Intent, GhostSubmits(i) PROVE TypeOK'
  BY <1>15 DEF GhostSubmits, HandOver
<1>16. CASE ClaimPage
  <2>1. scan' \in [on : BOOLEAN, cutoff : Nat, after : Nat]
    BY <1>16, CutoffType DEF ClaimPage
  <2>2. page' \in [items : SUBSET Intent, next : Nat, more : BOOLEAN, cutoff : Nat]
    BY <1>16, CutoffType, IntentAssumption DEF ClaimPage, FirstOf, Listed
  <2>3. item' \in [Intent -> [at : {"idle", "cap", "call", "query", "reply"}, res : Results]]
    BY <1>16, ResultTypes DEF ClaimPage
  <2>4. st' \in [Intent -> States] /\ tried' \in [Intent -> BOOLEAN]
    BY <1>16 DEF ClaimPage, States
  <2> QED
    BY <1>16, <2>1, <2>2, <2>3, <2>4 DEF ClaimPage
<1>17. CASE CompletePage
  <2>1. \A i \in Intent : item[i].res \in Results
    OBVIOUS
  <2>2. \A i \in Intent : /\ StateAfter(i, item[i].res) \in States
                          /\ CodeAfter(i, item[i].res) \in {"none", "typed", "other"}
                          /\ RcptAfter(i, item[i].res) \in ReceiptStates \cup {"none"}
    BY <2>1, AfterTypes
  <2>3. /\ st' \in [Intent -> States]
        /\ code' \in [Intent -> {"none", "typed", "other"}]
        /\ rcpt' \in [Intent -> ReceiptStates \cup {"none"}]
    BY <1>17, <2>2 DEF CompletePage
  <2>4. scan' \in [on : BOOLEAN, cutoff : Nat, after : Nat] /\ swept' \in Nat
    BY <1>17 DEF CompletePage, ScanAfterPage, NoScan
  <2> QED
    BY <1>17, <2>3, <2>4, ResultTypes DEF CompletePage, EndPage, NoPage
<1>18. CASE RollBackPage
  BY ResultTypes, <1>18 DEF RollBackPage, EndPage, NoPage
<1>19. CASE PageFails
  BY ResultTypes, <1>19 DEF PageFails, EndPage, NoPage
<1>20. CASE RetryPage
  BY <1>20 DEF RetryPage
<1>21. CASE Restart
  <2>1. ghost' \subseteq Intent
    BY <1>21 DEF Restart
  <2>2. /\ task' \in [Intent -> [at : {"idle", "cap", "call", "reply"}, res : Results]]
        /\ item' \in [Intent -> [at : {"idle", "cap", "call", "query", "reply"}, res : Results]]
    BY <1>21, ResultTypes DEF Restart
  <2>3. page' \in [items : SUBSET Intent, next : Nat, more : BOOLEAN, cutoff : Nat]
    BY <1>21 DEF Restart, NoPage
  <2>4. /\ open' = FALSE /\ rec' = "claim" /\ swept' = 0 /\ restarts' = restarts + 1
        /\ UNCHANGED <<st, tried, code, rcpt, scan, wire, core, sends>>
    BY <1>21 DEF Restart
  <2>5. open' \in BOOLEAN /\ rec' \in {"claim", "page", "wait", "done"} /\ swept' \in Nat
    BY <2>4
  <2>6. restarts' \in Nat
    BY <2>4
  <2>7. /\ st' \in [Intent -> States] /\ tried' \in [Intent -> BOOLEAN]
        /\ code' \in [Intent -> {"none", "typed", "other"}]
        /\ rcpt' \in [Intent -> ReceiptStates \cup {"none"}]
        /\ scan' \in [on : BOOLEAN, cutoff : Nat, after : Nat]
        /\ wire' \in [Intent -> {"none", "sent", "taken", "refused"}]
        /\ core' \in [Intent -> ReceiptStates \cup {"none"}]
        /\ sends' \in [Intent -> Nat]
    BY <2>4
  <2> QED
    BY <2>1, <2>2, <2>3, <2>5, <2>6, <2>7
<1>22. CASE UNCHANGED vars
  BY <1>22 DEF vars
<1> QED
  BY <1>1, <1>2, <1>3, <1>4, <1>5, <1>6, <1>7, <1>8, <1>9, <1>10, <1>11, <1>12, <1>13, <1>14, <1>15, <1>16, <1>17, <1>18, <1>19, <1>20, <1>21, <1>22 DEF Next, IntentStep

\* What a landing result of a drain writes, and what is true when it does.
LEMMA DrainOutcome ==
    ASSUME IndInv, NEW i \in Intent, DrainFinishes(i)
    PROVE  \/ /\ st'[i] \in ReceiptStates /\ rcpt'[i] = st'[i]
              /\ code'[i] = "none" /\ core[i] # "none" /\ CanAdopt(i, st'[i])
           \/ /\ st'[i] = "cancelled" /\ rcpt'[i] = rcpt[i] /\ code'[i] = "none"
              /\ st[i] = "attempting" /\ wire[i] = "refused"
           \/ /\ st'[i] = "uncertain" /\ rcpt'[i] = rcpt[i] /\ code'[i] = "other"
              /\ st[i] \in {"attempting", "uncertain"}
           \/ st'[i] = st[i] /\ rcpt'[i] = rcpt[i] /\ code'[i] = code[i]
<1> DEFINE r == task[i].res
<1>1. /\ r \in Results /\ r # Uncertain("typed") /\ r.kind # "none"
      /\ r.kind = "receipt" => core[i] # "none"
      /\ r = Rejected => wire[i] = "refused"
  BY DEF DrainFinishes, IndInv, TypeOK, PendingResultsAreSound
<1>2. \/ r = Rejected \/ r = Uncertain("other")
      \/ r.kind = "receipt" /\ r.val \in ReceiptStates
  BY <1>1 DEF Results, Rejected, Uncertain, NoResult
<1>3. i \in DOMAIN st /\ i \in DOMAIN rcpt /\ i \in DOMAIN code
  BY DEF IndInv, TypeOK
<1>4. DrainRecords(i, r)
  BY DEF DrainFinishes
<1> HIDE DEF r
<1> QED
  BY <1>1, <1>2, <1>3, <1>4 DEF DrainRecords, StateAfter, CodeAfter, RcptAfter, Rejected, Uncertain

\* What an outcome of a completed page writes, and what is true when it does.
LEMMA ItemOutcome ==
    ASSUME IndInv, CompletePage, NEW i \in Intent
    PROVE  \/ /\ st'[i] \in ReceiptStates /\ rcpt'[i] = st'[i]
              /\ code'[i] = "none" /\ core[i] # "none" /\ CanAdopt(i, st'[i])
           \/ /\ st'[i] = "cancelled" /\ rcpt'[i] = rcpt[i] /\ code'[i] = "none"
              /\ st[i] = "attempting"
              /\ wire[i] = "refused" \/ (sends[i] = 0 /\ ~Holds(i))
           \/ /\ st'[i] = "uncertain" /\ rcpt'[i] = rcpt[i] /\ code'[i] = "other"
              /\ st[i] \in {"attempting", "prepared", "uncertain"}
           \/ /\ st'[i] = "uncertain" /\ rcpt'[i] = rcpt[i] /\ code'[i] = "typed"
              /\ st[i] = "attempting" /\ sends[i] = 0 /\ ~Holds(i)
           \/ st'[i] = st[i] /\ rcpt'[i] = rcpt[i] /\ code'[i] = code[i]
<1>1. CASE i \notin page.items
  BY <1>1 DEF CompletePage
<1>2. CASE i \in page.items
  <2> DEFINE r == item[i].res
  <2>1. item[i].at = "reply" /\ Applies(i)
    BY <1>2 DEF CompletePage, PageDone
  <2>2. /\ r \in Results /\ r.kind # "none"
        /\ r.kind = "receipt" => core[i] # "none"
        /\ r = Rejected => wire[i] = "refused" \/ (sends[i] = 0 /\ ~Holds(i))
        /\ r = Uncertain("typed") => sends[i] = 0 /\ st[i] = "attempting" /\ ~Holds(i)
    BY <2>1 DEF IndInv, TypeOK, PendingResultsAreSound
  <2>3. \/ r = Rejected \/ r = Uncertain("other") \/ r = Uncertain("typed")
        \/ r.kind = "receipt" /\ r.val \in ReceiptStates
    BY <2>2 DEF Results, Rejected, Uncertain, NoResult
  <2>4. st'[i] = StateAfter(i, r) /\ code'[i] = CodeAfter(i, r) /\ rcpt'[i] = RcptAfter(i, r)
    BY <1>2 DEF CompletePage
  <2>5. /\ r.kind = "receipt" => CanAdopt(i, r.val)
        /\ r.kind = "rejected" => st[i] = "attempting"
        /\ r.kind = "uncertain" => st[i] \in {"attempting", "prepared", "uncertain"}
    BY <2>1 DEF Applies
  <2> HIDE DEF r
  <2> QED
    BY <2>2, <2>3, <2>4, <2>5 DEF StateAfter, CodeAfter, RcptAfter, Rejected, Uncertain
<1> QED
  BY <1>1, <1>2

\* The last request of an intent that is still held, or that Core took.
LEMMA HeldOrTaken ==
    ASSUME IndInv, NEW i \in Intent
    PROVE  /\ core[i] # "none" => sends[i] = 1 /\ ~Holds(i) /\ Claimed(i) /\ wire[i] = "taken"
           /\ wire[i] = "refused" => sends[i] = 1 /\ ~Holds(i) /\ core[i] = "none"
<1>1. sends[i] \in Nat
  BY DEF IndInv, TypeOK
<1> QED
  BY <1>1 DEF IndInv, OneHolder, CoreAnswersTheCall

\* Every step keeps the right to hand over single.
LEMMA HolderStep == IndInv /\ [Next]_vars => OneHolder'
<1> SUFFICES ASSUME IndInv, [Next]_vars PROVE OneHolder'
  OBVIOUS
<1> USE DEF IndInv, TypeOK, OneHolder, PendingResultsAreSound, CoreAnswersTheCall, VerdictMatchesCore, Holds, DrainHolds, PageHolds, Claimed, Claimable, Idle, NoResult, Rejected, Uncertain, Receipt, durable, local, world, bounds
<1>1. ASSUME NEW i \in Intent, Admit(i) PROVE OneHolder'
  BY <1>1 DEF Admit
<1>2. ASSUME NEW i \in Intent, DrainClaims(i) PROVE OneHolder'
  BY <1>2 DEF DrainClaims
<1>3. ASSUME NEW i \in Intent, DrainFailsCapability(i) PROVE OneHolder'
  BY <1>3 DEF DrainFailsCapability, CapabilityFailure, DrainRecords, StateAfter, CodeAfter, RcptAfter
<1>4. ASSUME NEW i \in Intent, DrainSubmits(i) PROVE OneHolder'
  BY <1>4 DEF DrainSubmits, HandOver
<1>5. ASSUME NEW i \in Intent, DrainAnswered(i) PROVE OneHolder'
  BY <1>5 DEF DrainAnswered, SubmitResults
<1>6. ASSUME NEW i \in Intent, DrainFinishes(i) PROVE OneHolder'
  <2>1. \A j \in Intent \ {i} :
            st'[j] = st[j] /\ code'[j] = code[j] /\ rcpt'[j] = rcpt[j] /\ task'[j] = task[j]
    BY <1>6 DEF DrainFinishes, DrainRecords, IndInv, TypeOK
  <2>2. task'[i] = Idle /\ UNCHANGED <<tried, item, sends, ghost, wire, core>>
    BY <1>6 DEF DrainFinishes, IndInv, TypeOK, world
  <2>3. ASSUME NEW j \in Intent
        PROVE  /\ Holds(j)' => Holds(j)
               /\ DrainHolds(j)' => DrainHolds(j)
               /\ PageHolds(j)' => PageHolds(j)
               /\ Claimed(j) /\ (Holds(j) \/ sends[j] > 0) => Claimed(j)'
    <3>1. CASE j # i
      BY <3>1, <2>1, <2>2
    <3>2. CASE j = i
      <4> HIDE DEF IndInv, TypeOK, OneHolder, PendingResultsAreSound, CoreAnswersTheCall, VerdictMatchesCore
      <4>1. /\ st'[i] \in {"absent", "recorded"} => st'[i] = st[i]
            /\ Claimable(i)' => Claimable(i)
        BY <1>6, DrainOutcome DEF ReceiptStates
      <4> QED
        BY <3>2, <4>1, <2>2
    <3> QED
      BY <3>1, <3>2
  <2>4. sends' = sends /\ ghost' = ghost
    BY <2>2
  <2> QED
    BY <2>3, <2>4
<1>7. ASSUME NEW i \in Intent, ItemFailsCapability(i) PROVE OneHolder'
  BY <1>7 DEF ItemFailsCapability, CapabilityFailure, Resolve
<1>8. ASSUME NEW i \in Intent, ItemSubmits(i) PROVE OneHolder'
  BY <1>8 DEF ItemSubmits, HandOver
<1>9. ASSUME NEW i \in Intent, ItemAnswered(i) PROVE OneHolder'
  BY <1>9 DEF ItemAnswered, SubmitResults, Resolve
<1>10. ASSUME NEW i \in Intent, ItemQueried(i) PROVE OneHolder'
  BY <1>10 DEF ItemQueried, Resolve
<1>11. ASSUME NEW i \in Intent, Observe(i) PROVE OneHolder'
  BY <1>11 DEF Observe
<1>12. ASSUME NEW i \in Intent, CoreTakes(i) PROVE OneHolder'
  BY <1>12 DEF CoreTakes
<1>13. ASSUME NEW i \in Intent, CoreRefuses(i) PROVE OneHolder'
  BY <1>13 DEF CoreRefuses
<1>14. ASSUME NEW i \in Intent, CoreAdvances(i) PROVE OneHolder'
  BY <1>14 DEF CoreAdvances
<1>15. ASSUME NEW i \in Intent, GhostSubmits(i) PROVE OneHolder'
  BY <1>15 DEF GhostSubmits, HandOver
<1>16. CASE ClaimPage
  <2> DEFINE S == {i \in FirstOf(Listed) : MaySubmit(i)}
  <2>1. UNCHANGED <<code, task, sends, ghost>>
    BY <1>16 DEF ClaimPage
  <2>2. /\ st' = [i \in Intent |-> IF i \in S THEN "attempting" ELSE st[i]]
        /\ tried' = [i \in Intent |-> i \in S \/ tried[i]]
    BY <1>16 DEF ClaimPage
  <2>3. \A i \in Intent : i \notin S => item'[i].at # "cap"
    BY <1>16 DEF ClaimPage
  <2>4. \A i \in S : Claimable(i)
    BY DEF MaySubmit
  <2> HIDE DEF S
  <2>5. ASSUME NEW j \in Intent
        PROVE  /\ PageHolds(j)' => j \in S
               /\ j \in S => Claimed(j)'
               /\ j \notin S => (Claimed(j)' <=> Claimed(j))
               /\ DrainHolds(j)' <=> DrainHolds(j)
    BY <2>1, <2>2, <2>3
  <2> QED
    BY <2>1, <2>4, <2>5
<1>17. CASE CompletePage
  <2>1. item' = [j \in Intent |-> Idle] /\ UNCHANGED <<tried, task, sends, ghost, wire, core>>
    BY <1>17 DEF CompletePage, EndPage
  <2>2. ASSUME NEW j \in Intent
        PROVE  /\ Holds(j)' => Holds(j)
               /\ DrainHolds(j)' => DrainHolds(j)
               /\ ~PageHolds(j)'
               /\ Claimed(j) /\ (Holds(j) \/ sends[j] > 0) => Claimed(j)'
    <3>1. /\ Holds(j)' => Holds(j)
          /\ DrainHolds(j)' => DrainHolds(j)
          /\ ~PageHolds(j)'
      BY <2>1
    <3>2. Claimed(j) /\ (Holds(j) \/ sends[j] > 0) => Claimed(j)'
      <4> HIDE DEF IndInv, TypeOK, OneHolder, PendingResultsAreSound, CoreAnswersTheCall, VerdictMatchesCore
      <4>1. \/ sends[j] = 0 /\ ~Holds(j)
            \/ /\ st'[j] \in {"absent", "recorded"} => st'[j] = st[j]
               /\ Claimable(j)' => Claimable(j)
        BY <1>17, ItemOutcome DEF ReceiptStates
      <4> QED
        BY <4>1, <2>1
    <3> QED
      BY <3>1, <3>2
  <2> QED
    BY <2>1, <2>2
<1>18. CASE RollBackPage
  BY <1>18 DEF RollBackPage, EndPage
<1>19. CASE PageFails
  BY <1>19 DEF PageFails, EndPage
<1>20. CASE RetryPage
  BY <1>20 DEF RetryPage
<1>21. CASE Restart
  BY <1>21 DEF Restart
<1>22. CASE UNCHANGED vars
  BY <1>22 DEF vars
<1> QED
  BY <1>1, <1>2, <1>3, <1>4, <1>5, <1>6, <1>7, <1>8, <1>9, <1>10, <1>11, <1>12, <1>13, <1>14, <1>15, <1>16, <1>17, <1>18, <1>19, <1>20, <1>21, <1>22 DEF Next, IntentStep

\* Every step keeps what is in flight sound.
LEMMA PendingStep == IndInv /\ [Next]_vars => PendingResultsAreSound'
<1> SUFFICES ASSUME IndInv, [Next]_vars PROVE PendingResultsAreSound'
  OBVIOUS
<1> USE DEF IndInv, TypeOK, OneHolder, PendingResultsAreSound, CoreAnswersTheCall, VerdictMatchesCore, Holds, DrainHolds, PageHolds, Claimed, Claimable, Idle, NoResult, Rejected, Uncertain, Receipt, durable, local, world, bounds
<1>1. ASSUME NEW i \in Intent, Admit(i) PROVE PendingResultsAreSound'
  BY <1>1 DEF Admit
<1>2. ASSUME NEW i \in Intent, DrainClaims(i) PROVE PendingResultsAreSound'
  BY <1>2 DEF DrainClaims
<1>3. ASSUME NEW i \in Intent, DrainFailsCapability(i) PROVE PendingResultsAreSound'
  BY <1>3 DEF DrainFailsCapability, CapabilityFailure, DrainRecords, StateAfter, CodeAfter, RcptAfter
<1>4. ASSUME NEW i \in Intent, DrainSubmits(i) PROVE PendingResultsAreSound'
  BY <1>4 DEF DrainSubmits, HandOver
<1>5. ASSUME NEW i \in Intent, DrainAnswered(i) PROVE PendingResultsAreSound'
  BY <1>5 DEF DrainAnswered, SubmitResults
<1>6. ASSUME NEW i \in Intent, DrainFinishes(i) PROVE PendingResultsAreSound'
  BY <1>6 DEF DrainFinishes, DrainRecords, StateAfter, CodeAfter, RcptAfter, CanAdopt
<1>7. ASSUME NEW i \in Intent, ItemFailsCapability(i) PROVE PendingResultsAreSound'
  BY <1>7 DEF ItemFailsCapability, CapabilityFailure, Resolve
<1>8. ASSUME NEW i \in Intent, ItemSubmits(i) PROVE PendingResultsAreSound'
  BY <1>8 DEF ItemSubmits, HandOver
<1>9. ASSUME NEW i \in Intent, ItemAnswered(i) PROVE PendingResultsAreSound'
  BY <1>9 DEF ItemAnswered, SubmitResults, Resolve
<1>10. ASSUME NEW i \in Intent, ItemQueried(i) PROVE PendingResultsAreSound'
  BY <1>10 DEF ItemQueried, Resolve
<1>11. ASSUME NEW i \in Intent, Observe(i) PROVE PendingResultsAreSound'
  BY <1>11 DEF Observe
<1>12. ASSUME NEW i \in Intent, CoreTakes(i) PROVE PendingResultsAreSound'
  BY <1>12 DEF CoreTakes
<1>13. ASSUME NEW i \in Intent, CoreRefuses(i) PROVE PendingResultsAreSound'
  BY <1>13 DEF CoreRefuses
<1>14. ASSUME NEW i \in Intent, CoreAdvances(i) PROVE PendingResultsAreSound'
  BY <1>14 DEF CoreAdvances
<1>15. ASSUME NEW i \in Intent, GhostSubmits(i) PROVE PendingResultsAreSound'
  BY <1>15 DEF GhostSubmits, HandOver
<1>16. CASE ClaimPage
  BY <1>16 DEF ClaimPage, MaySubmit, FirstOf, Listed
<1>17. CASE CompletePage
  <2>1. item' = [j \in Intent |-> Idle] /\ UNCHANGED <<tried, task, sends, ghost, wire, core>>
    BY <1>17 DEF CompletePage, EndPage
  <2> QED
    BY <1>17, <2>1, ItemOutcome, HeldOrTaken DEF ReceiptStates
<1>18. CASE RollBackPage
  BY <1>18 DEF RollBackPage, EndPage
<1>19. CASE PageFails
  BY <1>19 DEF PageFails, EndPage
<1>20. CASE RetryPage
  BY <1>20 DEF RetryPage
<1>21. CASE Restart
  BY <1>21 DEF Restart
<1>22. CASE UNCHANGED vars
  BY <1>22 DEF vars
<1> QED
  BY <1>1, <1>2, <1>3, <1>4, <1>5, <1>6, <1>7, <1>8, <1>9, <1>10, <1>11, <1>12, <1>13, <1>14, <1>15, <1>16, <1>17, <1>18, <1>19, <1>20, <1>21, <1>22 DEF Next, IntentStep

\* Every step keeps the request and Core's record in agreement.
LEMMA CoreStep == IndInv /\ [Next]_vars => CoreAnswersTheCall'
<1> SUFFICES ASSUME IndInv, [Next]_vars PROVE CoreAnswersTheCall'
  OBVIOUS
<1> USE DEF IndInv, TypeOK, OneHolder, PendingResultsAreSound, CoreAnswersTheCall, VerdictMatchesCore, Holds, DrainHolds, PageHolds, Claimed, Claimable, Idle, NoResult, Rejected, Uncertain, Receipt, durable, local, world, bounds
<1>1. ASSUME NEW i \in Intent, Admit(i) PROVE CoreAnswersTheCall'
  BY <1>1 DEF Admit
<1>2. ASSUME NEW i \in Intent, DrainClaims(i) PROVE CoreAnswersTheCall'
  BY <1>2 DEF DrainClaims
<1>3. ASSUME NEW i \in Intent, DrainFailsCapability(i) PROVE CoreAnswersTheCall'
  BY <1>3 DEF DrainFailsCapability, CapabilityFailure, DrainRecords, StateAfter, CodeAfter, RcptAfter
<1>4. ASSUME NEW i \in Intent, DrainSubmits(i) PROVE CoreAnswersTheCall'
  BY <1>4 DEF DrainSubmits, HandOver
<1>5. ASSUME NEW i \in Intent, DrainAnswered(i) PROVE CoreAnswersTheCall'
  BY <1>5 DEF DrainAnswered, SubmitResults
<1>6. ASSUME NEW i \in Intent, DrainFinishes(i) PROVE CoreAnswersTheCall'
  <2>1. \A j \in Intent \ {i} :
            st'[j] = st[j] /\ code'[j] = code[j] /\ rcpt'[j] = rcpt[j] /\ task'[j] = task[j]
    BY <1>6 DEF DrainFinishes, DrainRecords, IndInv, TypeOK
  <2>2. task'[i] = Idle /\ UNCHANGED <<tried, item, sends, ghost, wire, core>>
    BY <1>6 DEF DrainFinishes, IndInv, TypeOK, world
  <2> HIDE DEF IndInv, OneHolder, PendingResultsAreSound, TypeOK, VerdictMatchesCore
  <2>3. /\ rcpt'[i] = "none" => st'[i] # "prepared"
        /\ rcpt'[i] # "none" => core[i] # "none"
    BY <1>6, DrainOutcome DEF IndInv, ReceiptStates
  <2> QED
    BY <2>1, <2>2, <2>3 DEF IndInv
<1>7. ASSUME NEW i \in Intent, ItemFailsCapability(i) PROVE CoreAnswersTheCall'
  BY <1>7 DEF ItemFailsCapability, CapabilityFailure, Resolve
<1>8. ASSUME NEW i \in Intent, ItemSubmits(i) PROVE CoreAnswersTheCall'
  BY <1>8 DEF ItemSubmits, HandOver
<1>9. ASSUME NEW i \in Intent, ItemAnswered(i) PROVE CoreAnswersTheCall'
  BY <1>9 DEF ItemAnswered, SubmitResults, Resolve
<1>10. ASSUME NEW i \in Intent, ItemQueried(i) PROVE CoreAnswersTheCall'
  BY <1>10 DEF ItemQueried, Resolve
<1>11. ASSUME NEW i \in Intent, Observe(i) PROVE CoreAnswersTheCall'
  BY <1>11 DEF Observe
<1>12. ASSUME NEW i \in Intent, CoreTakes(i) PROVE CoreAnswersTheCall'
  BY <1>12 DEF CoreTakes
<1>13. ASSUME NEW i \in Intent, CoreRefuses(i) PROVE CoreAnswersTheCall'
  BY <1>13 DEF CoreRefuses
<1>14. ASSUME NEW i \in Intent, CoreAdvances(i) PROVE CoreAnswersTheCall'
  BY <1>14 DEF CoreAdvances
<1>15. ASSUME NEW i \in Intent, GhostSubmits(i) PROVE CoreAnswersTheCall'
  BY <1>15 DEF GhostSubmits, HandOver
<1>16. CASE ClaimPage
  BY <1>16 DEF ClaimPage, MaySubmit, FirstOf, Listed
<1>17. CASE CompletePage
  <2>1. UNCHANGED <<sends, wire, core>>
    BY <1>17 DEF CompletePage
  <2> HIDE DEF IndInv, OneHolder, PendingResultsAreSound, TypeOK, VerdictMatchesCore
  <2>2. ASSUME NEW i \in Intent
        PROVE  /\ rcpt'[i] = "none" => st'[i] # "prepared"
               /\ rcpt'[i] # "none" => core[i] # "none"
    BY <1>17, ItemOutcome DEF IndInv, ReceiptStates
  <2> QED
    BY <2>1, <2>2 DEF IndInv
<1>18. CASE RollBackPage
  BY <1>18 DEF RollBackPage, EndPage
<1>19. CASE PageFails
  BY <1>19 DEF PageFails, EndPage
<1>20. CASE RetryPage
  BY <1>20 DEF RetryPage
<1>21. CASE Restart
  BY <1>21 DEF Restart
<1>22. CASE UNCHANGED vars
  BY <1>22 DEF vars
<1> QED
  BY <1>1, <1>2, <1>3, <1>4, <1>5, <1>6, <1>7, <1>8, <1>9, <1>10, <1>11, <1>12, <1>13, <1>14, <1>15, <1>16, <1>17, <1>18, <1>19, <1>20, <1>21, <1>22 DEF Next, IntentStep

\* Every step keeps the verdicts true.
LEMMA VerdictStep == IndInv /\ [Next]_vars => VerdictMatchesCore'
<1> SUFFICES ASSUME IndInv, [Next]_vars PROVE VerdictMatchesCore'
  OBVIOUS
<1> USE DEF IndInv, TypeOK, OneHolder, PendingResultsAreSound, CoreAnswersTheCall, VerdictMatchesCore, Holds, DrainHolds, PageHolds, Claimed, Claimable, Idle, NoResult, Rejected, Uncertain, Receipt, durable, local, world, bounds
<1>1. ASSUME NEW i \in Intent, Admit(i) PROVE VerdictMatchesCore'
  BY <1>1 DEF Admit
<1>2. ASSUME NEW i \in Intent, DrainClaims(i) PROVE VerdictMatchesCore'
  BY <1>2 DEF DrainClaims
<1>3. ASSUME NEW i \in Intent, DrainFailsCapability(i) PROVE VerdictMatchesCore'
  BY <1>3 DEF DrainFailsCapability, CapabilityFailure, DrainRecords, StateAfter, CodeAfter, RcptAfter
<1>4. ASSUME NEW i \in Intent, DrainSubmits(i) PROVE VerdictMatchesCore'
  <2>1. \A j \in Intent \ {i} : wire'[j] = wire[j]
    BY <1>4 DEF DrainSubmits, HandOver
  <2>2. st[i] \in {"attempting", "uncertain"}
    BY <1>4 DEF DrainSubmits
  <2> QED
    BY <1>4, <2>1, <2>2 DEF DrainSubmits
<1>5. ASSUME NEW i \in Intent, DrainAnswered(i) PROVE VerdictMatchesCore'
  BY <1>5 DEF DrainAnswered, SubmitResults
<1>6. ASSUME NEW i \in Intent, DrainFinishes(i) PROVE VerdictMatchesCore'
  <2>1. \A j \in Intent \ {i} :
            st'[j] = st[j] /\ code'[j] = code[j] /\ rcpt'[j] = rcpt[j] /\ task'[j] = task[j]
    BY <1>6 DEF DrainFinishes, DrainRecords, IndInv, TypeOK
  <2>2. task'[i] = Idle /\ UNCHANGED <<tried, item, sends, ghost, wire, core>>
    BY <1>6 DEF DrainFinishes, IndInv, TypeOK, world
  <2> QED
    BY SMTT(20), <1>6, <2>1, <2>2, DrainOutcome, HeldOrTaken DEF ReceiptStates
<1>7. ASSUME NEW i \in Intent, ItemFailsCapability(i) PROVE VerdictMatchesCore'
  BY <1>7 DEF ItemFailsCapability, CapabilityFailure, Resolve
<1>8. ASSUME NEW i \in Intent, ItemSubmits(i) PROVE VerdictMatchesCore'
  BY <1>8 DEF ItemSubmits, HandOver
<1>9. ASSUME NEW i \in Intent, ItemAnswered(i) PROVE VerdictMatchesCore'
  BY <1>9 DEF ItemAnswered, SubmitResults, Resolve
<1>10. ASSUME NEW i \in Intent, ItemQueried(i) PROVE VerdictMatchesCore'
  BY <1>10 DEF ItemQueried, Resolve
<1>11. ASSUME NEW i \in Intent, Observe(i) PROVE VerdictMatchesCore'
  BY <1>11 DEF Observe
<1>12. ASSUME NEW i \in Intent, CoreTakes(i) PROVE VerdictMatchesCore'
  BY <1>12 DEF CoreTakes
<1>13. ASSUME NEW i \in Intent, CoreRefuses(i) PROVE VerdictMatchesCore'
  BY <1>13 DEF CoreRefuses
<1>14. ASSUME NEW i \in Intent, CoreAdvances(i) PROVE VerdictMatchesCore'
  BY <1>14 DEF CoreAdvances
<1>15. ASSUME NEW i \in Intent, GhostSubmits(i) PROVE VerdictMatchesCore'
  BY <1>15 DEF GhostSubmits, HandOver
<1>16. CASE ClaimPage
  BY <1>16 DEF ClaimPage, MaySubmit, FirstOf, Listed
<1>17. CASE CompletePage
  <2>1. UNCHANGED <<sends, ghost, wire, core>>
    BY <1>17 DEF CompletePage
  <2>2. ASSUME NEW i \in Intent
        PROVE  /\ st'[i] \in {"prepared", "observed", "terminal"} => core[i] # "none"
               /\ st'[i] = "cancelled" /\ rcpt'[i] = "none" =>
                      core[i] = "none" /\ wire[i] # "sent" /\ i \notin ghost
    <3>1. /\ st[i] \in {"prepared", "observed", "terminal"} => core[i] # "none"
          /\ st[i] = "cancelled" /\ rcpt[i] = "none" =>
                 core[i] = "none" /\ wire[i] # "sent" /\ i \notin ghost
      OBVIOUS
    <3>2. sends[i] = 0 => wire[i] = "none" /\ core[i] = "none"
      OBVIOUS
    <3>3. i \in ghost => Holds(i)
      OBVIOUS
    <3> HIDE DEF IndInv, TypeOK, OneHolder, PendingResultsAreSound, CoreAnswersTheCall, VerdictMatchesCore, Holds
    <3> QED
      BY <1>17, <3>1, <3>2, <3>3, ItemOutcome, HeldOrTaken DEF ReceiptStates
  <2> QED
    BY <2>1, <2>2
<1>18. CASE RollBackPage
  BY <1>18 DEF RollBackPage, EndPage
<1>19. CASE PageFails
  BY <1>19 DEF PageFails, EndPage
<1>20. CASE RetryPage
  BY <1>20 DEF RetryPage
<1>21. CASE Restart
  BY <1>21 DEF Restart
<1>22. CASE UNCHANGED vars
  BY <1>22 DEF vars
<1> QED
  BY <1>1, <1>2, <1>3, <1>4, <1>5, <1>6, <1>7, <1>8, <1>9, <1>10, <1>11, <1>12, <1>13, <1>14, <1>15, <1>16, <1>17, <1>18, <1>19, <1>20, <1>21, <1>22 DEF Next, IntentStep

\* A step never reopens a settled intent and never takes an observed one back.
LEMMA SettledStep ==
    ASSUME IndInv, [Next]_vars, NEW i \in Intent
    PROVE  /\ st[i] \in {"terminal", "cancelled"} => st'[i] = st[i]
           /\ st[i] = "observed" => st'[i] \in {"observed", "terminal", "cancelled"}
<1> DEFINE Goal == /\ st[i] \in {"terminal", "cancelled"} => st'[i] = st[i]
                   /\ st[i] = "observed" => st'[i] \in {"observed", "terminal", "cancelled"}
<1>1. ASSUME NEW s \in ReceiptStates, CanAdopt(i, s), st'[i] = s PROVE Goal
  BY <1>1 DEF CanAdopt, Rank, ReceiptStates
<1>2. ASSUME NEW k \in Intent, DrainFinishes(k) PROVE Goal
  <2>1. CASE k = i
    BY <1>1, <1>2, <2>1, DrainOutcome
  <2>2. CASE k # i
    BY <1>2, <2>2 DEF DrainFinishes, DrainRecords, IndInv, TypeOK
  <2> QED
    BY <2>1, <2>2
<1>3. CASE CompletePage
  BY <1>1, <1>3, ItemOutcome
<1>4. ASSUME NEW k \in Intent, DrainFailsCapability(k) PROVE Goal
  <2>1. st[k] \in {"attempting", "uncertain"}
    BY <1>4 DEF DrainFailsCapability, IndInv, PendingResultsAreSound, DrainHolds
  <2> QED
    BY <1>4, <2>1 DEF DrainFailsCapability, DrainRecords, IndInv, TypeOK
<1>5. CASE ClaimPage
  BY <1>5 DEF ClaimPage, MaySubmit
<1>6. ASSUME NEW k \in Intent, Admit(k) \/ DrainClaims(k) \/ Observe(k) PROVE Goal
  BY <1>6 DEF Admit, DrainClaims, Observe, Claimable, IndInv, TypeOK
<1>7. ASSUME UNCHANGED st PROVE Goal
  BY <1>7
<1> QED
  BY <1>2, <1>3, <1>4, <1>5, <1>6, <1>7 DEF Next, IntentStep, DrainSubmits, DrainAnswered,
     ItemFailsCapability, ItemSubmits, ItemAnswered, ItemQueried, CoreTakes, CoreRefuses,
     CoreAdvances, GhostSubmits, RollBackPage, PageFails, RetryPage, Restart, vars, durable, local, world, bounds

\* The invariant is inductive.
THEOREM Invariant == Spec => []IndInv
<1>1. IndInv /\ [Next]_vars => IndInv'
  BY TypeStep, HolderStep, PendingStep, CoreStep, VerdictStep DEF IndInv
<1> QED
  BY <1>1, InitInv, PTL DEF Spec

\* Every reachable ledger, page and request has its type.
THEOREM TypeCorrect == Spec => []TypeOK
<1>1. IndInv => TypeOK
  BY DEF IndInv
<1> QED
  BY <1>1, Invariant, PTL

\* The body of an intent is handed to Core at most once, for any number of
\* intents, restarts and failing pages.
THEOREM SubmitsOnce == Spec => []AtMostOneSubmit
<1>1. IndInv => AtMostOneSubmit
  <2> SUFFICES ASSUME IndInv, NEW i \in Intent PROVE sends[i] <= 1
    BY DEF AtMostOneSubmit
  <2>1. sends[i] \in Nat
    BY DEF IndInv, TypeOK
  <2> QED
    BY <2>1 DEF IndInv, OneHolder
<1> QED
  BY <1>1, Invariant, PTL

\* A body that was or may still be handed over is behind a durable claim.
THEOREM AttemptIsDurable == Spec => []EffectIsBehindAttempt
<1>1. IndInv => EffectIsBehindAttempt
  BY DEF IndInv, OneHolder, EffectIsBehindAttempt, Holds, Claimed
<1> QED
  BY <1>1, Invariant, PTL

\* The durable verdict never contradicts what Core did.
THEOREM VerdictIsSound == Spec => []VerdictMatchesCore
<1>1. IndInv => VerdictMatchesCore
  BY DEF IndInv
<1> QED
  BY <1>1, Invariant, PTL

\* Settled intents stay settled.
THEOREM SettledStays == Spec => SettledNeverReopens
<1>1. IndInv /\ [Next]_vars =>
        [\A i \in Intent :
           /\ st[i] \in {"terminal", "cancelled"} => st'[i] = st[i]
           /\ st[i] = "observed" => st'[i] \in {"observed", "terminal", "cancelled"}]_vars
  BY SettledStep
<1> QED
  BY <1>1, Invariant, PTL DEF Spec, SettledNeverReopens
-----------------------------------------------------------------------------
(* Agent Input implements InputOnce.                                        *)

\* The abstract step of one intent, in terms of the mapped variables.
AbstractStep(i) ==
    \/ sends'[i] = sends[i] /\ CoreOutcome(i)' = CoreOutcome(i) /\ Verdict(i)' = Verdict(i)
    \/ /\ sends[i] = 0 /\ Verdict(i) # "refused" /\ sends'[i] = 1
       /\ CoreOutcome(i)' = CoreOutcome(i) /\ Verdict(i)' = Verdict(i)
    \/ /\ sends[i] = 1 /\ CoreOutcome(i) = "none"
       /\ CoreOutcome(i)' \in {"taken", "declined"}
       /\ sends'[i] = sends[i] /\ Verdict(i)' = Verdict(i)
    \/ /\ CoreOutcome(i) = "taken" /\ Verdict(i) = "open" /\ Verdict(i)' = "accepted"
       /\ sends'[i] = sends[i] /\ CoreOutcome(i)' = CoreOutcome(i)
    \/ /\ sends[i] = 0 \/ CoreOutcome(i) = "declined"
       /\ Verdict(i) = "open" /\ Verdict(i)' = "refused"
       /\ sends'[i] = sends[i] /\ CoreOutcome(i)' = CoreOutcome(i)

\* A hand-over by whoever holds the right is the abstract call.
LEMMA HandOverIsCall ==
    ASSUME IndInv, NEW i \in Intent, Holds(i),
           sends'[i] = sends[i] + 1, wire'[i] = "sent", core'[i] = core[i],
           st'[i] = st[i], rcpt'[i] = rcpt[i]
    PROVE  AbstractStep(i)
<1>1. sends[i] = 0 /\ wire[i] = "none" /\ core[i] = "none" /\ rcpt[i] = "none"
  BY DEF IndInv, OneHolder, CoreAnswersTheCall
<1>2. st[i] # "cancelled"
  BY <1>1 DEF IndInv, VerdictMatchesCore, PendingResultsAreSound, Holds
<1> QED
  BY <1>1, <1>2 DEF AbstractStep, CoreOutcome, Verdict

\* The verdict is a function of the row, the outcome of Core's side.
LEMMA RowStep ==
    ASSUME IndInv, NEW i \in Intent,
           sends'[i] = sends[i], wire'[i] = wire[i], core'[i] = core[i],
           \/ st'[i] \in ReceiptStates /\ rcpt'[i] = st'[i] /\ core[i] # "none" /\ CanAdopt(i, st'[i])
           \/ /\ st'[i] = "cancelled" /\ rcpt'[i] = rcpt[i] /\ st[i] = "attempting"
              /\ wire[i] = "refused" \/ sends[i] = 0
           \/ /\ st'[i] = "uncertain" /\ rcpt'[i] = rcpt[i]
              /\ st[i] \in {"attempting", "prepared", "uncertain"}
           \/ /\ st'[i] = "observed" /\ rcpt'[i] = rcpt[i] /\ core[i] # "none"
              /\ st[i] \in {"attempting", "prepared", "uncertain"}
           \/ /\ st'[i] \in {"recorded", "attempting"} /\ rcpt'[i] = rcpt[i]
              /\ st[i] \in {"absent", "recorded", "uncertain"}
           \/ st'[i] = st[i] /\ rcpt'[i] = rcpt[i]
    PROVE  AbstractStep(i)
<1>1. /\ rcpt[i] # "none" => core[i] # "none"
      /\ st[i] = "prepared" => rcpt[i] # "none"
      /\ wire[i] = "refused" => core[i] = "none"
      /\ sends[i] = 0 => core[i] = "none"
      /\ st[i] = "cancelled" /\ rcpt[i] = "none" => core[i] = "none"
  BY DEF IndInv, CoreAnswersTheCall, VerdictMatchesCore
<1>2. CoreOutcome(i)' = CoreOutcome(i)
  BY DEF CoreOutcome
<1> QED
  BY <1>1, <1>2 DEF AbstractStep, CoreOutcome, Verdict, ReceiptStates

\* Every step of the ledger, of a call or of Core is an abstract step of every
\* intent.
LEMMA StepRefines ==
    ASSUME IndInv, [Next]_vars, NEW j \in Intent
    PROVE  AbstractStep(j)
<1> USE DEF durable, local, world, bounds
<1>1. ASSUME NEW i \in Intent, Admit(i) \/ DrainClaims(i) \/ Observe(i) PROVE AbstractStep(j)
  <2>1. /\ sends' = sends /\ wire' = wire /\ core' = core /\ rcpt' = rcpt
        /\ i # j => st'[j] = st[j]
    BY <1>1 DEF Admit, DrainClaims, Observe, IndInv, TypeOK
  <2>2. i = j =>
            \/ st'[j] \in {"recorded", "attempting"} /\ st[j] \in {"absent", "recorded", "uncertain"}
            \/ /\ st'[j] = "observed" /\ core[j] # "none"
               /\ st[j] \in {"attempting", "prepared", "uncertain"}
    BY <1>1 DEF Admit, DrainClaims, Observe, Claimable, IndInv, TypeOK
  <2> QED
    BY <2>1, <2>2, RowStep
<1>2. ASSUME NEW i \in Intent, DrainFailsCapability(i) PROVE AbstractStep(j)
  <2>1. st[i] \in {"attempting", "uncertain"} /\ sends[i] = 0
    BY <1>2 DEF DrainFailsCapability, IndInv, PendingResultsAreSound, OneHolder, Holds, DrainHolds
  <2>2. /\ sends' = sends /\ wire' = wire /\ core' = core
        /\ i # j => st'[j] = st[j] /\ rcpt'[j] = rcpt[j]
    BY <1>2 DEF DrainFailsCapability, DrainRecords, IndInv, TypeOK
  <2>3. \/ st'[i] = "cancelled" /\ st[i] = "attempting" /\ rcpt'[i] = rcpt[i]
        \/ st'[i] \in {st[i], "uncertain"} /\ rcpt'[i] = rcpt[i]
    BY <1>2 DEF DrainFailsCapability, CapabilityFailure, DrainRecords, StateAfter, RcptAfter,
       Rejected, Uncertain, IndInv, TypeOK
  <2> QED
    BY <2>1, <2>2, <2>3, RowStep
<1>3. ASSUME NEW i \in Intent, DrainFinishes(i) PROVE AbstractStep(j)
  <2>1. /\ sends' = sends /\ wire' = wire /\ core' = core
        /\ i # j => st'[j] = st[j] /\ rcpt'[j] = rcpt[j]
    BY <1>3 DEF DrainFinishes, DrainRecords, IndInv, TypeOK
  <2>2. CASE i # j
    BY <2>1, <2>2, RowStep
  <2>3. CASE i = j
    BY <1>3, <2>1, <2>3, DrainOutcome, RowStep
  <2> QED
    BY <2>2, <2>3
<1>4. CASE CompletePage
  <2>1. sends' = sends /\ wire' = wire /\ core' = core
    BY <1>4 DEF CompletePage
  <2> QED
    BY <1>4, <2>1, ItemOutcome, RowStep
<1>5. CASE ClaimPage
  <2>1. /\ sends' = sends /\ wire' = wire /\ core' = core /\ rcpt' = rcpt
        /\ \/ st'[j] = st[j]
           \/ st'[j] = "attempting" /\ st[j] \in {"recorded", "uncertain"}
    BY <1>5 DEF ClaimPage, MaySubmit
  <2> QED
    BY <2>1, RowStep
<1>6. ASSUME NEW i \in Intent, DrainSubmits(i) \/ ItemSubmits(i) \/ GhostSubmits(i)
      PROVE  AbstractStep(j)
  <2>1. /\ st' = st /\ rcpt' = rcpt /\ core' = core /\ Holds(i)
        /\ i # j => sends'[j] = sends[j] /\ wire'[j] = wire[j]
        /\ sends'[i] = sends[i] + 1 /\ wire'[i] = "sent"
    BY <1>6 DEF DrainSubmits, ItemSubmits, GhostSubmits, HandOver, Holds, DrainHolds,
       PageHolds, IndInv, TypeOK
  <2> QED
    BY <2>1, HandOverIsCall, RowStep
<1>7. ASSUME NEW i \in Intent, CoreTakes(i) \/ CoreRefuses(i) \/ CoreAdvances(i)
      PROVE  AbstractStep(j)
  <2>1. st' = st /\ rcpt' = rcpt /\ sends' = sends
    BY <1>7 DEF CoreTakes, CoreRefuses, CoreAdvances
  <2>2. i # j => wire'[j] = wire[j] /\ core'[j] = core[j]
    BY <1>7 DEF CoreTakes, CoreRefuses, CoreAdvances, IndInv, TypeOK
  <2>3. \/ wire[i] = "sent" /\ core'[i] = "prepared"
        \/ wire[i] = "sent" /\ wire'[i] = "refused" /\ core'[i] = core[i]
        \/ core[i] # "none" /\ core'[i] # "none"
    BY <1>7 DEF CoreTakes, CoreRefuses, CoreAdvances, IndInv, TypeOK
  <2>4. wire[i] = "sent" => sends[i] = 1 /\ core[i] = "none"
    <3>1. sends[i] \in Nat
      BY DEF IndInv, TypeOK
    <3> QED
      BY <3>1 DEF IndInv, CoreAnswersTheCall, OneHolder
  <2>5. Verdict(j)' = Verdict(j)
    BY <2>1 DEF Verdict
  <2> QED
    BY <2>1, <2>2, <2>3, <2>4, <2>5 DEF AbstractStep, CoreOutcome
<1>8. ASSUME UNCHANGED <<st, rcpt, sends, wire, core>> PROVE AbstractStep(j)
  BY <1>8, RowStep
<1> QED
  BY <1>1, <1>2, <1>3, <1>4, <1>5, <1>6, <1>7, <1>8 DEF Next, IntentStep, DrainAnswered,
     ItemFailsCapability, ItemAnswered, ItemQueried, RollBackPage, PageFails, RetryPage,
     Restart, vars

\* Agent Input implements InputOnce: at most one hand-over, and a verdict that
\* never contradicts Core, step by step.
THEOREM Refinement == Spec => ImplementsInputOnce
<1>1. Init => Once!Init
  BY DEF Init, Once!Init, CoreOutcome, Verdict
<1>2. IndInv /\ IndInv' /\ [Next]_vars =>
          [Once!Next]_<<sends, [i \in Intent |-> CoreOutcome(i)], [i \in Intent |-> Verdict(i)]>>
  <2> SUFFICES ASSUME IndInv, IndInv', [Next]_vars PROVE Once!Next
    OBVIOUS
  <2>1. sends' \in [Intent -> 0 .. 1]
    BY DEF IndInv, TypeOK, OneHolder
  <2>2. /\ [i \in Intent |-> CoreOutcome(i)]' \in [Intent -> {"none", "taken", "declined"}]
        /\ [i \in Intent |-> Verdict(i)]' \in [Intent -> {"open", "accepted", "refused"}]
    BY DEF CoreOutcome, Verdict
  <2>3. ASSUME NEW i \in Intent
        PROVE  Once!Stay(i) \/ Once!Call(i) \/ Once!Answer(i) \/ Once!Accept(i) \/ Once!Refuse(i)
    <3>1. AbstractStep(i)
      BY StepRefines
    <3> QED
      BY <3>1 DEF AbstractStep, Once!Stay, Once!Call, Once!Answer, Once!Accept, Once!Refuse
  <2> QED
    BY <2>1, <2>2, <2>3 DEF Once!Next
<1> QED
  BY <1>1, <1>2, Invariant, PTL DEF Spec, ImplementsInputOnce, Once!Spec
-----------------------------------------------------------------------------
(* The scan.                                                                *)

\* Intents an attempt was begun for; none of them is ever 'recorded' again.
Begun(i) == st[i] \notin {"absent", "recorded"}

\* Intents are admitted in order, and an attempt is noted on begun ones only.
AdmittedInOrder ==
    \A i \in Intent :
        /\ tried[i] => Begun(i)
        /\ Begun(i) \/ st[i] = "recorded" => \A j \in Intent : j < i => st[j] # "absent"

\* The cutoff of a scan lies within what was admitted, and all intents that the
\* cursor, the page or a finished scan has passed were begun.
PassedAreBegun ==
    \A i \in Intent :
        /\ scan.on /\ i <= scan.cutoff => st[i] # "absent"
        /\ i <= scan.after => Begun(i)
        /\ i <= page.next => Begun(i)
        /\ rec = "page" /\ ~page.more /\ i <= page.cutoff => Begun(i)
        /\ i <= swept => Begun(i)

ScanInv == AdmittedInOrder /\ PassedAreBegun

\* The cutoff that a new scan takes lies within what was admitted.
LEMMA CutoffIsAdmitted ==
    ASSUME TypeOK, ScanInv, NEW i \in Intent, i <= Cutoff
    PROVE  st[i] # "absent"
<1>1. CASE scan.on
  BY <1>1 DEF Cutoff, ScanInv, PassedAreBegun
<1>2. CASE ~scan.on
  <2> SUFFICES ASSUME st[i] = "absent" PROVE FALSE
    OBVIOUS
  <2>1. i \in Nat \ {0} /\ \A j \in Intent : j \in Nat \ {0}
    BY IntentAssumption
  <2>2. ASSUME NEW j \in Admitted PROVE j \in 1 .. i - 1
    <3>1. j \in Intent /\ st[j] # "absent" /\ (Begun(j) \/ st[j] = "recorded")
      BY <2>2 DEF Admitted, Begun
    <3>2. ~(i < j) /\ i # j
      BY <3>1 DEF ScanInv, AdmittedInOrder
    <3> QED
      BY <2>1, <3>1, <3>2
  <2>3. IsFiniteSet(1 .. i - 1) /\ Cardinality(1 .. i - 1) = i - 1
    BY <2>1, FS_Interval
  <2>4. Admitted \subseteq 1 .. i - 1
    BY <2>2
  <2>5. Cardinality(Admitted) <= i - 1
    BY <2>3, <2>4, FS_Subset
  <2>6. Cutoff = Cardinality(Admitted) /\ Cutoff \in Nat
    BY <1>2, CutoffType DEF Cutoff
  <2> QED
    BY <2>1, <2>5, <2>6
<1> QED
  BY <1>1, <1>2

\* What lies before a listed row of the page is on the page too.
LEMMA PageIsPrefix ==
    ASSUME TypeOK, NEW i \in Listed, NEW n \in FirstOf(Listed), i <= n
    PROVE  i \in FirstOf(Listed)
<1> DEFINE Before(k) == {j \in Listed : j < k}
<1>1. IsFiniteSet(Listed) /\ \A j \in Listed : j \in Nat
  BY IntentAssumption, FS_Subset DEF Listed
<1>2. n \in Listed /\ Cardinality(Before(n)) < PageLimit
  BY DEF FirstOf
<1>3. Before(i) \subseteq Before(n)
  BY <1>1, <1>2
<1>4. IsFiniteSet(Before(n))
  BY <1>1, FS_Subset
<1>5. IsFiniteSet(Before(i)) /\ Cardinality(Before(i)) <= Cardinality(Before(n))
  BY <1>3, <1>4, FS_Subset
<1>6. Cardinality(Before(i)) \in Nat /\ Cardinality(Before(n)) \in Nat
  BY <1>4, <1>5, FS_CardinalityType
<1>7. Cardinality(Before(i)) < PageLimit
  BY <1>2, <1>5, <1>6, IntentAssumption
<1> QED
  BY <1>7 DEF FirstOf

\* No step takes a begun intent back, or notes an attempt without beginning one.
LEMMA BegunStays ==
    ASSUME IndInv, ScanInv, [Next]_vars, NEW i \in Intent
    PROVE  /\ Begun(i) => Begun(i)'
           /\ tried'[i] => Begun(i)'
           /\ st[i] # "absent" => st'[i] # "absent"
           /\ st'[i] # "absent" => st[i] # "absent" \/ \A j \in Intent : j < i => st[j] # "absent"
<1> DEFINE Goal == /\ Begun(i) => Begun(i)'
                   /\ tried'[i] => Begun(i)'
                   /\ st[i] # "absent" => st'[i] # "absent"
                   /\ st'[i] # "absent" =>
                        st[i] # "absent" \/ \A j \in Intent : j < i => st[j] # "absent"
<1>0. TypeOK /\ (tried[i] => Begun(i))
  BY DEF IndInv, ScanInv, AdmittedInOrder
<1>1. ASSUME NEW k \in Intent, Admit(k) PROVE Goal
  BY <1>0, <1>1 DEF Admit, TypeOK, Begun
<1>2. ASSUME NEW k \in Intent, DrainClaims(k) PROVE Goal
  BY <1>0, <1>2 DEF DrainClaims, TypeOK, Begun, Claimable
<1>3. ASSUME NEW k \in Intent, DrainFailsCapability(k) PROVE Goal
  <2>1. PICK r \in {Rejected, Uncertain("typed")} : DrainRecords(k, r)
    BY <1>3 DEF DrainFailsCapability, CapabilityFailure
  <2>2. st[k] \in {"attempting", "uncertain"}
    BY <1>3 DEF DrainFailsCapability, IndInv, PendingResultsAreSound, DrainHolds
  <2>3. tried' = tried
    BY <1>3 DEF DrainFailsCapability
  <2>4. \/ UNCHANGED st \/ st' = [st EXCEPT ![k] = "cancelled"]
        \/ st' = [st EXCEPT ![k] = "uncertain"]
    BY <2>1 DEF DrainRecords, StateAfter, Rejected, Uncertain
  <2> QED
    BY <1>0, <2>2, <2>3, <2>4 DEF TypeOK, Begun
<1>4. ASSUME NEW k \in Intent, DrainFinishes(k) PROVE Goal
  <2>1. task[k].res \in Results /\ task[k].at = "reply" /\ tried' = tried
    BY <1>4 DEF DrainFinishes, IndInv, TypeOK
  <2>2. sends[k] > 0 /\ Begun(k)
    BY <2>1 DEF IndInv, PendingResultsAreSound, OneHolder, Claimed, Begun
  <2>3. st' \in [Intent -> States] /\ (i # k => st'[i] = st[i])
    <3>1. DrainRecords(k, task[k].res)
      BY <1>4 DEF DrainFinishes
    <3>2. st' \in [Intent -> States]
      BY <3>1, <2>1, <1>0, DrainRecordsType
    <3> QED
      BY <3>1, <3>2, <1>0 DEF DrainRecords, TypeOK
  <2>4. st'[k] = st[k] \/ st'[k] \in ReceiptStates \cup {"cancelled", "uncertain"}
    BY <1>4, DrainOutcome
  <2> QED
    BY <1>0, <2>1, <2>2, <2>3, <2>4 DEF Begun, ReceiptStates
<1>5. ASSUME NEW k \in Intent, Observe(k) PROVE Goal
  BY <1>0, <1>5 DEF Observe, TypeOK, Begun
<1>6. CASE ClaimPage
  <2> DEFINE submits == {k \in FirstOf(Listed) : MaySubmit(k)}
  <2>1. st' = [k \in Intent |-> IF k \in submits THEN "attempting" ELSE st[k]]
        /\ tried' = [k \in Intent |-> k \in submits \/ tried[k]]
    BY <1>6 DEF ClaimPage
  <2>2. i \in submits => st[i] # "absent"
    BY DEF FirstOf, Listed
  <2> HIDE DEF submits
  <2> QED
    BY <1>0, <2>1, <2>2 DEF Begun
<1>7. CASE CompletePage
  <2>1. tried' = tried /\ st'[i] = IF i \in page.items THEN StateAfter(i, item[i].res) ELSE st[i]
    BY <1>7 DEF CompletePage
  <2>2. i \in page.items => st'[i] \in ReceiptStates \cup {"cancelled", "uncertain"}
                            /\ st[i] # "absent"
    <3> SUFFICES ASSUME i \in page.items
                 PROVE  st'[i] \in ReceiptStates \cup {"cancelled", "uncertain"} /\ st[i] # "absent"
      OBVIOUS
    <3>1. item[i].res \in Results /\ Applies(i)
      BY <1>7, <1>0 DEF CompletePage, TypeOK
    <3>2. StateAfter(i, item[i].res) \in ReceiptStates \cup {"cancelled", "uncertain"}
      BY <3>1 DEF StateAfter, Results, NoResult
    <3>3. st[i] # "absent"
      BY <3>1 DEF Applies, CanAdopt
    <3> QED
      BY <2>1, <3>2, <3>3
  <2> QED
    BY <1>0, <2>1, <2>2 DEF Begun, ReceiptStates
<1>8. ASSUME UNCHANGED <<st, tried>> PROVE Goal
  BY <1>0, <1>8 DEF Begun
<1> QED
  BY <1>1, <1>2, <1>3, <1>4, <1>5, <1>6, <1>7, <1>8 DEF Next, IntentStep, DrainSubmits,
     DrainAnswered, ItemFailsCapability, ItemSubmits, ItemAnswered, ItemQueried, CoreTakes,
     CoreRefuses, CoreAdvances, GhostSubmits, RollBackPage, PageFails, RetryPage, Restart,
     durable, vars

\* A claimed page passes only intents that were begun or are on it; its last
\* page leaves nothing 'recorded' up to the cutoff.
LEMMA ClaimedPage ==
    ASSUME IndInv, ScanInv, ClaimPage, NEW i \in Intent
    PROVE  /\ i <= page'.next => Begun(i)'
           /\ ~page'.more /\ i <= page'.cutoff => Begun(i)'
<1> DEFINE items == FirstOf(Listed)
           submits == {k \in items : MaySubmit(k)}
<1>0. TypeOK /\ (tried[i] => Begun(i)) /\ i \in Nat \ {0}
  BY IntentAssumption DEF IndInv, ScanInv, AdmittedInOrder
<1>1. /\ st' = [k \in Intent |-> IF k \in submits THEN "attempting" ELSE st[k]]
      /\ IsNextCursor(page'.next, items)
      /\ page'.more = (items # Listed) /\ page'.cutoff = Cutoff
  BY DEF ClaimPage
<1>2. Cutoff \in Nat /\ scan.after \in Nat /\ (scan.on => scan.cutoff = Cutoff)
  BY <1>0, CutoffType DEF TypeOK, Cutoff
<1>3. i \in items => Begun(i)'
  <2>1. i \in items => st[i] \in {"recorded", "attempting", "prepared", "uncertain"}
    BY DEF FirstOf, Listed
  <2>2. st[i] = "recorded" /\ i \in items => i \in submits
    BY <1>0 DEF MaySubmit, Begun
  <2> HIDE DEF items, submits
  <2> QED
    BY <1>1, <2>1, <2>2 DEF Begun
<1>4. Begun(i) => Begun(i)'
  <2> HIDE DEF submits
  <2> QED
    BY <1>1 DEF Begun
<1>5. i <= scan.after => Begun(i)
  BY DEF ScanInv, PassedAreBegun
<1>6. ASSUME i <= Cutoff, ~Begun(i) PROVE i \in Listed
  <2>1. st[i] = "recorded"
    BY <1>6, <1>0, CutoffIsAdmitted DEF Begun
  <2>2. ~(i <= scan.after)
    BY <1>5, <1>6
  <2> QED
    BY <2>1, <2>2, <1>0, <1>2, <1>6 DEF Listed
<1>7. ASSUME i <= page'.next PROVE Begun(i)'
  <2>1. CASE items = {}
    <3>1. page'.next = scan.after
      BY <1>1, <2>1 DEF IsNextCursor
    <3> QED
      BY <3>1, <1>4, <1>5, <1>7
  <2>2. CASE items # {}
    <3>1. page'.next \in items
      BY <1>1, <2>2 DEF IsNextCursor
    <3>2. page'.next \in Nat /\ page'.next <= Cutoff
      BY <3>1, IntentAssumption DEF FirstOf, Listed
    <3>3. i <= Cutoff
      BY <1>0, <1>2, <1>7, <3>2
    <3>4. CASE Begun(i)
      BY <3>4, <1>4
    <3>5. CASE ~Begun(i)
      <4>1. i \in items
        BY <3>5, <3>1, <3>3, <1>0, <1>6, <1>7, PageIsPrefix
      <4> QED
        BY <4>1, <1>3
    <3> QED
      BY <3>4, <3>5
  <2> QED
    BY <2>1, <2>2
<1>8. ASSUME ~page'.more, i <= page'.cutoff PROVE Begun(i)'
  <2>1. items = Listed /\ i <= Cutoff
    BY <1>1, <1>8
  <2> QED
    BY <2>1, <1>3, <1>4, <1>6
<1> QED
  BY <1>7, <1>8

\* The scan's part of the invariant is kept by every step.
LEMMA ScanStep == IndInv /\ ScanInv /\ [Next]_vars => ScanInv'
<1> SUFFICES ASSUME IndInv, ScanInv, [Next]_vars PROVE ScanInv'
  OBVIOUS
<1>0. TypeOK /\ \A i \in Intent : i \in Nat \ {0}
  BY IntentAssumption DEF IndInv
<1>1. AdmittedInOrder'
  <2> SUFFICES ASSUME NEW i \in Intent
               PROVE  /\ tried'[i] => Begun(i)'
                      /\ st'[i] # "absent" => \A j \in Intent : j < i => st'[j] # "absent"
    BY DEF AdmittedInOrder, Begun
  <2>1. tried'[i] => Begun(i)'
    BY BegunStays
  <2>2. ASSUME st'[i] # "absent", NEW j \in Intent, j < i PROVE st'[j] # "absent"
    <3>1. st[i] # "absent" => st[j] # "absent"
      BY <2>2 DEF ScanInv, AdmittedInOrder, Begun
    <3>2. st[j] # "absent"
      BY <2>2, <3>1, BegunStays
    <3> QED
      BY <3>2, BegunStays
  <2> QED
    BY <2>1, <2>2
<1>2. ASSUME NEW i \in Intent PROVE scan'.on /\ i <= scan'.cutoff => st'[i] # "absent"
  <2>1. CASE ClaimPage
    <3>1. scan' = IF scan.on THEN scan ELSE [on |-> TRUE, cutoff |-> Cutoff, after |-> 0]
      BY <2>1 DEF ClaimPage
    <3>2. scan'.cutoff = Cutoff
      BY <3>1 DEF Cutoff
    <3> QED
      BY <3>2, <1>0, CutoffIsAdmitted, BegunStays
  <2>2. CASE CompletePage
    <3>1. scan' = NoScan \/ (scan' = [scan EXCEPT !.after = page.next])
      BY <2>2 DEF CompletePage, ScanAfterPage
    <3>2. ~scan'.on \/ (scan'.on = scan.on /\ scan'.cutoff = scan.cutoff)
      BY <3>1, <1>0 DEF NoScan, TypeOK
    <3> QED
      BY <3>2, BegunStays DEF ScanInv, PassedAreBegun
  <2>3. CASE scan' = scan
    BY <2>3, BegunStays DEF ScanInv, PassedAreBegun
  <2>4. scan' = scan \/ ClaimPage \/ CompletePage
    BY DEF Next, IntentStep, Admit, DrainClaims, DrainFailsCapability, DrainSubmits,
       DrainAnswered, DrainFinishes, ItemFailsCapability, ItemSubmits, ItemAnswered,
       ItemQueried, Observe, CoreTakes, CoreRefuses, CoreAdvances, GhostSubmits,
       RollBackPage, PageFails, RetryPage, Restart, durable, vars
  <2> QED
    BY <2>1, <2>2, <2>3, <2>4
<1>3. ASSUME NEW i \in Intent
      PROVE  /\ i <= scan'.after => Begun(i)'
             /\ i <= page'.next => Begun(i)'
             /\ rec' = "page" /\ ~page'.more /\ i <= page'.cutoff => Begun(i)'
             /\ i <= swept' => Begun(i)'
  <2>0. /\ i \in Nat \ {0} /\ (Begun(i) => Begun(i)')
        /\ i <= scan.after => Begun(i)
        /\ i <= page.next => Begun(i)
        /\ rec = "page" /\ ~page.more /\ i <= page.cutoff => Begun(i)
        /\ i <= swept => Begun(i)
    BY <1>0, BegunStays DEF ScanInv, PassedAreBegun
  <2>1. CASE ClaimPage
    <3>1. scan'.after = scan.after \/ scan'.after = 0
      BY <2>1 DEF ClaimPage
    <3>2. swept' = swept
      BY <2>1 DEF ClaimPage
    <3> QED
      BY <2>0, <2>1, <3>1, <3>2, ClaimedPage
  <2>2. CASE CompletePage
    <3>1. scan'.after = page.next \/ scan'.after = 0
      BY <2>2, <1>0 DEF CompletePage, ScanAfterPage, NoScan, TypeOK
    <3>2. rec = "page" /\ rec' \in {"claim", "done"} /\ page' = NoPage
          /\ swept' = IF page.more THEN swept ELSE page.cutoff
      BY <2>2 DEF CompletePage, EndPage
    <3> QED
      BY <2>0, <3>1, <3>2 DEF NoPage
  <2>3. CASE RollBackPage \/ PageFails \/ Restart
    <3>1. scan' = scan /\ rec' # "page" /\ page' = NoPage /\ (swept' = swept \/ swept' = 0)
      BY <2>3 DEF RollBackPage, PageFails, Restart, EndPage, durable
    <3> QED
      BY <2>0, <3>1 DEF NoPage
  <2>4. CASE RetryPage
    BY <2>0, <2>4 DEF RetryPage, durable
  <2>5. CASE UNCHANGED <<scan, page, rec, swept>>
    BY <2>0, <2>5
  <2>6. \/ UNCHANGED <<scan, page, rec, swept>> \/ ClaimPage \/ CompletePage
        \/ RollBackPage \/ PageFails \/ Restart \/ RetryPage
    BY DEF Next, IntentStep, Admit, DrainClaims, DrainFailsCapability, DrainSubmits,
       DrainAnswered, DrainFinishes, ItemFailsCapability, ItemSubmits, ItemAnswered,
       ItemQueried, Observe, CoreTakes, CoreRefuses, CoreAdvances, GhostSubmits,
       durable, local, vars
  <2> QED
    BY <2>1, <2>2, <2>3, <2>4, <2>5, <2>6
<1> QED
  BY <1>1, <1>2, <1>3 DEF ScanInv, PassedAreBegun

\* When the scan of this incarnation has finished, no intent up to its cutoff is
\* left 'recorded', for any page limit and over rollbacks and inherited cursors.
THEOREM NothingIsSkipped == Spec => []ScanSkipsNothing
<1>1. Init => ScanInv
  <2>1. \A i \in Intent : i \in Nat \ {0}
    BY IntentAssumption
  <2> QED
    BY <2>1 DEF Init, ScanInv, AdmittedInOrder, PassedAreBegun, Begun, NoScan, NoPage
<1>2. ScanInv => ScanSkipsNothing
  BY DEF ScanInv, PassedAreBegun, ScanSkipsNothing, Begun
<1> QED
  BY <1>1, <1>2, ScanStep, Invariant, PTL DEF Spec
=============================================================================
