------------------------ MODULE InstanceLeaseProofs ------------------------
(***************************************************************************)
(* What InstanceLease guarantees for any number of processes and replies,  *)
(* any lease duration and retry budget and any page size: one writer, a    *)
(* controller whose belief the row backs, and a recovery of prior claims   *)
(* that leaves none behind.  The last part is about the process that gives *)
(* the lease up: the shutdown of RuntimeLifecycle.                         *)
(***************************************************************************)
EXTENDS InstanceLease, LifecycleLedger, FiniteSetTheorems, WellFoundedInduction, TLAPS

\* The row belongs to the process that acquired last.
OwnerIsLatest == \A p \in Process : lease.owner = p => ep[p] = epoch

\* A controller that holds the lease has a copy of the row, or the copy has run out.
HeldIsCopied ==
    \A p \in Process : ctl[p].held =>
        IF lease.owner = p
        THEN lease.token = ctl[p].token /\ lease.expires = ctl[p].expires
        ELSE ctl[p].expires <= now

\* The phases before the first page of the recovery, and those between two pages.
Unpaged == {"down", "bootstrap", "migrated", "detecting", "ready"}
Paging == {"recovering", "paging", "interrupted", "lastPage"}

\* The claims of prior owners that are left lie between the cursor and its high-water mark.
PagedSoFar(p) ==
    \A r \in ForeignClaims(p) :
        r > cursor[p].after /\ (cursor[p].high # 0 => r <= cursor[p].high)

\* How far the recovery of the present owner has come.
Recovery ==
    \A p \in Process :
        /\ phase[p] \in Unpaged => cursor[p] = NoCursor
        /\ lease.owner = p /\ phase[p] \in Unpaged \cup Paging => PagedSoFar(p)
        /\ lease.owner = p /\ phase[p] = "running" => ForeignClaims(p) = {}

IInv == TypeOK /\ OwnerIsLatest /\ HeldIsCopied /\ Recovery

-----------------------------------------------------------------------------
\* A non-empty set of reply ids has a greatest one: MAX(id) is defined.
LEMMA GreatestReply ==
    ASSUME NEW S \in SUBSET Reply, S # {}
    PROVE  \E r \in S : \A s \in S : s <= r
  <1> DEFINE HasMax(A) == \E r \in A : \A s \in A : s <= r
             Bad == {A \in FiniteSubsetsOf(Reply) : A # {} /\ ~HasMax(A)}
  <1>1. S \in FiniteSubsetsOf(Reply)
    BY ReplyAssumption, FS_Subset DEF FiniteSubsetsOf
  <1>2. SUFFICES ASSUME Bad # {} PROVE FALSE
    BY <1>1
  <1>3. PICK A \in Bad : \A B \in Bad : <<B, A>> \notin StrictSubsetOrdering(Reply)
    <2>1. Bad \subseteq FiniteSubsetsOf(Reply)
      OBVIOUS
    <2>2. IsWellFoundedOn(StrictSubsetOrdering(Reply), FiniteSubsetsOf(Reply))
      BY FS_StrictSubsetOrderingWellFounded
    <2> QED BY <1>2, <2>1, <2>2, WFMin
  <1>4. PICK a \in A : TRUE
    BY <1>3
  <1> DEFINE B == A \ {a}
  <1>5. A \subseteq Reply /\ IsFiniteSet(A) /\ A # {} /\ ~HasMax(A)
    BY <1>3 DEF FiniteSubsetsOf
  <1>6. B \in FiniteSubsetsOf(Reply)
    BY <1>5, FS_Subset DEF FiniteSubsetsOf
  <1>7. <<B, A>> \in StrictSubsetOrdering(Reply)
    BY <1>4, <1>5 DEF StrictSubsetOrdering
  <1>8. B = {} \/ HasMax(B)
    BY <1>3, <1>6, <1>7
  <1>9. A \subseteq Nat
    BY <1>5, ReplyAssumption
  <1>10. CASE B = {}
    <2>1. \A s \in A : s = a
      BY <1>10
    <2> QED BY <1>4, <1>5, <1>9, <2>1
  <1>11. CASE HasMax(B)
    <2>1. PICK b \in B : \A s \in B : s <= b
      BY <1>11
    <2>2. CASE a <= b
      <3>1. \A s \in A : s <= b
        BY <2>1, <2>2
      <3> QED BY <1>5, <2>1, <3>1
    <2>3. CASE ~(a <= b)
      <3>1. \A s \in A : s <= a
        BY <1>4, <1>9, <2>1, <2>3
      <3> QED BY <1>4, <1>5, <3>1
    <2> QED BY <2>2, <2>3
  <1> QED BY <1>8, <1>10, <1>11

\* ORDER BY id LIMIT ?: what a page leaves out comes after everything on it.
LEMMA PageIsPrefix ==
    ASSUME NEW S \in SUBSET Reply, NEW r \in FirstPage(S), NEW s \in S \ FirstPage(S)
    PROVE  r < s
  <1>1. r \in Nat /\ s \in Nat /\ BatchLimit \in Nat
    BY ReplyAssumption DEF FirstPage
  <1>2. SUFFICES ASSUME s < r \/ s = r PROVE FALSE
    BY <1>1
  <1> DEFINE below(x) == {y \in S : y < x}
  <1>3. below(s) \subseteq below(r)
    <2>1. S \subseteq Nat
      BY ReplyAssumption
    <2>2. ASSUME NEW y \in S, y < s PROVE y < r
      BY <1>1, <1>2, <2>1, <2>2
    <2> QED BY <2>2
  <1>4. IsFiniteSet(below(r))
    BY ReplyAssumption, FS_Subset
  <1>5. /\ Cardinality(below(s)) <= Cardinality(below(r))
        /\ Cardinality(below(s)) \in Nat
        /\ Cardinality(below(r)) \in Nat
    BY <1>3, <1>4, FS_Subset, FS_CardinalityType
  <1>6. Cardinality(below(r)) < BatchLimit
    BY DEF FirstPage
  <1>7. Cardinality(below(s)) < BatchLimit
    BY <1>1, <1>5, <1>6
  <1> QED BY <1>7 DEF FirstPage

\* A page of the recovery keeps the claims that are left beyond the cursor, and
\* the last page leaves none.
LEMMA PageAdvances ==
    ASSUME NEW p \in Process, TypeOK, PagedSoFar(p),
           NEW page, page = FirstPage(Candidates(p))
    PROVE  /\ Candidates(p) = ForeignClaims(p)
           /\ page \subseteq ForeignClaims(p)
           /\ page # {} =>
                LET top == CHOOSE r \in page : \A s \in page : s <= r
                IN  /\ top \in Nat
                    /\ HighWater(p) \in Nat \ {0}
                    /\ \A s \in ForeignClaims(p) \ page : s > top /\ s <= HighWater(p)
  <1>1. ForeignClaims(p) \subseteq Reply /\ Reply \subseteq Nat \ {0}
    BY ReplyAssumption DEF ForeignClaims
  <1>2. \A r \in ForeignClaims(p) : r <= HighWater(p) /\ HighWater(p) \in Nat
    <2>1. CASE cursor[p].high # 0
      BY <2>1 DEF HighWater, PagedSoFar, TypeOK
    <2>2. CASE cursor[p].high = 0 /\ ForeignClaims(p) # {}
      <3>1. \E r \in ForeignClaims(p) : \A s \in ForeignClaims(p) : s <= r
        BY <1>1, <2>2, GreatestReply
      <3>2. /\ HighWater(p) \in ForeignClaims(p)
            /\ \A s \in ForeignClaims(p) : s <= HighWater(p)
        BY <2>2, <3>1 DEF HighWater
      <3> QED BY <1>1, <3>2
    <2> QED BY <2>1, <2>2
  <1>3. Candidates(p) = ForeignClaims(p)
    BY <1>2 DEF Candidates, PagedSoFar
  <1>4. page \subseteq ForeignClaims(p)
    BY <1>3 DEF FirstPage
  <1>5. ASSUME page # {}
        PROVE  LET top == CHOOSE r \in page : \A s \in page : s <= r
               IN  /\ top \in Nat
                   /\ HighWater(p) \in Nat \ {0}
                   /\ \A s \in ForeignClaims(p) \ page : s > top /\ s <= HighWater(p)
    <2> DEFINE top == CHOOSE r \in page : \A s \in page : s <= r
    <2>1. \E r \in page : \A s \in page : s <= r
      BY <1>1, <1>4, <1>5, GreatestReply
    <2>2. top \in page
      BY <2>1
    <2>3. top \in Nat
      BY <1>1, <1>4, <2>2
    <2>4. HighWater(p) \in Nat \ {0}
      <3>1. top <= HighWater(p) /\ HighWater(p) \in Nat /\ top # 0
        BY <1>1, <1>2, <1>4, <2>2
      <3> QED BY <2>3, <3>1
    <2>5. ASSUME NEW s \in ForeignClaims(p) \ page PROVE s > top
      <3>1. top < s
        BY <1>1, <1>3, <2>2, PageIsPrefix
      <3> QED BY <1>1, <2>3, <3>1
    <2> QED BY <1>2, <2>3, <2>4, <2>5
  <1> QED BY <1>3, <1>4, <1>5
-----------------------------------------------------------------------------
Controller == [held : BOOLEAN, token : Nat, expires : Nat]

\* lose, release and a renewal leave every controller a status.
LEMMA ControllerUpdates ==
    ASSUME ctl \in [Process -> Controller], NEW p \in Process, NEW n \in Nat
    PROVE  /\ [ctl EXCEPT ![p].held = FALSE] \in [Process -> Controller]
           /\ [ctl EXCEPT ![p].expires = n] \in [Process -> Controller]
  <1>1. /\ [ctl[p] EXCEPT !.held = FALSE] \in Controller
        /\ [ctl[p] EXCEPT !.expires = n] \in Controller
    BY DEF Controller
  <1> QED BY <1>1

\* Every step of a process and of the clock keeps the invariant.
LEMMA StepKeepsInvariant == IInv /\ [Next]_vars => IInv'
  <1> SUFFICES ASSUME IInv, [Next]_vars PROVE IInv'
    OBVIOUS
  <1> USE NobodyAssumption, TimeAssumption
  <1> USE DEF IInv, TypeOK, OwnerIsLatest, HeldIsCopied, Recovery, PagedSoFar, ForeignClaims,
              Me, Unpaged, Paging, Phases, StopPhases, WriterPhases, NoLease, NoClaim,
              Released, NoRenewal, NoDeadline, NoCursor
  <1>1. ASSUME NEW p \in Process, Lose(p) PROVE IInv'
    <2>1. ctl' \in [Process -> Controller]
      <3>1. ctl \in [Process -> Controller]
        BY DEF Controller
      <3>2. now + Ttl \in Nat
        OBVIOUS
      <3> HIDE DEF IInv, TypeOK, OwnerIsLatest, HeldIsCopied, Recovery, PagedSoFar, ForeignClaims
      <3> QED BY <1>1, <3>1, <3>2, ControllerUpdates DEF Lose
    <2>2. ren' \in [Process -> [st : {"idle", "entered", "waiting"},
                                 started : Nat, deadline : Nat]]
      BY <1>1 DEF Lose, AfterLoss
    <2>3. phase' \in [Process -> Phases]
      BY <1>1 DEF Lose, AfterLoss
    <2>4. TypeOK'
      BY <1>1, <2>1, <2>2, <2>3 DEF Lose, AfterLoss, Controller
    <2>5. OwnerIsLatest' /\ HeldIsCopied'
      BY <1>1 DEF Lose, AfterLoss
    <2>6. Recovery'
      BY <1>1 DEF Lose, AfterLoss
    <2> QED BY <2>4, <2>5, <2>6
  <1>2. ASSUME NEW p \in Process, Acquire(p) PROVE IInv'
    <2>1. lease' \in [owner : Process \cup {Nobody}, token : Nat, expires : Nat]
      BY <1>2 DEF Acquire, CanAcquire
    <2>2. ctl' \in [Process -> Controller]
      <3> DEFINE token == IF lease.owner = Nobody THEN 1 ELSE lease.token + 1
      <3>1. ctl \in [Process -> Controller]
        BY DEF Controller
      <3>2. now + Ttl \in Nat /\ token \in Nat
        OBVIOUS
      <3>3. \/ ctl' = ctl
            \/ ctl' = [ctl EXCEPT ![p] = [held |-> TRUE, token |-> token, expires |-> now + Ttl]]
        BY <1>2 DEF Acquire
      <3> HIDE DEF IInv, TypeOK, OwnerIsLatest, HeldIsCopied, Recovery, PagedSoFar, ForeignClaims,
                   token
      <3>4. [held |-> TRUE, token |-> token, expires |-> now + Ttl] \in Controller
        BY <3>2 DEF Controller
      <3> QED BY <3>1, <3>3, <3>4
    <2>3. phase' \in [Process -> Phases]
      <3>1. phase \in [Process -> Phases] /\ "bootstrap" \in Phases
        BY DEF Phases
      <3> HIDE DEF IInv, TypeOK, OwnerIsLatest, HeldIsCopied, Recovery, PagedSoFar, ForeignClaims
      <3> QED BY <1>2, <3>1 DEF Acquire
    <2>4. ep' \in [Process -> Nat]
      BY <1>2 DEF Acquire, CanAcquire
    <2>5. epoch' \in Nat
      BY <1>2 DEF Acquire, CanAcquire
    <2>6. TypeOK'
      BY <1>2, <2>1, <2>2, <2>3, <2>4, <2>5 DEF Acquire, CanAcquire, Controller
    <2>7. OwnerIsLatest' /\ HeldIsCopied'
      BY <1>2 DEF Acquire, CanAcquire
    <2>8. Recovery'
      <3>1. CASE ~CanAcquire
        BY <1>2, <3>1 DEF Acquire
      <3>2. CASE CanAcquire
        <4>1. /\ lease'.owner = p /\ phase' = [phase EXCEPT ![p] = "bootstrap"]
              /\ cursor' = cursor /\ claim' = claim
          BY <1>2, <3>2 DEF Acquire
        <4>2. cursor'[p] = NoCursor /\ phase'[p] = "bootstrap"
          BY <1>2, <4>1 DEF Acquire
        <4>3. PagedSoFar(p)'
          BY <4>2, ReplyAssumption
        <4>4. ASSUME NEW q \in Process, q # p
              PROVE  lease'.owner # q /\ (phase'[q] \in Unpaged => cursor'[q] = NoCursor)
          BY <4>1, <4>4
        <4> HIDE DEF PagedSoFar
        <4> QED BY <4>2, <4>3, <4>4
      <3> QED BY <3>1, <3>2
    <2> QED BY <2>6, <2>7, <2>8
  <1>3. ASSUME NEW p \in Process, CompleteBootstrap(p) PROVE IInv'
    <2>1. TypeOK'
      BY <1>3 DEF CompleteBootstrap, FenceValid, RowMatches
    <2>2. OwnerIsLatest' /\ HeldIsCopied'
      BY <1>3 DEF CompleteBootstrap, FenceValid, RowMatches
    <2>3. Recovery'
      BY <1>3 DEF CompleteBootstrap, FenceValid, RowMatches
    <2> QED BY <2>1, <2>2, <2>3
  <1>4. ASSUME NEW p \in Process, AbandonBootstrap(p) PROVE IInv'
    <2>1. lease' \in [owner : Process \cup {Nobody}, token : Nat, expires : Nat]
      BY <1>4 DEF AbandonBootstrap, RowAfterRelease, RowMatches
    <2>2. ctl' \in [Process -> Controller]
      <3>1. ctl \in [Process -> Controller]
        BY DEF Controller
      <3>2. now + Ttl \in Nat
        OBVIOUS
      <3> HIDE DEF IInv, TypeOK, OwnerIsLatest, HeldIsCopied, Recovery, PagedSoFar, ForeignClaims
      <3> QED BY <1>4, <3>1, <3>2, ControllerUpdates DEF AbandonBootstrap
    <2>3. ren' \in [Process -> [st : {"idle", "entered", "waiting"},
                                 started : Nat, deadline : Nat]]
      BY <1>4 DEF AbandonBootstrap, RowAfterRelease, RowMatches
    <2>4. phase' \in [Process -> Phases]
      BY <1>4 DEF AbandonBootstrap, RowAfterRelease, RowMatches
    <2>5. TypeOK'
      BY <1>4, <2>1, <2>2, <2>3, <2>4 DEF AbandonBootstrap, RowAfterRelease, RowMatches, Controller
    <2>6. OwnerIsLatest' /\ HeldIsCopied'
      BY <1>4 DEF AbandonBootstrap, RowAfterRelease, RowMatches
    <2>7. Recovery'
      BY <1>4 DEF AbandonBootstrap, RowAfterRelease, RowMatches
    <2> QED BY <2>5, <2>6, <2>7
  <1>5. ASSUME NEW p \in Process, ActivateWriteFence(p) PROVE IInv'
    <2>1. TypeOK'
      BY <1>5 DEF ActivateWriteFence
    <2>2. OwnerIsLatest' /\ HeldIsCopied'
      BY <1>5 DEF ActivateWriteFence
    <2>3. Recovery'
      BY <1>5 DEF ActivateWriteFence
    <2> QED BY <2>1, <2>2, <2>3
  <1>6. ASSUME NEW p \in Process, BeginRenewal(p) PROVE IInv'
    <2>1. ren' \in [Process -> [st : {"idle", "entered", "waiting"},
                                 started : Nat, deadline : Nat]]
      BY <1>6 DEF BeginRenewal
    <2>2. TypeOK'
      BY <1>6, <2>1 DEF BeginRenewal
    <2>3. OwnerIsLatest' /\ HeldIsCopied'
      BY <1>6 DEF BeginRenewal
    <2>4. Recovery'
      BY <1>6 DEF BeginRenewal
    <2> QED BY <2>2, <2>3, <2>4
  <1>7. ASSUME NEW p \in Process, RenewCommits(p) PROVE IInv'
    <2>1. lease' \in [owner : Process \cup {Nobody}, token : Nat, expires : Nat]
      <3>1. now + Ttl \in Nat
        OBVIOUS
      <3>2. lease \in [owner : Process \cup {Nobody}, token : Nat, expires : Nat]
        OBVIOUS
      <3> HIDE DEF IInv, TypeOK, OwnerIsLatest, HeldIsCopied, Recovery, PagedSoFar, ForeignClaims
      <3> QED BY <1>7, <3>1, <3>2 DEF RenewCommits
    <2>2. ctl' \in [Process -> Controller]
      <3>1. ctl \in [Process -> Controller]
        BY DEF Controller
      <3>2. now + Ttl \in Nat
        OBVIOUS
      <3> HIDE DEF IInv, TypeOK, OwnerIsLatest, HeldIsCopied, Recovery, PagedSoFar, ForeignClaims
      <3> QED BY <1>7, <3>1, <3>2, ControllerUpdates DEF RenewCommits
    <2>3. ren' \in [Process -> [st : {"idle", "entered", "waiting"},
                                 started : Nat, deadline : Nat]]
      BY <1>7 DEF RenewCommits, RenewalMatches, RowMatches, AfterRenewal
    <2>4. phase' \in [Process -> Phases]
      BY <1>7 DEF RenewCommits, RenewalMatches, RowMatches, AfterRenewal
    <2>5. TypeOK'
      BY <1>7, <2>1, <2>2, <2>3, <2>4 DEF RenewCommits, RenewalMatches, RowMatches, AfterRenewal, Controller
    <2>6. OwnerIsLatest' /\ HeldIsCopied'
      BY <1>7 DEF RenewCommits, RenewalMatches, RowMatches, AfterRenewal
    <2>7. Recovery'
      BY <1>7 DEF RenewCommits, RenewalMatches, RowMatches, AfterRenewal
    <2> QED BY <2>5, <2>6, <2>7
  <1>8. ASSUME NEW p \in Process, RenewFails(p) PROVE IInv'
    BY <1>1, <1>8 DEF RenewFails
  <1>9. ASSUME NEW p \in Process, RenewBusy(p) PROVE IInv'
    <2>1. CASE ~(BusyRetryBudget > 0 /\ HasAttemptRoom(RenewalDeadline(p)))
      <3>1. Lose(p)
        BY <1>9, <2>1 DEF RenewBusy
      <3> QED BY <1>1, <3>1
    <2>2. CASE BusyRetryBudget > 0 /\ HasAttemptRoom(RenewalDeadline(p))
      <3>1. ren' \in [Process -> [st : {"idle", "entered", "waiting"},
                                 started : Nat, deadline : Nat]]
        <4>1. ren \in [Process -> [st : {"idle", "entered", "waiting"},
                                    started : Nat, deadline : Nat]]
          OBVIOUS
        <4>2. RenewalDeadline(p) \in Nat
          BY DEF RenewalDeadline
        <4> HIDE DEF IInv, TypeOK, OwnerIsLatest, HeldIsCopied, Recovery, PagedSoFar, ForeignClaims
        <4> QED BY <1>9, <2>2, <4>1, <4>2 DEF RenewBusy
      <3>2. TypeOK'
        BY <1>9, <2>2, <3>1 DEF RenewBusy
      <3>3. OwnerIsLatest' /\ HeldIsCopied'
        BY <1>9, <2>2 DEF RenewBusy
      <3>4. Recovery'
        BY <1>9, <2>2 DEF RenewBusy
      <3> QED BY <3>2, <3>3, <3>4
    <2> QED BY <2>1, <2>2
  <1>10. ASSUME NEW p \in Process, RetryRenewal(p) PROVE IInv'
    <2>1. CASE ~(HasAttemptRoom(ren[p].deadline))
      <3>1. Lose(p)
        BY <1>10, <2>1 DEF RetryRenewal
      <3> QED BY <1>1, <3>1
    <2>2. CASE HasAttemptRoom(ren[p].deadline)
      <3>1. ren' \in [Process -> [st : {"idle", "entered", "waiting"},
                                 started : Nat, deadline : Nat]]
        <4>1. ren \in [Process -> [st : {"idle", "entered", "waiting"},
                                    started : Nat, deadline : Nat]]
          OBVIOUS
        <4> HIDE DEF IInv, TypeOK, OwnerIsLatest, HeldIsCopied, Recovery, PagedSoFar, ForeignClaims
        <4> QED BY <1>10, <2>2, <4>1 DEF RetryRenewal
      <3>2. TypeOK'
        BY <1>10, <2>2, <3>1 DEF RetryRenewal
      <3>3. OwnerIsLatest' /\ HeldIsCopied'
        BY <1>10, <2>2 DEF RetryRenewal
      <3>4. Recovery'
        BY <1>10, <2>2 DEF RetryRenewal
      <3> QED BY <3>2, <3>3, <3>4
    <2> QED BY <2>1, <2>2
  <1>11. ASSUME NEW p \in Process, RecoverPriorOwnerClaimsBatch(p) PROVE IInv'
    <2> DEFINE page == FirstPage(Candidates(p))
    <2>1. CASE ~FenceValid(p)
      <3>1. phase' \in [Process -> Phases]
        BY <1>11, <2>1 DEF RecoverPriorOwnerClaimsBatch
      <3>2. TypeOK'
        BY <1>11, <2>1, <3>1 DEF RecoverPriorOwnerClaimsBatch
      <3>3. OwnerIsLatest' /\ HeldIsCopied'
        BY <1>11, <2>1 DEF RecoverPriorOwnerClaimsBatch
      <3>4. Recovery'
        BY <1>11, <2>1 DEF RecoverPriorOwnerClaimsBatch
      <3> QED BY <3>2, <3>3, <3>4
    <2>2. CASE FenceValid(p)
      <3>1. lease.owner = p /\ phase[p] \in Paging /\ PagedSoFar(p)
        BY <1>11, <2>2 DEF RecoverPriorOwnerClaimsBatch, FenceValid, RowMatches
      <3>2. /\ Candidates(p) = ForeignClaims(p)
            /\ page \subseteq ForeignClaims(p)
            /\ page # {} =>
                 LET top == CHOOSE r \in page : \A s \in page : s <= r
                 IN  /\ top \in Nat
                     /\ HighWater(p) \in Nat \ {0}
                     /\ \A s \in ForeignClaims(p) \ page : s > top /\ s <= HighWater(p)
        <4>1. TypeOK
          OBVIOUS
        <4> HIDE DEF IInv, TypeOK, PagedSoFar, ForeignClaims, Recovery
        <4> QED BY <3>1, <4>1, PageAdvances
      <3> DEFINE top == CHOOSE r \in page : \A s \in page : s <= r
      <3>3. /\ claim' = [r \in Reply |-> IF r \in page THEN NoClaim ELSE claim[r]]
            /\ dead' = dead \cup page
            /\ cursor' = [cursor EXCEPT ![p] = IF page = {} THEN @
                           ELSE [after |-> top, high |-> HighWater(p)]]
            /\ phase' = [phase EXCEPT ![p] = IF @ = "lastPage" THEN "stopping"
                           ELSE IF page # Candidates(p) THEN "recovering" ELSE "running"]
            /\ UNCHANGED <<now, lease, ctl, ren, fence, epoch, ep>>
        BY <1>11, <2>2 DEF RecoverPriorOwnerClaimsBatch
      <3> HIDE DEF page, top
      <3>4. page \subseteq Reply
        BY <3>2
      <3>5. page # {} => /\ top \in Nat
                         /\ HighWater(p) \in Nat \ {0}
                         /\ \A s \in ForeignClaims(p) \ page : s > top /\ s <= HighWater(p)
        BY <3>2 DEF top
      <3>6. cursor' \in [Process -> [after : Nat, high : Nat]]
        BY <3>3, <3>5
      <3>7. claim' \in [Reply -> [owner : Process \cup {Nobody}, token : Nat]]
        BY <3>3
      <3>8. phase' \in [Process -> Phases]
        BY <3>3
      <3>9. TypeOK'
        BY <3>3, <3>4, <3>6, <3>7, <3>8
      <3>10. OwnerIsLatest' /\ HeldIsCopied'
        BY <3>3
      <3>11. ForeignClaims(p)' = ForeignClaims(p) \ page
        BY <3>3
      <3>12. ASSUME phase'[p] \in Unpaged \cup Paging PROVE PagedSoFar(p)'
        <4>1. CASE page = {}
          BY <3>1, <3>3, <3>11, <4>1
        <4>2. CASE page # {}
          <5>1. cursor'[p] = [after |-> top, high |-> HighWater(p)]
            BY <3>3, <4>2
          <5> QED BY <3>5, <3>11, <4>2, <5>1
        <4> QED BY <4>1, <4>2
      <3>13. ASSUME phase'[p] = "running" PROVE ForeignClaims(p)' = {}
        <4>1. page = ForeignClaims(p)
          BY <3>1, <3>2, <3>3, <3>13
        <4> QED BY <3>11, <4>1
      <3>14. phase'[p] \notin Unpaged
        BY <3>3, <3>1
      <3>15. ASSUME NEW q \in Process, q # p
             PROVE  lease'.owner # q /\ (phase'[q] \in Unpaged => cursor'[q] = NoCursor)
        BY <3>1, <3>3, <3>15
      <3>16. Recovery'
        BY <3>12, <3>13, <3>14, <3>15
      <3> QED BY <3>9, <3>10, <3>16
    <2> QED BY <2>1, <2>2
  <1>12. ASSUME NEW p \in Process, NEW r \in Reply, ClaimReply(p, r) PROVE IInv'
    <2>1. TypeOK'
      BY <1>12 DEF ClaimReply, FenceValid, RowMatches
    <2>2. OwnerIsLatest' /\ HeldIsCopied'
      BY <1>12 DEF ClaimReply, FenceValid, RowMatches
    <2>3. Recovery'
      BY <1>12 DEF ClaimReply, FenceValid, RowMatches
    <2> QED BY <2>1, <2>2, <2>3
  <1>13. ASSUME NEW p \in Process, NEW r \in Reply, SettleReply(p, r) PROVE IInv'
    <2>1. TypeOK'
      BY <1>13 DEF SettleReply, FenceValid, RowMatches
    <2>2. OwnerIsLatest' /\ HeldIsCopied'
      BY <1>13 DEF SettleReply, FenceValid, RowMatches
    <2>3. Recovery'
      BY <1>13 DEF SettleReply, FenceValid, RowMatches
    <2> QED BY <2>1, <2>2, <2>3
  <1>14. ASSUME NEW p \in Process, RequestStop(p) PROVE IInv'
    <2>1. TypeOK'
      BY <1>14 DEF RequestStop
    <2>2. OwnerIsLatest' /\ HeldIsCopied'
      BY <1>14 DEF RequestStop
    <2>3. Recovery'
      BY <1>14 DEF RequestStop
    <2> QED BY <2>1, <2>2, <2>3
  <1>15. ASSUME NEW p \in Process, CompleteShutdown(p) PROVE IInv'
    <2>1. lease' \in [owner : Process \cup {Nobody}, token : Nat, expires : Nat]
      BY <1>15 DEF CompleteShutdown, RowAfterRelease, RowMatches
    <2>2. ctl' \in [Process -> Controller]
      <3>1. ctl \in [Process -> Controller]
        BY DEF Controller
      <3>2. now + Ttl \in Nat
        OBVIOUS
      <3> HIDE DEF IInv, TypeOK, OwnerIsLatest, HeldIsCopied, Recovery, PagedSoFar, ForeignClaims
      <3> QED BY <1>15, <3>1, <3>2, ControllerUpdates DEF CompleteShutdown
    <2>3. ren' \in [Process -> [st : {"idle", "entered", "waiting"},
                                 started : Nat, deadline : Nat]]
      BY <1>15 DEF CompleteShutdown, RowAfterRelease, RowMatches
    <2>4. phase' \in [Process -> Phases]
      BY <1>15 DEF CompleteShutdown, RowAfterRelease, RowMatches
    <2>5. OwnerIsLatest' /\ HeldIsCopied'
      <3>1. CASE lease' = RowAfterRelease(p) /\ ctl' = [ctl EXCEPT ![p].held = FALSE]
        BY <1>15, <3>1 DEF CompleteShutdown, RowAfterRelease, RowMatches
      <3>2. CASE UNCHANGED <<lease, ctl>>
        BY <1>15, <3>2 DEF CompleteShutdown
      <3> QED BY <1>15, <3>1, <3>2 DEF CompleteShutdown
    <2>6. TypeOK'
      BY <1>15, <2>1, <2>2, <2>3, <2>4 DEF CompleteShutdown, RowAfterRelease, RowMatches, Controller
    <2>7. Recovery'
      BY <1>15 DEF CompleteShutdown, RowAfterRelease, RowMatches
    <2> QED BY <2>5, <2>6, <2>7
  <1>16. ASSUME NEW p \in Process, RetainOwnership(p) PROVE IInv'
    <2>1. TypeOK'
      BY <1>16 DEF RetainOwnership
    <2>2. OwnerIsLatest' /\ HeldIsCopied'
      BY <1>16 DEF RetainOwnership
    <2>3. Recovery'
      BY <1>16 DEF RetainOwnership
    <2> QED BY <2>1, <2>2, <2>3
  <1>17. ASSUME NEW p \in Process, Crash(p) PROVE IInv'
    <2>1. ctl' \in [Process -> Controller]
      BY <1>17 DEF Crash, Controller
    <2>2. ren' \in [Process -> [st : {"idle", "entered", "waiting"},
                                 started : Nat, deadline : Nat]]
      BY <1>17 DEF Crash
    <2>3. phase' \in [Process -> Phases]
      BY <1>17 DEF Crash
    <2>4. TypeOK'
      BY <1>17, <2>1, <2>2, <2>3 DEF Crash, Controller
    <2>5. OwnerIsLatest' /\ HeldIsCopied'
      BY <1>17 DEF Crash
    <2>6. Recovery'
      BY <1>17 DEF Crash
    <2> QED BY <2>4, <2>5, <2>6
  <1>18. ASSUME Tick PROVE IInv'
    <2>1. TypeOK'
      BY <1>18 DEF Tick
    <2>2. OwnerIsLatest' /\ HeldIsCopied'
      BY <1>18 DEF Tick
    <2>3. Recovery'
      BY <1>18 DEF Tick
    <2> QED BY <2>1, <2>2, <2>3
  <1>19. ASSUME UNCHANGED vars PROVE IInv'
    BY <1>19 DEF vars
  <1> QED
    BY <1>2, <1>3, <1>4, <1>5, <1>6, <1>7, <1>8, <1>9, <1>10,
       <1>11, <1>12, <1>13, <1>14, <1>15, <1>16, <1>17, <1>18, <1>19 DEF Next, Step

\* The lease row, the controllers and the claims start in the invariant.
LEMMA InitHolds == Init => IInv
  BY NobodyAssumption, TimeAssumption, ReplyAssumption
     DEF Init, IInv, TypeOK, OwnerIsLatest, HeldIsCopied, Recovery, PagedSoFar, ForeignClaims,
         Me, Unpaged, Paging, Phases, NoLease, NoClaim, Released, NoRenewal, NoDeadline, NoCursor

\* The inductive invariant is an invariant of the specification.
THEOREM InvariantHolds == Spec => []IInv
  BY InitHolds, StepKeepsInvariant, PTL DEF Spec

\* Every variable keeps its type: instance-lease.ts and lease-store.ts only ever write rows,
\* controller states and cursors of the declared shape.
THEOREM TypeCorrect == Spec => []TypeOK
  BY InvariantHolds, PTL DEF IInv

\* Whatever crashes, pauses, releases and takeovers happened, a connection that passes the
\* triggers of the write fence belongs to the process that acquired the lease last.
THEOREM WriterIsLatest == Spec => []FencedWriterIsLatest
  <1>1. IInv => FencedWriterIsLatest
    BY DEF IInv, OwnerIsLatest, FencedWriterIsLatest, FenceValid, RowMatches
  <1> QED BY <1>1, InvariantHolds, PTL

\* Until its own copy of the expiry passes, a controller that says it holds the lease is right,
\* and the row expires when the controller thinks it does.
THEOREM BeliefIsRight == Spec => []BelievedLeaseIsOwned
  <1>1. IInv => BelievedLeaseIsOwned
    <2> SUFFICES ASSUME IInv, NEW p \in Process, ctl[p].held, now < ctl[p].expires
                 PROVE  RowMatches(p) /\ lease.expires = ctl[p].expires
      BY DEF BelievedLeaseIsOwned
    <2>1. ctl[p].expires \in Nat /\ now \in Nat
      BY DEF IInv, TypeOK
    <2>2. lease.owner = p
      BY <2>1 DEF IInv, HeldIsCopied
    <2> QED BY <2>2 DEF IInv, HeldIsCopied, RowMatches
  <1> QED BY <1>1, InvariantHolds, PTL

\* When the recovery loop has come to its end, the owner meets no claim of a prior owner,
\* whatever the page size and however many renewals it awaited between two pages.
THEOREM RecoveryLeavesNone == Spec => []NoForeignClaimWhileRunning
  <1>1. IInv => NoForeignClaimWhileRunning
    BY DEF IInv, Recovery, NoForeignClaimWhileRunning, FenceValid, RowMatches
  <1> QED BY <1>1, InvariantHolds, PTL
-----------------------------------------------------------------------------
(* Within one process the lease is given up by the shutdown of              *)
(* RuntimeLifecycle, for any set of components the instance is built with.  *)
(* Its ledger is the one of LifecycleLedger, over the same variables.       *)

CONSTANTS Component, Nothing, MaxFailures

VARIABLES pc, start, up, stop, plan, idx, asked, expired

Life == INSTANCE RuntimeLifecycle

Ownership == {"fence", "lease", "store"}

\* Before a stop is requested nothing has been asked to stop and everything is owned.
Unstopped ==
    stop = "no" => owns = Ownership /\ plan = <<>> /\ idx = 1 /\ asked = {}

\* The plan read when the stop was requested stays the plan of the whole ledger: nothing is
\* registered from then on.
PlanIsComplete == stop # "no" => plan = Life!ShutdownPlan

\* A component whose stop has settled has no work left that the start sequence awaits.
SettledIsDrained == \A c \in settled : awaiting = c => c = "healthServer"

\* The one cleanup that may settle while its start is awaited is no writer's.
WritersAreDrained ==
    \A i \in 1 .. Len(entries) :
        entries[i].kind = "writer" => entries[i].name # "healthServer"

\* Ownership goes in one step, and only with every planned writer safe.
GivenUpSafely ==
    owns # Ownership => stop = "completed" /\ Life!UnsafeWriters = {}

LifeInv ==
    /\ Life!TypeOK /\ Unstopped /\ PlanIsComplete /\ SettledIsDrained
    /\ WritersAreDrained /\ GivenUpSafely

\* What is registered of a step: a cleanup of a known stage and kind, the health server not as
\* a writer.
Registers(s) ==
    s.op # "await" =>
        /\ s = [op |-> s.op, name |-> s.name, stage |-> s.stage, kind |-> s.kind]
        /\ s.op \in {"register", "resource"}
        /\ s.stage \in {"ingress", "observers", "workers", "projections", "health"}
        /\ s.kind \in {"writer", "non-writer"}
        /\ s.kind = "writer" => s.name # "healthServer"

\* Every step of performStart registers such a cleanup, or none.
LEMMA StepsRegister ==
    /\ Len(Life!StartSequence) = 36
    /\ \A k \in 1 .. Len(Life!StartSequence) : Registers(Life!StartSequence[k])
  <1>1. Len(Life!StartSequence) = 36
    BY DEF Life!StartSequence
  <1>2. ASSUME NEW k \in 1 .. 36 PROVE Registers(Life!StartSequence[k])
    BY DEF Registers, Life!StartSequence, Life!Reg, Life!Res, Life!Await
  <1> QED BY <1>1, <1>2

\* A registered step of a component the instance keeps is an entry of the ledger.
LEMMA RegistrationIsEntry ==
    ASSUME NEW s, Registers(s), s.op # "await", s.name \in Component
    PROVE  s \in Life!Entry
  BY DEF Registers, Life!Entry

\* A registered cleanup has a place among the shutdown stages.
LEMMA StageIsPlaced ==
    ASSUME NEW e \in Life!Entry
    PROVE  Life!StageOf(e) \in 1 .. 5
  <1>1. \E k \in 1 .. Len(Life!Stages) : Life!Stages[k] = e.stage
    BY DEF Life!Entry, Life!Stages
  <1>2. Len(Life!Stages) = 5
    BY DEF Life!Stages
  <1> QED BY <1>1, <1>2 DEF Life!StageOf

\* The order of the plan is a strict total order of the registrations.
LEMMA ClosingIsTotal ==
    ASSUME entries \in Seq(Life!Entry)
    PROVE  /\ \A i \in 1 .. Len(entries) : ~Life!ClosesBefore(i, i)
           /\ \A i, j, k \in 1 .. Len(entries) :
                  Life!ClosesBefore(i, j) /\ Life!ClosesBefore(j, k) => Life!ClosesBefore(i, k)
           /\ \A i, j \in 1 .. Len(entries) :
                  i # j => Life!ClosesBefore(i, j) \/ Life!ClosesBefore(j, i)
  <1>1. \A i \in 1 .. Len(entries) : Life!StageOf(entries[i]) \in 1 .. 5
    BY StageIsPlaced
  <1>2. Len(entries) \in Nat
    OBVIOUS
  <1> QED BY <1>1, <1>2 DEF Life!ClosesBefore

\* A registration that closes before another has the smaller rank, and every rank is the
\* place of one registration.
LEMMA RankOrders ==
    ASSUME entries \in Seq(Life!Entry)
    PROVE  /\ \A i \in 1 .. Len(entries) : Life!ClosingRank(i) \in 0 .. Len(entries) - 1
           /\ \A i, j \in 1 .. Len(entries) :
                  Life!ClosesBefore(i, j) => Life!ClosingRank(i) < Life!ClosingRank(j)
  <1> DEFINE D == 1 .. Len(entries)
             Below(i) == {j \in D : Life!ClosesBefore(j, i)}
  <1>0. Len(entries) \in Nat
    OBVIOUS
  <1>1. IsFiniteSet(D) /\ Cardinality(D) = Len(entries)
    <2>1. /\ IsFiniteSet(1 .. Len(entries))
          /\ Cardinality(1 .. Len(entries)) =
                 IF 1 > Len(entries) THEN 0 ELSE Len(entries) - 1 + 1
      BY <1>0, FS_Interval
    <2> QED BY <1>0, <2>1
  <1>2. ASSUME NEW i \in D
        PROVE  /\ IsFiniteSet(Below(i)) /\ Cardinality(Below(i)) \in Nat
               /\ Life!ClosingRank(i) = Cardinality(Below(i))
    <2>1. Below(i) \in SUBSET D
      OBVIOUS
    <2>2. IsFiniteSet(Below(i))
      BY <1>1, <2>1, FS_Subset
    <2>3. Cardinality(Below(i)) \in Nat
      BY <2>2, FS_CardinalityType
    <2>4. Life!ClosingRank(i) = Cardinality(Below(i))
      BY DEF Life!ClosingRank, Life!Cardinality, Cardinality
    <2> QED BY <2>2, <2>3, <2>4
  <1>3. ASSUME NEW i \in D PROVE Life!ClosingRank(i) \in 0 .. Len(entries) - 1
    <2>1. Below(i) \in SUBSET D /\ Below(i) # D
      BY ClosingIsTotal
    <2>2. Cardinality(Below(i)) <= Cardinality(D) /\ Cardinality(Below(i)) # Cardinality(D)
      BY <1>1, <2>1, FS_Subset
    <2> HIDE DEF Below, D
    <2> QED BY <1>0, <1>1, <1>2, <2>2
  <1>4. ASSUME NEW i \in D, NEW j \in D, Life!ClosesBefore(i, j)
        PROVE  Life!ClosingRank(i) < Life!ClosingRank(j)
    <2>1. Below(i) \in SUBSET Below(j)
      BY <1>4, ClosingIsTotal
    <2>2. i \in Below(j) /\ i \notin Below(i)
      BY <1>4, ClosingIsTotal
    <2>3. Cardinality(Below(i)) <= Cardinality(Below(j))
          /\ Cardinality(Below(i)) # Cardinality(Below(j))
      <3> HIDE DEF Below
      <3> QED BY <1>2, <2>1, <2>2, FS_Subset
    <2> HIDE DEF Below, D
    <2> QED BY <1>2, <2>3
  <1> QED BY <1>3, <1>4

\* The ranks are the places of the plan, each taken by one registration.
LEMMA RankIsPlace ==
    ASSUME entries \in Seq(Life!Entry)
    PROVE  /\ \A i \in 1 .. Len(entries) :
                  /\ Life!ClosingRank(i) + 1 \in 1 .. Len(entries)
                  /\ Life!ClosingAt(Life!ClosingRank(i) + 1) = i
           /\ \A k \in 1 .. Len(entries) :
                  /\ Life!ClosingAt(k) \in 1 .. Len(entries)
                  /\ Life!ClosingRank(Life!ClosingAt(k)) = k - 1
  <1> DEFINE D == 1 .. Len(entries)
             rank == [i \in D |-> Life!ClosingRank(i) + 1]
  <1>0. Len(entries) \in Nat
    OBVIOUS
  <1>1. IsFiniteSet(D)
    BY <1>0, FS_Interval
  <1>2. \A i \in D : Life!ClosingRank(i) \in 0 .. Len(entries) - 1
    BY RankOrders
  <1>3. \A i, j \in D : i # j => Life!ClosingRank(i) # Life!ClosingRank(j)
    BY <1>2, RankOrders, ClosingIsTotal
  <1>4. rank \in Injection(D, D)
    <2>1. rank \in [D -> D]
      BY <1>0, <1>2
    <2>2. \A i, j \in D : rank[i] = rank[j] => i = j
      BY <1>0, <1>2, <1>3
    <2> HIDE DEF D, rank
    <2> QED BY <2>1, <2>2 DEF Injection, IsInjective
  <1>5. rank \in Surjection(D, D)
    <2> HIDE DEF D, rank
    <2> QED BY <1>1, <1>4, FS_Injection
  <1>6. \A k \in D : \E i \in D : Life!ClosingRank(i) = k - 1
    <2> SUFFICES ASSUME NEW k \in D PROVE \E i \in D : Life!ClosingRank(i) = k - 1
      OBVIOUS
    <2>1. PICK i \in D : rank[i] = k
      <3> HIDE DEF D, rank
      <3> QED BY <1>5 DEF Surjection
    <2>2. Life!ClosingRank(i) + 1 = k
      BY <2>1
    <2> QED BY <1>0, <1>2, <2>2
  <1>7. ASSUME NEW k \in D
        PROVE  Life!ClosingAt(k) \in D /\ Life!ClosingRank(Life!ClosingAt(k)) = k - 1
    BY <1>6 DEF Life!ClosingAt
  <1>8. ASSUME NEW i \in D
        PROVE  Life!ClosingRank(i) + 1 \in D /\ Life!ClosingAt(Life!ClosingRank(i) + 1) = i
    <2>1. Life!ClosingRank(i) + 1 \in D
      BY <1>0, <1>2
    <2>2. Life!ClosingRank(Life!ClosingAt(Life!ClosingRank(i) + 1)) = Life!ClosingRank(i)
      BY <1>0, <1>2, <1>7, <2>1
    <2> QED BY <1>3, <1>7, <2>1, <2>2
  <1> QED BY <1>7, <1>8

\* shutdownPlan: every registration of the ledger has one place in the plan, and the plan goes
\* stage by stage and backwards within a stage.  The test "builds a safety-staged plan with
\* reverse registration order inside each stage" sees one ledger; this is every ledger.
THEOREM PlanClosesEveryRegistration ==
    ASSUME entries \in Seq(Life!Entry)
    PROVE  /\ Life!ShutdownPlan \in Seq(Life!Entry)
           /\ Len(Life!ShutdownPlan) = Len(entries)
           /\ \A i \in 1 .. Len(entries) :
                  \E k \in 1 .. Len(entries) :
                      Life!ClosingAt(k) = i /\ Life!ShutdownPlan[k] = entries[i]
           /\ \A k, l \in 1 .. Len(entries) :
                  k < l => Life!ClosesBefore(Life!ClosingAt(k), Life!ClosingAt(l))
  <1> DEFINE D == 1 .. Len(entries)
  <1>0. Len(entries) \in Nat /\ \A i \in D : entries[i] \in Life!Entry
    OBVIOUS
  <1>1. \A k \in D : Life!ShutdownPlan[k] = entries[Life!ClosingAt(k)]
    BY DEF Life!ShutdownPlan
  <1>2. Life!ShutdownPlan = [k \in D |-> entries[Life!ClosingAt(k)]]
    BY DEF Life!ShutdownPlan
  <1>3. \A k \in D : entries[Life!ClosingAt(k)] \in Life!Entry
    BY <1>0, RankIsPlace
  <1>4. Life!ShutdownPlan \in [1 .. Len(entries) -> Life!Entry]
    BY <1>2, <1>3
  <1>5. Life!ShutdownPlan \in Seq(Life!Entry) /\ Len(Life!ShutdownPlan) = Len(entries)
    BY <1>0, <1>4
  <1>6. ASSUME NEW i \in D
        PROVE  \E k \in D : Life!ClosingAt(k) = i /\ Life!ShutdownPlan[k] = entries[i]
    <2>1. Life!ClosingRank(i) + 1 \in D /\ Life!ClosingAt(Life!ClosingRank(i) + 1) = i
      BY RankIsPlace
    <2> QED BY <1>1, <2>1
  <1>7. ASSUME NEW k \in D, NEW l \in D, k < l
        PROVE  Life!ClosesBefore(Life!ClosingAt(k), Life!ClosingAt(l))
    <2>1. /\ Life!ClosingAt(k) \in D /\ Life!ClosingRank(Life!ClosingAt(k)) = k - 1
          /\ Life!ClosingAt(l) \in D /\ Life!ClosingRank(Life!ClosingAt(l)) = l - 1
      BY RankIsPlace
    <2>2. ~Life!ClosesBefore(Life!ClosingAt(l), Life!ClosingAt(k))
      BY <1>7, <2>1, RankOrders
    <2>3. Life!ClosingAt(l) # Life!ClosingAt(k)
      BY <1>7, <2>1
    <2> QED BY <2>1, <2>2, <2>3, ClosingIsTotal
  <1> QED BY <1>5, <1>6, <1>7

\* A step of the start sequence appends a registration of the declared shape, or awaits work.
LEMMA StartStepKeeps ==
    ASSUME LifeInv, Life!RunStartStep, Nothing \notin Component
    PROVE  LifeInv'
  <1> DEFINE s == Life!StartSequence[pc]
  <1>1. pc \in 1 .. 36 /\ Registers(s) /\ Len(Life!StartSequence) = 36
    <2>1. Len(Life!StartSequence) = 36 /\ \A k \in 1 .. 36 : Registers(Life!StartSequence[k])
      BY StepsRegister
    <2>2. pc \in 1 .. Len(Life!StartSequence) + 1 /\ pc <= Len(Life!StartSequence)
      BY DEF LifeInv, Life!TypeOK, Life!RunStartStep
    <2> QED BY <2>1, <2>2
  <1>2. /\ entries' \in Seq(Life!Entry)
        /\ WritersAreDrained'
    <2>1. CASE s.name \in Component /\ s.op # "await"
      <3>1. s \in Life!Entry
        BY <1>1, <2>1, RegistrationIsEntry
      <3>2. entries' = Append(entries, s)
        BY <2>1 DEF Life!RunStartStep
      <3>3. s.kind = "writer" => s.name # "healthServer"
        BY <1>1, <2>1 DEF Registers
      <3> HIDE DEF s
      <3> QED BY <3>1, <3>2, <3>3 DEF LifeInv, Life!TypeOK, WritersAreDrained
    <2>2. CASE ~(s.name \in Component /\ s.op # "await")
      <3>1. entries' = entries
        BY <2>2 DEF Life!RunStartStep
      <3> QED BY <3>1 DEF LifeInv, Life!TypeOK, WritersAreDrained
    <2> QED BY <2>1, <2>2
  <1>3. pc' \in 1 .. 37 /\ awaiting' \in Component \cup {Nothing}
    BY <1>1 DEF Life!RunStartStep
  <1>4. /\ stop = "no" /\ settled = {} /\ owns = Ownership
        /\ UNCHANGED <<start, up, stop, plan, idx, asked, settled, failed, expired, owns>>
    BY DEF Life!RunStartStep, Life!stopVars, LifeInv, Unstopped, Life!TypeOK
  <1>5. Life!TypeOK'
    BY <1>1, <1>2, <1>3, <1>4 DEF LifeInv, Life!TypeOK
  <1>6. Unstopped' /\ PlanIsComplete' /\ SettledIsDrained' /\ GivenUpSafely'
    BY <1>4 DEF LifeInv, Unstopped, PlanIsComplete, SettledIsDrained, GivenUpSafely
  <1> QED BY <1>2, <1>5, <1>6 DEF LifeInv

\* The request for a stop reads the whole ledger, whoever makes it.
LEMMA StopRequestKeeps ==
    ASSUME LifeInv, stop = "no", Life!BeginStop, awaiting' \in {awaiting, Nothing},
           start' \in {"starting", "started", "failed"}, UNCHANGED <<pc, entries, up>>
    PROVE  LifeInv'
  <1>1. plan' = Life!ShutdownPlan /\ Life!ShutdownPlan \in Seq(Life!Entry)
    BY PlanClosesEveryRegistration DEF LifeInv, Life!TypeOK, Life!BeginStop
  <1>2. Life!ShutdownPlan' = Life!ShutdownPlan
    BY DEF Life!ShutdownPlan, Life!ClosingAt, Life!ClosingRank, Life!ClosesBefore
  <1>3. /\ idx = 1 /\ asked = {} /\ settled = {} /\ owns = Ownership /\ stop' = "stopping"
        /\ UNCHANGED <<idx, asked, settled, failed, expired, owns>>
    BY DEF LifeInv, Unstopped, Life!TypeOK, Life!BeginStop
  <1>4. Len(plan') \in Nat
    BY <1>1
  <1>5. Life!TypeOK'
    BY <1>1, <1>3, <1>4 DEF LifeInv, Life!TypeOK
  <1>6. Unstopped' /\ PlanIsComplete' /\ SettledIsDrained' /\ WritersAreDrained' /\ GivenUpSafely'
    BY <1>1, <1>2, <1>3
       DEF LifeInv, Unstopped, PlanIsComplete, SettledIsDrained, WritersAreDrained, GivenUpSafely
  <1> QED BY <1>5, <1>6 DEF LifeInv

\* Steps of the shutdown leave the ledger and the plan alone.
LEMMA PlanStands ==
    ASSUME PlanIsComplete, UNCHANGED <<entries, plan>>, stop' # "no" => stop # "no"
    PROVE  PlanIsComplete'
  <1>1. Life!ShutdownPlan' = Life!ShutdownPlan
    BY DEF Life!ShutdownPlan, Life!ClosingAt, Life!ClosingRank, Life!ClosesBefore
  <1> QED BY <1>1 DEF PlanIsComplete

\* The steps of start() that do not register: the start ends, and awaited work returns or throws.
LEMMA StartEndsKeep ==
    ASSUME LifeInv, Nothing \notin Component,
           Life!FinishStart \/ Life!AwaitReturns \/ Life!AwaitThrows \/ Life!RequestStop
    PROVE  LifeInv'
  <1>1. CASE Life!FinishStart
    <2>1. UNCHANGED <<pc, awaiting, entries, up, stop, plan, idx, asked, settled, failed,
                      expired, owns>> /\ start' = "started"
      BY <1>1 DEF Life!FinishStart, Life!stopVars
    <2>2. PlanIsComplete'
      BY <2>1, PlanStands DEF LifeInv
    <2>3. Life!TypeOK' /\ Unstopped' /\ SettledIsDrained' /\ WritersAreDrained'
      BY <2>1 DEF LifeInv, Life!TypeOK, Unstopped, SettledIsDrained, WritersAreDrained
    <2>4. GivenUpSafely'
      BY <2>1 DEF LifeInv, GivenUpSafely, Life!UnsafeWriters, Life!PlanWriters
    <2> QED BY <2>2, <2>3, <2>4 DEF LifeInv
  <1>2. CASE Life!AwaitReturns
    <2>1. /\ UNCHANGED <<pc, entries, stop, plan, idx, asked, settled, failed, expired, owns>>
          /\ awaiting' = Nothing /\ start' \in {start, "failed"}
          /\ up' \in {up, up \cup {awaiting}} /\ awaiting # Nothing
      BY <1>2 DEF Life!AwaitReturns, Life!stopVars
    <2>2. PlanIsComplete'
      BY <2>1, PlanStands DEF LifeInv
    <2>3. Life!TypeOK' /\ Unstopped' /\ WritersAreDrained'
      BY <2>1 DEF LifeInv, Life!TypeOK, Unstopped, WritersAreDrained
    <2>4. SettledIsDrained'
      BY <2>1 DEF LifeInv, Life!TypeOK, SettledIsDrained
    <2>5. GivenUpSafely'
      BY <2>1 DEF LifeInv, GivenUpSafely, Life!UnsafeWriters, Life!PlanWriters
    <2> QED BY <2>2, <2>3, <2>4, <2>5 DEF LifeInv
  <1>3. CASE Life!AwaitThrows
    <2>1. awaiting' = Nothing /\ start' = "failed" /\ UNCHANGED <<pc, entries, up>>
      BY <1>3 DEF Life!AwaitThrows
    <2>2. CASE stop = "no"
      <3>1. Life!BeginStop
        BY <1>3, <2>2 DEF Life!AwaitThrows
      <3> QED BY <2>1, <2>2, <3>1, StopRequestKeeps
    <2>3. CASE stop # "no"
      <3>1. UNCHANGED <<stop, plan, idx, asked, settled, failed, expired, owns>>
        BY <1>3, <2>3 DEF Life!AwaitThrows, Life!stopVars
      <3>2. PlanIsComplete'
        BY <2>1, <3>1, PlanStands DEF LifeInv
      <3>3. Life!TypeOK' /\ Unstopped' /\ WritersAreDrained'
        BY <2>1, <3>1 DEF LifeInv, Life!TypeOK, Unstopped, WritersAreDrained
      <3>4. SettledIsDrained'
        BY <2>1, <3>1 DEF LifeInv, Life!TypeOK, SettledIsDrained
      <3>5. GivenUpSafely'
        BY <3>1 DEF LifeInv, GivenUpSafely, Life!UnsafeWriters, Life!PlanWriters
      <3> QED BY <3>2, <3>3, <3>4, <3>5 DEF LifeInv
    <2> QED BY <2>2, <2>3
  <1>4. CASE Life!RequestStop
    <2>1. /\ stop = "no" /\ Life!BeginStop /\ UNCHANGED <<pc, start, awaiting, entries, up>>
          /\ start \in {"starting", "started", "failed"}
      BY <1>4 DEF Life!RequestStop, LifeInv, Life!TypeOK
    <2> QED BY <2>1, StopRequestKeeps
  <1> QED BY <1>1, <1>2, <1>3, <1>4

\* A stop that settles, cleanly or not, is that of a component whose awaited work is over, and
\* no writer's once ownership was given up.
LEMMA SettlingKeeps ==
    ASSUME LifeInv, NEW c \in Component, Life!StopSettles(c) \/ Life!StopRejects(c)
    PROVE  LifeInv'
  <1>1. /\ c \in asked /\ c \notin settled /\ (awaiting # c \/ c = "healthServer")
        /\ settled' = settled \cup {c} /\ failed' \in {failed, failed \cup {c}}
        /\ UNCHANGED <<pc, start, awaiting, entries, up, stop, plan, idx, asked, expired, owns>>
    BY DEF Life!StopSettles, Life!StopRejects, Life!CanSettle
  <1>2. PlanIsComplete'
    BY <1>1, PlanStands DEF LifeInv
  <1>3. Life!TypeOK' /\ Unstopped' /\ WritersAreDrained' /\ SettledIsDrained'
    BY <1>1 DEF LifeInv, Life!TypeOK, Unstopped, WritersAreDrained, SettledIsDrained
  <1>4. GivenUpSafely'
    BY <1>1 DEF LifeInv, GivenUpSafely, Life!UnsafeWriters, Life!PlanWriters
  <1> QED BY <1>2, <1>3, <1>4 DEF LifeInv

\* The loop over the plan, its deadline, and the decision of performShutdown.
LEMMA ShutdownKeeps ==
    ASSUME LifeInv,
           \/ Life!AskEntry \/ Life!DeadlinePasses \/ Life!AdvanceEntry
           \/ Life!EndOfPlan \/ Life!Decide
    PROVE  LifeInv'
  <1>1. UNCHANGED <<pc, start, awaiting, entries, plan, settled, failed>> /\ stop # "no"
        /\ stop' # "no"
    BY DEF Life!AskEntry, Life!DeadlinePasses, Life!AdvanceEntry, Life!EndOfPlan, Life!Decide
  <1>2. PlanIsComplete' /\ Unstopped' /\ SettledIsDrained' /\ WritersAreDrained'
    BY <1>1, PlanStands DEF LifeInv, Unstopped, SettledIsDrained, WritersAreDrained
  <1>3. GivenUpSafely'
    <2>1. UNCHANGED Life!UnsafeWriters
      BY <1>1 DEF Life!UnsafeWriters, Life!PlanWriters
    <2>2. CASE Life!Decide
      BY <2>1, <2>2 DEF Life!Decide, LifeInv, GivenUpSafely
    <2>3. CASE ~Life!Decide
      <3>1. owns' = owns /\ stop # "completed"
        BY <2>3 DEF Life!AskEntry, Life!DeadlinePasses, Life!AdvanceEntry, Life!EndOfPlan
      <3> QED BY <3>1 DEF LifeInv, GivenUpSafely
    <2> QED BY <2>2, <2>3
  <1>4. Life!TypeOK'
    <2>1. CASE Life!AskEntry
      <3>1. idx \in 1 .. Len(plan) /\ plan \in Seq(Life!Entry)
        BY <2>1 DEF Life!AskEntry, LifeInv, Life!TypeOK
      <3>2. plan[idx] \in Life!Entry
        BY <3>1
      <3>3. Life!Current.name \in Component
        BY <3>2 DEF Life!Current, Life!Entry
      <3>4. asked' = asked \cup {Life!Current.name} /\ up' = up \ {Life!Current.name}
            /\ UNCHANGED <<stop, idx, expired, owns>>
        BY <2>1 DEF Life!AskEntry
      <3> HIDE DEF Life!Current
      <3> QED BY <1>1, <3>3, <3>4 DEF LifeInv, Life!TypeOK
    <2>2. CASE Life!AdvanceEntry
      <3>1. idx <= Len(plan) /\ idx' = idx + 1 /\ UNCHANGED <<up, stop, asked, expired, owns>>
        BY <2>2 DEF Life!AdvanceEntry
      <3>2. Len(plan) \in Nat
        BY DEF LifeInv, Life!TypeOK
      <3> QED BY <1>1, <3>1, <3>2 DEF LifeInv, Life!TypeOK
    <2>3. CASE Life!DeadlinePasses \/ Life!EndOfPlan \/ Life!Decide
      <3>1. /\ stop' \in {"stopping", "settling", "completed", "retained"}
            /\ expired' \in BOOLEAN /\ owns' \in {owns, {}} /\ UNCHANGED <<idx, up, asked>>
        BY <2>3 DEF Life!DeadlinePasses, Life!EndOfPlan, Life!Decide, LifeInv, Life!TypeOK
      <3> QED BY <1>1, <3>1 DEF LifeInv, Life!TypeOK
    <2> QED BY <2>1, <2>2, <2>3
  <1> QED BY <1>2, <1>3, <1>4 DEF LifeInv

\* The ledger, the plan and the settled stops stay in the invariant whatever components the
\* instance is built with and wherever the stop falls.
THEOREM LifecycleInvariantHolds ==
    ASSUME Nothing \notin Component PROVE Life!Spec => []LifeInv
  <1>1. Life!Init => LifeInv
    <2> SUFFICES ASSUME Life!Init PROVE LifeInv
      OBVIOUS
    <2>1. Len(Life!StartSequence) = 36
      BY StepsRegister
    <2>2. /\ entries = <<>> /\ plan = <<>> /\ Len(entries) = 0 /\ Len(plan) = 0
          /\ entries \in Seq(Life!Entry) /\ plan \in Seq(Life!Entry)
      BY DEF Life!Init
    <2>3. /\ pc = 1 /\ idx = 1 /\ start = "starting" /\ awaiting = Nothing /\ up = {}
          /\ stop = "no" /\ asked = {} /\ settled = {} /\ failed = {} /\ expired = FALSE
          /\ owns = Ownership
      BY DEF Life!Init, Ownership
    <2>4. pc \in 1 .. Len(Life!StartSequence) + 1 /\ idx \in 1 .. Len(plan) + 1
      BY <2>1, <2>2, <2>3
    <2>5. Life!TypeOK
      BY <2>2, <2>3, <2>4 DEF Life!TypeOK, Ownership
    <2> QED
      BY <2>2, <2>3, <2>5
         DEF LifeInv, Unstopped, PlanIsComplete, SettledIsDrained, WritersAreDrained,
             GivenUpSafely
  <1>2. LifeInv /\ [Life!Next]_Life!vars => LifeInv'
    <2> SUFFICES ASSUME LifeInv, [Life!Next]_Life!vars PROVE LifeInv'
      OBVIOUS
    <2>1. CASE Life!RunStartStep
      BY <2>1, StartStepKeeps
    <2>2. CASE Life!FinishStart \/ Life!AwaitReturns \/ Life!AwaitThrows \/ Life!RequestStop
      BY <2>2, StartEndsKeep
    <2>3. CASE \E c \in Component : Life!StopSettles(c) \/ Life!StopRejects(c)
      BY <2>3, SettlingKeeps
    <2>4. CASE \/ Life!AskEntry \/ Life!DeadlinePasses \/ Life!AdvanceEntry
               \/ Life!EndOfPlan \/ Life!Decide
      BY <2>4, ShutdownKeeps
    <2>5. CASE UNCHANGED Life!vars
      <3>1. UNCHANGED <<pc, start, awaiting, entries, up, stop, plan, idx, asked, settled,
                        failed, expired, owns>>
        BY <2>5 DEF Life!vars
      <3>2. PlanIsComplete'
        BY <3>1, PlanStands DEF LifeInv
      <3>3. Life!TypeOK' /\ Unstopped' /\ SettledIsDrained' /\ WritersAreDrained'
        BY <3>1 DEF LifeInv, Life!TypeOK, Unstopped, SettledIsDrained, WritersAreDrained
      <3>4. GivenUpSafely'
        BY <3>1 DEF LifeInv, GivenUpSafely, Life!UnsafeWriters, Life!PlanWriters
      <3> QED BY <3>2, <3>3, <3>4 DEF LifeInv
    <2> QED BY <2>1, <2>2, <2>3, <2>4, <2>5 DEF Life!Next
  <1> QED BY <1>1, <1>2, PTL DEF Life!Spec

\* The lifecycle's variables keep their types; in particular the plan is a sequence of entries
\* of the ledger and the loop of performShutdown never leaves it.
THEOREM LifecycleTypeCorrect ==
    ASSUME Nothing \notin Component PROVE Life!Spec => []Life!TypeOK
  BY LifecycleInvariantHolds, PTL DEF LifeInv

\* performShutdown gives the fence, the lease and the store up only when every registered
\* writer has been asked to stop, has settled cleanly and has no work awaited by a start in
\* flight: for every choice of components, every stop request at every await, and any number
\* of hanging and rejecting stops.
THEOREM OwnershipIsHeld ==
    ASSUME Nothing \notin Component PROVE Life!Spec => []OwnershipOutlivesRegisteredWriters
  <1>1. LifeInv => OwnershipOutlivesRegisteredWriters
    <2> SUFFICES ASSUME LifeInv, owns # Ownership, NEW i \in 1 .. Len(entries),
                        entries[i].kind = "writer"
                 PROVE  entries[i].name \in settled \ failed /\ awaiting # entries[i].name
      BY DEF OwnershipOutlivesRegisteredWriters, Ownership
    <2>1. entries \in Seq(Life!Entry) /\ plan = Life!ShutdownPlan /\ Life!UnsafeWriters = {}
      BY DEF LifeInv, Life!TypeOK, GivenUpSafely, PlanIsComplete
    <2>2. PICK k \in 1 .. Len(plan) : plan[k] = entries[i]
      BY <2>1, PlanClosesEveryRegistration
    <2>3. entries[i].name \in Life!PlanWriters
      BY <2>2 DEF Life!PlanWriters
    <2>4. entries[i].name \in settled \ failed
      BY <2>1, <2>3 DEF Life!UnsafeWriters
    <2>5. entries[i].name # "healthServer"
      BY DEF LifeInv, WritersAreDrained
    <2> QED BY <2>4, <2>5 DEF LifeInv, SettledIsDrained
  <1> QED BY <1>1, LifecycleInvariantHolds, PTL
=============================================================================
