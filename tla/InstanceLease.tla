--------------------------- MODULE InstanceLease ---------------------------
(***************************************************************************)
(* The single-instance lease of the bridge: the row instance_lease of the  *)
(* SQLite database (store/sqlite/lease-store.ts), the controller each      *)
(* process keeps over it (runtime/instance-lease.ts), the write fence made *)
(* of temporary triggers, and the recovery of delivery claims that a prior *)
(* owner left behind (composition/managed-bridge-runtime.ts).              *)
(*                                                                         *)
(* A process is one incarnation of the service: it draws a fresh owner id  *)
(* (randomUUID), acquires at most once and never comes back; a restart is  *)
(* another process.  SQLite executes one transaction at a time, so each    *)
(* transaction is one step; time may pass between any two steps.           *)
(***************************************************************************)
EXTENDS Integers, FiniteSets

CONSTANTS
    Process,        \* incarnations of the service, each with its own owner id
    Nobody,         \* the owner of an absent lease row
    Reply,          \* ids of outbound_replies rows, ordered as SQLite orders them
    Ttl,            \* instanceLease.ttlMs
    BusyTimeout,    \* sqlite.busyTimeoutMs: how long an attempt may block
    BusyRetryBudget,\* sqlite.busyRetryBudgetMs
    BatchLimit,     \* STALE_DELIVERY_CLAIM_BATCH_LIMIT
    MaxTime         \* bound on the clock

ASSUME NobodyAssumption == Nobody \notin Process
ASSUME TimeAssumption == /\ Ttl \in Nat \ {0}
                         /\ BusyTimeout \in Nat
                         /\ BusyRetryBudget \in Nat
                         /\ MaxTime \in Nat
ASSUME ReplyAssumption == /\ Reply \subseteq Nat \ {0}
                          /\ IsFiniteSet(Reply)
                          /\ BatchLimit \in Nat \ {0}

VARIABLES
    now,     \* the host's clock
    lease,   \* the row of instance_lease
    ctl,     \* InstanceLeaseController.status of every process
    ren,     \* the renewal in flight (renewalPromise) of every process
    phase,   \* where createManagedBridgeRuntime / ManagedBridgeRuntime stand
    fence,   \* temp.bridge_write_fence and its triggers exist on the connection
    cursor,  \* StaleDeliveryClaimCursor of the startup recovery loop
    claim,   \* (claimed_owner_id, claimed_fence) of every reply
    dead,    \* replies dead-lettered as uncertain after owner loss
    epoch,   \* history: how many times the lease changed hands
    ep       \* history: the value epoch had when the process acquired

vars == <<now, lease, ctl, ren, phase, fence, cursor, claim, dead, epoch, ep>>
-----------------------------------------------------------------------------
NoLease == [owner |-> Nobody, token |-> 0, expires |-> 0]
NoClaim == [owner |-> Nobody, token |-> 0]
Released == [held |-> FALSE, token |-> 0, expires |-> 0]
NoDeadline == 0
NoRenewal == [st |-> "idle", started |-> 0, deadline |-> NoDeadline]
NoCursor == [after |-> 0, high |-> 0]

Phases == {"down", "bootstrap", "migrated", "detecting", "ready",
           "recovering", "paging", "interrupted", "lastPage", "running",
           "stopping", "retained", "stopped", "crashed"}

\* A stop was requested and the shutdown sequence is under way.
StopPhases == {"stopping", "interrupted", "lastPage"}

\* Phases in which this connection's writers may issue ordinary statements.
WriterPhases == {"running", "stopping", "retained"}

TypeOK ==
    /\ now \in Nat
    /\ lease \in [owner : Process \cup {Nobody}, token : Nat, expires : Nat]
    /\ ctl \in [Process -> [held : BOOLEAN, token : Nat, expires : Nat]]
    /\ ren \in [Process -> [st : {"idle", "entered", "waiting"},
                            started : Nat, deadline : Nat]]
    /\ phase \in [Process -> Phases]
    /\ fence \in [Process -> BOOLEAN]
    /\ cursor \in [Process -> [after : Nat, high : Nat]]
    /\ claim \in [Reply -> [owner : Process \cup {Nobody}, token : Nat]]
    /\ dead \subseteq Reply
    /\ epoch \in Nat
    /\ ep \in [Process -> Nat]

Init ==
    /\ now = 0
    /\ lease = NoLease
    /\ ctl = [p \in Process |-> Released]
    /\ ren = [p \in Process |-> NoRenewal]
    /\ phase = [p \in Process |-> "down"]
    /\ fence = [p \in Process |-> FALSE]
    /\ cursor = [p \in Process |-> NoCursor]
    /\ claim = [r \in Reply |-> NoClaim]
    /\ dead = {}
    /\ epoch = 0
    /\ ep = [p \in Process |-> 0]
-----------------------------------------------------------------------------
(* The row and the fence.                                                   *)

\* The row still carries p's owner id and token (it may have expired).
RowMatches(p) == lease.owner = p /\ lease.token = ctl[p].token

\* Faulty variant: the trigger compares the token and forgets the owner id.
FenceValidTokenOnly(p) == lease.token = ctl[p].token /\ lease.expires > now

\* assertLeaseOwner, the WHERE clause of the triggers, assertWriteFence: the
\* row carries p's owner id and token and has not expired.
FenceValid(p) == RowMatches(p) /\ lease.expires > now

\* DELETE FROM instance_lease WHERE owner_id=? AND fencing_token=?, guarded by
\* the controller's status.held.
RowAfterRelease(p) == IF ctl[p].held /\ RowMatches(p) THEN NoLease ELSE lease

\* A process blocked inside SQLite takes no other step; one awaiting the retry
\* timer does.
Free(p) == ren[p].st # "entered"

Me(p) == [owner |-> p, token |-> ctl[p].token]
-----------------------------------------------------------------------------
(* Acquisition and bootstrap.                                               *)

\* Faulty variant: an acquisition that rounds the expiry down.
CanAcquireEarly == lease.owner = Nobody \/ lease.expires <= now + 1

\* acquireInstanceLease: an absent row is inserted with token 1 and an expired
\* one is taken over with the next token; a live row refuses, and the process
\* exits.  (A row of the same owner cannot exist: owner ids are fresh.)
CanAcquire == lease.owner = Nobody \/ lease.expires <= now

Acquire(p) ==
    /\ phase[p] = "down"
    /\ IF CanAcquire
       THEN LET token == IF lease.owner = Nobody THEN 1 ELSE lease.token + 1
            IN  /\ lease' = [owner |-> p, token |-> token, expires |-> now + Ttl]
                /\ ctl' = [ctl EXCEPT ![p] = [held |-> TRUE, token |-> token,
                                              expires |-> now + Ttl]]
                /\ phase' = [phase EXCEPT ![p] = "bootstrap"]
                /\ epoch' = epoch + 1
                /\ ep' = [ep EXCEPT ![p] = epoch + 1]
       ELSE /\ phase' = [phase EXCEPT ![p] = "stopped"]
            /\ UNCHANGED <<lease, ctl, epoch, ep>>
    /\ UNCHANGED <<now, ren, fence, cursor, claim, dead>>

\* bootstrap.complete: the schema migration under the exclusive lock, which
\* asserts a live matching row before and after.
CompleteBootstrap(p) ==
    /\ phase[p] = "bootstrap"
    /\ FenceValid(p)
    /\ phase' = [phase EXCEPT ![p] = "migrated"]
    /\ UNCHANGED <<now, lease, ctl, ren, fence, cursor, claim, dead, epoch, ep>>

\* The catch of createManagedBridgeRuntime: the migration or the Agent
\* availability probe failed, or an awaited renewal lost the lease; release,
\* close, exit.  performStop ends the same way when activateWriteFence throws.
AbandonBootstrap(p) ==
    /\ \/ phase[p] \in {"bootstrap", "detecting"}
       \/ phase[p] = "migrated" /\ ~ctl[p].held
       \/ phase[p] = "ready" /\ ~FenceValid(p)
    /\ ren[p].st = "idle"
    /\ lease' = RowAfterRelease(p)
    /\ ctl' = [ctl EXCEPT ![p].held = FALSE]
    /\ ren' = [ren EXCEPT ![p] = NoRenewal]
    /\ phase' = [phase EXCEPT ![p] = "stopped"]
    /\ UNCHANGED <<now, fence, cursor, claim, dead, epoch, ep>>

\* performStart: activateWriteFence creates the triggers and asserts them;
\* a stale lease makes it throw and the start gives up (AbandonBootstrap).
ActivateWriteFence(p) ==
    /\ phase[p] = "ready"
    /\ ctl[p].held
    /\ FenceValid(p)
    /\ fence' = [fence EXCEPT ![p] = TRUE]
    /\ phase' = [phase EXCEPT ![p] = "recovering"]
    /\ UNCHANGED <<now, lease, ctl, ren, cursor, claim, dead, epoch, ep>>
-----------------------------------------------------------------------------
(* Renewal: single-flight, retried while SQLite is busy.                    *)

\* renewNow: the heartbeat timer, or an await of the start sequence.
BeginRenewal(p) ==
    /\ phase[p] \in {"migrated", "detecting", "recovering"}
                       \cup WriterPhases
    /\ ctl[p].held
    /\ ren[p].st = "idle"
    /\ ren' = [ren EXCEPT ![p] = [st |-> "entered", started |-> now,
                                  deadline |-> NoDeadline]]
    /\ UNCHANGED <<now, lease, ctl, phase, fence, cursor, claim, dead, epoch, ep>>

\* What an awaited renewal lets the start sequence do next.
AfterRenewal(ph) ==
    CASE ph = "migrated" -> "detecting"
      [] ph = "detecting" -> "ready"
      [] ph = "recovering" -> "paging"
      [] ph = "interrupted" -> "lastPage"
      [] OTHER -> ph

\* renewInstanceLease under the lock: the row must still be ours and unexpired
\* on the clock read inside the transaction.
RenewalMatches(p) == RowMatches(p) /\ lease.expires > now

RenewCommits(p) ==
    /\ ren[p].st = "entered"
    /\ RenewalMatches(p)
    /\ lease' = [lease EXCEPT !.expires = now + Ttl]
    /\ ctl' = [ctl EXCEPT ![p].expires = now + Ttl]
    /\ ren' = [ren EXCEPT ![p] = NoRenewal]
    /\ phase' = [phase EXCEPT ![p] = AfterRenewal(@)]
    /\ UNCHANGED <<now, fence, cursor, claim, dead, epoch, ep>>

\* Faulty variant: a loss that does not reach the stop sequence.
AfterLossSilent(ph) == ph

\* lose(): the timer and the retry wait are cancelled, held is cleared and,
\* once the heartbeat was started, onLost stops the runtime; before that the
\* awaiting start sequence throws and abandons the bootstrap.
AfterLoss(ph) ==
    IF ph \in {"recovering", "interrupted", "running"} THEN "stopping" ELSE ph

Lose(p) ==
    /\ ctl' = [ctl EXCEPT ![p].held = FALSE]
    /\ ren' = [ren EXCEPT ![p] = NoRenewal]
    /\ phase' = [phase EXCEPT ![p] = AfterLoss(@)]
    /\ UNCHANGED <<now, lease, fence, cursor, claim, dead, epoch, ep>>

\* A null result, or an SQLite failure other than busy or locked.
RenewFails(p) ==
    /\ ren[p].st = "entered"
    /\ Lose(p)

\* hasAttemptRoom: an attempt that blocks for the whole busy timeout still
\* returns by the deadline.
HasAttemptRoom(deadline) == now + BusyTimeout <= deadline

\* renewalDeadline, fixed at the first busy failure of this renewal.
RenewalDeadline(p) ==
    LET budgetEnd == ren[p].started + BusyTimeout + BusyRetryBudget
    IN  IF ren[p].deadline # NoDeadline THEN ren[p].deadline
        ELSE IF budgetEnd < ctl[p].expires THEN budgetEnd ELSE ctl[p].expires

\* SQLite busy or locked: wait for a jittered delay, or give up.
RenewBusy(p) ==
    /\ ren[p].st = "entered"
    /\ IF BusyRetryBudget > 0 /\ HasAttemptRoom(RenewalDeadline(p))
       THEN /\ ren' = [ren EXCEPT ![p].st = "waiting",
                                  ![p].deadline = RenewalDeadline(p)]
            /\ UNCHANGED <<now, lease, ctl, phase, fence, cursor, claim, dead, epoch, ep>>
       ELSE Lose(p)

\* The retry timer fires; the check at execution time is authoritative.
RetryRenewal(p) ==
    /\ ren[p].st = "waiting"
    /\ IF HasAttemptRoom(ren[p].deadline)
       THEN /\ ren' = [ren EXCEPT ![p].st = "entered"]
            /\ UNCHANGED <<now, lease, ctl, phase, fence, cursor, claim, dead, epoch, ep>>
       ELSE Lose(p)
-----------------------------------------------------------------------------
(* Claims of prior owners.                                                  *)

ForeignClaims(p) == {r \in Reply : claim[r] # NoClaim /\ claim[r] # Me(p)}

\* MAX(id) of the foreign claims on the first page, then the cursor's.
HighWater(p) ==
    IF cursor[p].high # 0 THEN cursor[p].high
    ELSE IF ForeignClaims(p) = {} THEN 0
    ELSE CHOOSE r \in ForeignClaims(p) : \A s \in ForeignClaims(p) : s <= r

\* Faulty variant: a cursor that is off by one.
CandidatesSkipping(p) ==
    {r \in ForeignClaims(p) : r > cursor[p].after + 1 /\ r <= HighWater(p)}

Candidates(p) ==
    {r \in ForeignClaims(p) : r > cursor[p].after /\ r <= HighWater(p)}

\* ORDER BY id LIMIT ?
FirstPage(S) == {r \in S : Cardinality({s \in S : s < r}) < BatchLimit}

\* recoverPriorOwnerClaimsBatch, after the awaited renewal: one transaction that
\* dead-letters a page of claims held under another owner or token.  A stale
\* fence throws, and the start stops the runtime.  The loop looks for a stop
\* request only before the renewal, so one more page may follow the request.
RecoverPriorOwnerClaimsBatch(p) ==
    /\ phase[p] \in {"paging", "lastPage"}
    /\ IF FenceValid(p)
       THEN LET page == FirstPage(Candidates(p))
                hasMore == page # Candidates(p)
            IN  /\ claim' = [r \in Reply |-> IF r \in page THEN NoClaim ELSE claim[r]]
                /\ dead' = dead \cup page
                /\ cursor' = [cursor EXCEPT ![p] =
                       IF page = {} THEN @
                       ELSE [after |-> CHOOSE r \in page : \A s \in page : s <= r,
                             high |-> HighWater(p)]]
                /\ phase' = [phase EXCEPT ![p] =
                       IF @ = "lastPage" THEN "stopping"
                       ELSE IF hasMore THEN "recovering" ELSE "running"]
       ELSE /\ phase' = [phase EXCEPT ![p] = "stopping"]
            /\ UNCHANGED <<claim, dead, cursor>>
    /\ UNCHANGED <<now, lease, ctl, ren, fence, epoch, ep>>

\* The delivery claim transaction of a running process: an UPDATE of
\* outbound_replies, which the trigger aborts unless the fence is valid.
ClaimReply(p, r) ==
    /\ phase[p] \in WriterPhases
    /\ Free(p)
    /\ fence[p] /\ FenceValid(p)
    /\ claim[r] = NoClaim /\ r \notin dead
    /\ claim' = [claim EXCEPT ![r] = Me(p)]
    /\ UNCHANGED <<now, lease, ctl, ren, phase, fence, cursor, dead, epoch, ep>>

\* The checkpoint that clears the claim, also behind the trigger.
SettleReply(p, r) ==
    /\ phase[p] \in WriterPhases
    /\ Free(p)
    /\ fence[p] /\ FenceValid(p)
    /\ claim[r] = Me(p)
    /\ claim' = [claim EXCEPT ![r] = NoClaim]
    /\ UNCHANGED <<now, lease, ctl, ren, phase, fence, cursor, dead, epoch, ep>>
-----------------------------------------------------------------------------
(* Stopping.                                                                *)

\* A signal, or a later start step that fails (stop("startup-failure")).  The
\* recovery loop may be awaiting a renewal when the signal arrives.
RequestStop(p) ==
    /\ phase[p] \in {"recovering", "running"}
    /\ Free(p)
    /\ phase' = [phase EXCEPT ![p] =
           IF @ = "recovering" /\ ren[p].st = "waiting" THEN "interrupted"
           ELSE "stopping"]
    /\ UNCHANGED <<now, lease, ctl, ren, fence, cursor, claim, dead, epoch, ep>>

\* performShutdown with every writer settled: the fence goes, then the lease,
\* then the store.  The three run back to back in one turn of the event loop.
\* stopSafely swallows a failing DELETE, which leaves the row to expire.
CompleteShutdown(p) ==
    /\ phase[p] \in StopPhases
    /\ Free(p)
    /\ fence' = [fence EXCEPT ![p] = FALSE]
    /\ \/ /\ lease' = RowAfterRelease(p)
          /\ ctl' = [ctl EXCEPT ![p].held = FALSE]
       \/ UNCHANGED <<lease, ctl>>
    /\ ren' = [ren EXCEPT ![p] = NoRenewal]
    /\ phase' = [phase EXCEPT ![p] = "stopped"]
    /\ UNCHANGED <<now, cursor, claim, dead, epoch, ep>>

\* performShutdown with an unsafe writer: fence, lease and store are kept, and
\* so is the heartbeat.
RetainOwnership(p) ==
    /\ phase[p] = "stopping"
    /\ Free(p)
    /\ phase' = [phase EXCEPT ![p] = "retained"]
    /\ UNCHANGED <<now, lease, ctl, ren, fence, cursor, claim, dead, epoch, ep>>

\* The process dies: its connection, with the temporary triggers, is gone; the
\* row and the claims stay.
Crash(p) ==
    /\ phase[p] \notin {"down", "stopped", "crashed"}
    /\ phase' = [phase EXCEPT ![p] = "crashed"]
    /\ ctl' = [ctl EXCEPT ![p] = Released]
    /\ ren' = [ren EXCEPT ![p] = NoRenewal]
    /\ fence' = [fence EXCEPT ![p] = FALSE]
    /\ UNCHANGED <<now, lease, cursor, claim, dead, epoch, ep>>

Tick ==
    /\ now < MaxTime
    /\ now' = now + 1
    /\ UNCHANGED <<lease, ctl, ren, phase, fence, cursor, claim, dead, epoch, ep>>
-----------------------------------------------------------------------------
Step(p) ==
    \/ Acquire(p)
    \/ CompleteBootstrap(p)
    \/ AbandonBootstrap(p)
    \/ ActivateWriteFence(p)
    \/ BeginRenewal(p)
    \/ RenewCommits(p)
    \/ RenewFails(p)
    \/ RenewBusy(p)
    \/ RetryRenewal(p)
    \/ RecoverPriorOwnerClaimsBatch(p)
    \/ \E r \in Reply : ClaimReply(p, r)
    \/ \E r \in Reply : SettleReply(p, r)
    \/ RequestStop(p)
    \/ CompleteShutdown(p)
    \/ RetainOwnership(p)
    \/ Crash(p)

Next == Tick \/ \E p \in Process : Step(p)

Spec == Init /\ [][Next]_vars

\* The event loop of a live process keeps turning, a blocked SQLite call
\* returns, and the shutdown deadline bounds the stop sequence.
Fairness ==
    \A p \in Process :
        /\ WF_vars(RenewCommits(p) \/ RenewFails(p) \/ RenewBusy(p))
        /\ WF_vars(RetryRenewal(p))
        /\ WF_vars(CompleteShutdown(p) \/ RetainOwnership(p))

FairSpec == Spec /\ Fairness
-----------------------------------------------------------------------------
(* What the lease promises.                                                 *)

\* Only the process that took the lease last can pass the write fence, although
\* a release deletes the row and the next acquisition starts again at token 1:
\* a paused or lost owner can never write behind the back of its successor.
FencedWriterIsLatest ==
    \A p \in Process : fence[p] /\ FenceValid(p) => ep[p] = epoch

\* What the controller believes until its own copy of the expiry passes is what
\* the row says: nobody takes the lease over early, and no failed, busy or
\* abandoned renewal leaves status.expiresAt ahead of expires_at_ms.
BelievedLeaseIsOwned ==
    \A p \in Process :
        (ctl[p].held /\ now < ctl[p].expires) =>
            RowMatches(p) /\ lease.expires = ctl[p].expires

\* Once the stale-claim recovery loop has paged to its end, a process whose
\* fence is valid meets no claim of another owner: paging by (afterId,
\* highWaterId) across awaited renewals skips nothing, and nobody adds a claim
\* behind the cursor.
NoForeignClaimWhileRunning ==
    \A p \in Process :
        (phase[p] = "running" /\ FenceValid(p)) => ForeignClaims(p) = {}

\* A process whose controller lost the lease while its fence was active goes out
\* of service: the loss reaches the stop sequence from every start phase, and
\* the stop sequence ends.
LostLeaseLeavesService ==
    \A p \in Process :
        (fence[p] /\ ~ctl[p].held)
            ~> phase[p] \in {"stopped", "retained", "crashed"}
=============================================================================
