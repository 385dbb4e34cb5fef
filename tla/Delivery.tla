------------------------------ MODULE Delivery ------------------------------
(***************************************************************************)
(* The Ring delivery of Gateway effects for one Primary pane: the durable  *)
(* outbox (SqlitePreparedDeliveryStore, the failure transition and the     *)
(* operator's dead-letter action), the in-process RingDeliveryEngine that  *)
(* caches and executes it, and the Feishu provider at the far end.         *)
(*                                                                         *)
(* A reply is its delivery_order.  Three kinds of effect share the Ring:   *)
(*   card    a card_update carrying a projection key; all cards of the     *)
(*           pane replace one surface, so they share a lane, a conflict    *)
(*           key and a projection, and the order is the snapshot revision; *)
(*   text    an immutable effect of its own lane ("big": one whose plan    *)
(*           exceeds the byte limit of the pane's Ring);                   *)
(*   stream  a stream_card_create of its own lane, executed as two         *)
(*           provider calls with a durable checkpoint between them;        *)
(*   review  the Human Review card reserved for a quarantined lane.        *)
(* One transaction of the store, or one synchronous stretch of the engine  *)
(* between two awaits, is one action.  Wall-clock time is left out: being  *)
(* due, the cooldown and the grace deadline end by an action of their own. *)
(***************************************************************************)
EXTENDS Integers, Sequences, FiniteSets, FiniteSetsExt

CONSTANTS
  MaxUsers,     \* bound: replies reserved by projections; each may need a review
  RingLimit,    \* paneItems: the number of replies a Ring may cache
  Attempts,     \* maximumAttempts of the retry policy
  Scenarios     \* what the environment may do: see Scenario

AllKinds == {"card", "text", "big", "stream"}
AllFailures == {"permanent", "defunct", "throttled", "transient", "rejected", "uncertain"}

(* A scenario bounds the environment of one behaviour: the kinds and the       *)
(* number of replies reserved, the ways a provider call may fail, and how many *)
(* process losses, claims renewed too late, renewals failing in SQLite,        *)
(* session rotations, topic resets and operator's decisions there are.         *)
Scenario ==
  [kinds : SUBSET AllKinds, users : 0..MaxUsers, failures : SUBSET AllFailures,
   crash : Nat, lapse : Nat, renew : Nat, clear : Nat, cutover : 0..1, operate : Nat]

ASSUME DeliveryAssumption ==
  /\ MaxUsers \in Nat \ {0} /\ RingLimit \in Nat \ {0} /\ Attempts \in Nat \ {0}
  /\ Scenarios \subseteq Scenario

Reply == 1..2 * MaxUsers
Lane == 0..2 * MaxUsers          \* 0 is the lane all cards share
NoReply == 0

VARIABLES
  row,        \* outbound_replies, by delivery order
  q,          \* outbox_lane_quarantines, by lane
  ckp,        \* delivery_ring_checkpoints.committed_delivery_order
  cooldown,   \* lark_delivery_cooldowns: a 429 suspends every claim
  owner,      \* the binding: its session epoch, and whether it is archived
  eng,        \* RingDeliveryEngine.state
  ring,       \* PreparedDeliveryRing.queue
  direct,     \* RingDeliveryEngine.oversized for this Ring, and its ready token
  exec,       \* the execution holding the Ring's grant
  wire,       \* provider: requests under way, and whether they were applied
  effects,    \* provider: visible effects of each reply
  made,       \* provider: card entities created for each stream
  late,       \* provider: replies applied after a younger one of the same key
  waived,     \* replies dismissed by an operator or by a cutover
  left        \* what the environment may still do

durable == <<row, q, ckp, cooldown, owner>>
process == <<eng, ring, direct, exec>>
world == <<wire, effects, made, late, waived>>
vars == <<durable, process, world, left>>

-----------------------------------------------------------------------------
(* The rows of the outbox.                                                 *)

EmptyRow == [kind |-> "none", st |-> "none", claimed |-> FALSE, tries |-> 0,
             why |-> "none", due |-> TRUE, ckpt |-> FALSE, epoch |-> 0]
EmptyLane == [on |-> FALSE, isolated |-> FALSE, failed |-> NoReply, review |-> NoReply]

Used == {r \in Reply : row[r].st # "none"}
Users == {r \in Used : row[r].kind # "review"}
LaneOf(r) == IF row[r].kind = "card" THEN 0 ELSE r
Denied(r) == row[r].why \in {"permanent", "transient", "rejected"}
Current(r) == ~owner.archived /\ row[r].epoch = owner.epoch
Nonterminal(r) == row[r].st \in {"pending", "dead_letter"}
Blockers == {r \in Reply : Nonterminal(r)}

\* A new row: queue.enqueue of a reservation.
NewRow(kind) == [EmptyRow EXCEPT !.kind = kind, !.st = "pending", !.epoch = owner.epoch]

\* Faulty variant: a dead letter counts as settled.
SafeOrderSkipsDead(table) ==
  LET blocking == {r \in Reply : table[r].st = "pending"}
      used == {r \in Reply : table[r].st # "none"}
  IN IF blocking # {} THEN Min(blocking) - 1 ELSE Cardinality(used)

(* The order up to which every reply is settled, of a given table of rows. *)
SafeOrder(table) ==
  LET blocking == {r \in Reply : table[r].st \in {"pending", "dead_letter"}}
      used == {r \in Reply : table[r].st # "none"}
  IN IF blocking # {} THEN Min(blocking) - 1 ELSE Cardinality(used)

\* Quarantines of the given replies are released; the review link stays.
Released(replies) ==
  [l \in Lane |-> IF q[l].on /\ q[l].failed \in replies THEN [q[l] EXCEPT !.on = FALSE] ELSE q[l]]

\* The upsert of a lane's quarantine: review_reply_id is not among its columns.
Quarantine(r, active) ==
  [q EXCEPT ![LaneOf(r)] = [@ EXCEPT !.on = active, !.isolated = FALSE, !.failed = r]]

-----------------------------------------------------------------------------
(* Which reply may be claimed, and which one a page of the scope offers.   *)

ActiveClaim == \E s \in Reply : row[s].st = "pending" /\ row[s].claimed
GraceBlocked == \E l \in Lane : q[l].on /\ ~q[l].isolated
Isolated(l) == q[l].on /\ q[l].isolated
SameKeyOlder(r) == \E s \in Blockers : s < r /\ LaneOf(s) = LaneOf(r)
IsolatedGapBefore(r) ==
  \E l \in Lane : Isolated(l) /\ q[l].failed < r /\ q[l].failed \in Blockers

\* Faulty variant: the order of the Ring is trusted, older durable rows are not consulted.
ClaimEligibleByRing(r) == ~ActiveClaim /\ ~GraceBlocked /\ ~Isolated(LaneOf(r))

ClaimEligible(r) ==
  /\ ~ActiveClaim
  /\ ~GraceBlocked
  /\ ~Isolated(LaneOf(r))
  /\ ~SameKeyOlder(r)
  /\ (\A s \in Blockers : s >= r) \/ IsolatedGapBefore(r)

BypassEligible(r) ==
  /\ row[r].st = "pending" /\ ~row[r].claimed /\ row[r].due
  /\ IsolatedGapBefore(r)
  /\ ~Isolated(LaneOf(r))
  /\ ~SameKeyOlder(r)
  /\ ~ActiveClaim

\* Faulty variant: the page offers the oldest blocker only, isolated or not.
HeadReplyOldest ==
  LET claimed == {r \in Blockers : row[r].claimed}
  IN IF claimed # {} THEN Min(claimed) ELSE IF Blockers # {} THEN Min(Blockers) ELSE NoReply

\* head_reply_id of the page: the claimed reply, a bypass, or the oldest blocker.
HeadReply ==
  LET claimed == {r \in Blockers : row[r].claimed}
      bypass == {r \in Reply : BypassEligible(r)}
  IN IF claimed # {} THEN Min(claimed)
     ELSE IF bypass # {} THEN Min(bypass)
     ELSE IF Blockers # {} THEN Min(Blockers) ELSE NoReply

HeadStatus(r) ==
  IF row[r].st = "dead_letter" THEN "dead_letter"
  ELSE IF row[r].claimed THEN "claimed"
  ELSE IF \E l \in Lane : q[l].on /\ (~q[l].isolated \/ l = LaneOf(r)) THEN "quarantined"
  ELSE IF cooldown THEN "cooldown_blocked"
  ELSE IF ~row[r].due THEN "future_due"
  ELSE "ready"

-----------------------------------------------------------------------------
(* The cache: PreparedDeliveryRing and the oversized slot.                 *)

\* PreparedDeliveryRing.offer: in order, within the item limit and the byte limit.
Accepts(r, kind) ==
  /\ ring = <<>> \/ ring[Len(ring)] < r
  /\ Len(ring) < RingLimit
  /\ kind # "big"

\* The Ring takes a hydrated head; an oversized one goes to the direct slot.
OfferCold(r) ==
  IF row[r].kind = "big"
  THEN /\ ring' = ring
       /\ direct' = IF direct.r = NoReply /\ ring = <<>> THEN [r |-> r, token |-> TRUE] ELSE direct
  ELSE /\ ring' = IF Accepts(r, row[r].kind) THEN Append(ring, r) ELSE ring
       /\ direct' = direct

Idle == [at |-> "idle", r |-> NoReply, lost |-> FALSE]

\* discard(ring): whatever is at the head leaves, also when the direct slot ran.
Discarded == IF ring = <<>> THEN ring ELSE Tail(ring)

\* drain: the direct slot is preferred; a token or a cached head grants the Ring.
Granted == IF direct.r # NoReply THEN direct.r ELSE ring[1]
CanGrant ==
  /\ eng = "running" /\ exec.at = "idle"
  /\ ring # <<>> \/ (direct.r # NoReply /\ direct.token)

-----------------------------------------------------------------------------
Init ==
  /\ row = [r \in Reply |-> EmptyRow]
  /\ q = [l \in Lane |-> EmptyLane]
  /\ ckp = 0
  /\ cooldown = FALSE
  /\ owner = [epoch |-> 0, archived |-> FALSE]
  /\ eng = "down"
  /\ ring = <<>>
  /\ direct = [r |-> NoReply, token |-> FALSE]
  /\ exec = Idle
  /\ wire = [r \in Reply |-> "none"]
  /\ effects = [r \in Reply |-> 0]
  /\ made = [r \in Reply |-> 0]
  /\ late = {}
  /\ waived = {}
  /\ left \in Scenarios

Spend(bound) == left[bound] > 0 /\ left' = [left EXCEPT ![bound] = @ - 1]

-----------------------------------------------------------------------------
(* Reservation.                                                            *)

\* Cards that a newer snapshot of their projection replaces: tried, and known
\* not to have been applied.
ConfirmedNotApplied ==
  {s \in Reply : /\ row[s].kind = "card" /\ row[s].st = "pending" /\ ~row[s].claimed
                 /\ row[s].tries > 0 /\ ~row[s].ckpt /\ Denied(s)}

\* reserve + enqueue: the row is committed, then offered to the Ring.
Enqueue(kind) ==
  /\ eng # "down" /\ ~owner.archived
  /\ kind \in left.kinds /\ Cardinality(Users) < left.users
  /\ LET r == Cardinality(Used) + 1
         superseded == IF kind = "card" THEN ConfirmedNotApplied ELSE {}
     IN /\ row' = [s \in Reply |-> IF s = r THEN NewRow(kind)
                                   ELSE IF s \in superseded THEN [row[s] EXCEPT !.st = "dismissed"]
                                   ELSE row[s]]
        /\ q' = Released(superseded)
        /\ ring' = IF Accepts(r, kind) THEN Append(ring, r) ELSE ring
  /\ UNCHANGED <<ckp, cooldown, owner, eng, direct, exec, world, left>>

-----------------------------------------------------------------------------
(* Execution of the granted reply, up to its first provider request.       *)

\* advanceSupersededHead: r is a card at the head of the scope, known not to have
\* been applied, and a newer unclaimed snapshot of its projection waits.
Superseded(r) ==
  /\ row[r].kind = "card" /\ Nonterminal(r) /\ ~row[r].claimed
  /\ ~row[r].ckpt /\ Denied(r) /\ Current(r)
  /\ \E s \in Reply : s > r /\ row[s].kind = "card" /\ row[s].st = "pending" /\ ~row[s].claimed
  /\ \A s \in Blockers : s >= r
  /\ ~(q[LaneOf(r)].on /\ q[LaneOf(r)].failed # r)

Dismissed(r) == [row EXCEPT ![r].st = "dismissed"]

SupersedeGranted ==
  /\ CanGrant
  /\ Superseded(Granted)
  /\ row' = Dismissed(Granted)
  /\ q' = Released({Granted})
  /\ ckp' = SafeOrder(row')
  /\ ring' = <<>>
  /\ direct' = [direct EXCEPT !.token = FALSE]
  /\ UNCHANGED <<cooldown, owner, eng, exec, world, left>>

\* claimGenericPrimaryDelivery.
CanClaim(r) ==
  /\ row[r].st = "pending" /\ row[r].due /\ ~row[r].claimed
  /\ Current(r)
  /\ ClaimEligible(r)
  /\ ~cooldown

\* The first provider call: a stream without a checkpoint creates its card first.
ClaimGranted ==
  /\ CanGrant
  /\ ~Superseded(Granted)
  /\ CanClaim(Granted)
  /\ row' = [row EXCEPT ![Granted].claimed = TRUE]
  /\ IF row[Granted].kind = "stream" /\ ~row[Granted].ckpt
     THEN /\ exec' = [at |-> "create", r |-> Granted, lost |-> FALSE]
          /\ wire' = wire
     ELSE /\ exec' = [at |-> "send", r |-> Granted, lost |-> FALSE]
          /\ wire' = [wire EXCEPT ![Granted] = "flying"]
  /\ direct' = [direct EXCEPT !.token = FALSE]
  /\ UNCHANGED <<q, ckp, cooldown, owner, eng, ring, effects, made, late, waived, left>>

\* dismissStaleGenericPrimaryDelivery.
StaleDismissable(r) ==
  /\ row[r].st = "pending" /\ ~row[r].claimed
  /\ row[r].why # "uncertain" /\ ~row[r].ckpt
  /\ ~Current(r)

\* No claim: a stale reply is dismissed, and the head of the Ring is discarded.
RefuseGranted ==
  /\ CanGrant
  /\ ~Superseded(Granted)
  /\ ~CanClaim(Granted)
  /\ row' = IF StaleDismissable(Granted) THEN Dismissed(Granted) ELSE row
  /\ ckp' = IF StaleDismissable(Granted) THEN SafeOrder(row') ELSE ckp
  /\ ring' = Discarded
  /\ direct' = [direct EXCEPT !.token = FALSE]
  /\ UNCHANGED <<q, cooldown, owner, eng, exec, world, left>>

-----------------------------------------------------------------------------
(* Settlement of the execution.                                            *)

\* claimedReply: the row still carries this execution's claim.
ClaimHeld(r) == row[r].st = "pending" /\ row[r].claimed

\* Faulty variant: an attempt of unknown outcome is retried like any other.
AfterAttemptRetriesUnknown(r, f) ==
  LET tries == row[r].tries + 1
      final == f \in {"permanent", "defunct"} \/ tries >= Attempts
  IN [row[r] EXCEPT !.st = IF final THEN "dead_letter" ELSE "pending", !.claimed = FALSE,
                    !.tries = tries, !.why = f, !.due = final]

\* The row after markDeadLetter or markFailed of one failed attempt.
AfterAttempt(r, f) ==
  LET tries == row[r].tries + 1
      final == f \in {"uncertain", "permanent", "defunct"} \/ tries >= Attempts
      class == CASE f = "defunct" -> "permanent" [] f = "throttled" -> "transient" [] OTHER -> f
  IN [row[r] EXCEPT !.st = IF final THEN "dead_letter" ELSE "pending", !.claimed = FALSE,
                    !.tries = tries, !.why = class, !.due = final]

PendingInLane(r) == \E s \in Reply \ {r} : row[s].st = "pending" /\ LaneOf(s) = LaneOf(r)
NewerCard(r) == \E s \in Reply : s > r /\ row[s].kind = "card" /\ row[s].st = "pending"

\* Faulty variant: a newer snapshot replaces the failed card whatever its certainty.
FailClaimedReplacesUncertain(r, f) ==
  LET after == AfterAttempt(r, f)
      replaced == row[r].kind = "card" /\ after.st = "dead_letter" /\ NewerCard(r)
  IN /\ row' = [row EXCEPT ![r] = IF replaced THEN [after EXCEPT !.st = "dismissed"] ELSE after]
     /\ q' = IF after.st = "dead_letter" THEN Quarantine(r, ~replaced) ELSE q
     /\ cooldown' = (cooldown \/ f = "throttled")

\* OutboundFailureTransitionProtocol.apply, on the row and on its lane.
FailClaimed(r, f) ==
  LET after == AfterAttempt(r, f)
      exhausted == /\ after.tries >= Attempts /\ after.st = "dead_letter" /\ ~after.ckpt
                   /\ after.why \in {"permanent", "transient"}
      retried == after.st # "dead_letter" \/ after.why = "transient"
      defunct == f = "defunct" /\ ~PendingInLane(r)
      replaced == /\ row[r].kind = "card" /\ f # "uncertain" /\ NewerCard(r)
                  /\ ~after.ckpt /\ Current(r)
  IN /\ row' = [row EXCEPT ![r] =
                  IF exhausted \/ (~retried /\ (defunct \/ replaced))
                  THEN [after EXCEPT !.st = "dismissed"] ELSE after]
     /\ q' = IF exhausted THEN Released({r})
             ELSE IF retried THEN q
             ELSE Quarantine(r, ~(defunct \/ replaced))
     /\ cooldown' = (cooldown \/ f = "throttled")

\* failPreparedDelivery, then the end of execute: without the claim nothing is written.
Fail(r, f) ==
  /\ IF ClaimHeld(r) THEN FailClaimed(r, f) ELSE UNCHANGED <<row, q, cooldown>>
  /\ exec' = Idle
  /\ ring' = Discarded
  /\ UNCHANGED <<ckp, owner, eng, direct, late, waived, left>>

\* Faulty variant: the card id is used but not persisted.
CardCreatedUnrecorded ==
  /\ exec.at = "create"
  /\ made' = [made EXCEPT ![exec.r] = @ + 1]
  /\ exec' = [exec EXCEPT !.at = "send"]
  /\ wire' = [wire EXCEPT ![exec.r] = "flying"]
  /\ UNCHANGED <<durable, eng, ring, direct, effects, late, waived, left>>

\* The card entity exists: its id is checkpointed before the message is sent.
CardCreated ==
  /\ exec.at = "create"
  /\ made' = [made EXCEPT ![exec.r] = @ + 1]
  /\ UNCHANGED effects
  /\ IF ClaimHeld(exec.r)
     THEN /\ row' = [row EXCEPT ![exec.r].ckpt = TRUE]
          /\ exec' = [exec EXCEPT !.at = "send"]
          /\ wire' = [wire EXCEPT ![exec.r] = "flying"]
          /\ UNCHANGED <<q, ckp, cooldown, owner, eng, ring, direct, late, waived, left>>
     ELSE Fail(exec.r, "uncertain") /\ UNCHANGED wire

\* The create fails; an uncertain one may have left a card entity behind.
CreateFails(f) ==
  /\ exec.at = "create"
  /\ \E extra \in IF f = "uncertain" THEN {0, 1} ELSE {0} :
       made' = [made EXCEPT ![exec.r] = @ + extra]
  /\ Fail(exec.r, f)
  /\ UNCHANGED <<wire, effects>>

\* The provider rejects or never receives the request, or its outcome is unknown:
\* an uncertain request may still be applied later.
SendFails(f) ==
  /\ exec.at = "send"
  /\ f = "uncertain" \/ wire[exec.r] = "flying"
  /\ wire' = IF f = "uncertain" /\ wire[exec.r] = "flying" THEN wire
             ELSE [wire EXCEPT ![exec.r] = "none"]
  /\ Fail(exec.r, f)
  /\ UNCHANGED <<effects, made>>

\* acknowledgePreparedDelivery; a lost renewal or a lost claim makes it uncertain.
Acknowledge ==
  /\ exec.at = "send"
  /\ wire[exec.r] = "applied"
  /\ wire' = [wire EXCEPT ![exec.r] = "none"]
  /\ IF exec.lost \/ ~ClaimHeld(exec.r)
     THEN Fail(exec.r, "uncertain")
     ELSE /\ row' = [row EXCEPT ![exec.r].st = "delivered", ![exec.r].claimed = FALSE,
                                ![exec.r].why = "none", ![exec.r].tries = @ + 1]
          /\ ckp' = SafeOrder(row')
          /\ exec' = Idle
          /\ ring' = Discarded
          /\ UNCHANGED <<q, cooldown, owner, eng, direct, late, waived, left>>
  /\ UNCHANGED <<effects, made>>

\* renewClaim fails: the row no longer carries the claim, or SQLite raised.
RenewalLost ==
  /\ exec.at # "idle" /\ ~exec.lost
  /\ Spend("renew")
  /\ exec' = [exec EXCEPT !.lost = TRUE]
  /\ UNCHANGED <<durable, eng, ring, direct, world>>

-----------------------------------------------------------------------------
(* Recovery and maintenance.                                               *)

\* A page of the scope: the checkpoint is recomputed and a ready head offered.
LoadPage ==
  /\ ckp' = SafeOrder(row)
  /\ IF HeadReply # NoReply /\ HeadStatus(HeadReply) = "ready"
     THEN OfferCold(HeadReply) ELSE UNCHANGED <<ring, direct>>

Refill ==
  /\ eng = "running"
  /\ LoadPage
  /\ UNCHANGED <<row, q, cooldown, owner, eng, exec, world, left>>

\* The first global refill completes: the engine starts granting.
StartupRecovered ==
  /\ eng = "starting"
  /\ LoadPage
  /\ eng' = "running"
  /\ UNCHANGED <<row, q, cooldown, owner, exec, world, left>>

\* recoverExpiredRingClaims: the claim ran out before its renewal was written.
RecoverExpiredClaim(r) ==
  /\ eng # "down" /\ ClaimHeld(r)
  /\ Spend("lapse")
  /\ row' = [row EXCEPT ![r].st = "dead_letter", ![r].claimed = FALSE, ![r].why = "uncertain"]
  /\ q' = Quarantine(r, TRUE)
  /\ UNCHANGED <<ckp, cooldown, owner, process, world>>

\* A lane leaves its grace: it is isolated, and its review is reserved unless
\* the lane already has one or the failed reply is a review itself.
Degrade(l) ==
  LET failed == q[l].failed
      reviewed == /\ row[failed].st = "dead_letter" /\ row[failed].kind # "review"
                  /\ q[l].review = NoReply
      r == Cardinality(Used) + 1
  IN /\ row' = IF reviewed THEN [row EXCEPT ![r] = NewRow("review")] ELSE row
     /\ q' = [q EXCEPT ![l].isolated = TRUE, ![l].review = IF reviewed THEN r ELSE @]

GraceExpires(l) ==
  /\ eng # "down" /\ q[l].on /\ ~q[l].isolated
  /\ Degrade(l)
  /\ UNCHANGED <<ckp, cooldown, owner, process, world, left>>

\* The owner is archived and the head was permanently rejected: provider codes
\* 200750 and 230031 let the maintenance retire it.
Retirable(r) ==
  /\ owner.archived /\ row[r].epoch = owner.epoch
  /\ row[r].st = "dead_letter" /\ row[r].why = "permanent" /\ ~row[r].ckpt /\ ~row[r].claimed
  /\ q[LaneOf(r)].on /\ q[LaneOf(r)].failed = r
  /\ \A s \in Blockers : s >= r

\* recoverQuarantinedRingHeads on the head of the scope.
RecoverHead ==
  /\ eng # "down" /\ HeadReply # NoReply
  /\ HeadStatus(HeadReply) \in {"dead_letter", "quarantined"}
  /\ Superseded(HeadReply) \/ Retirable(HeadReply)
  /\ row' = Dismissed(HeadReply)
  /\ q' = Released({HeadReply})
  /\ ckp' = IF Superseded(HeadReply) THEN SafeOrder(row') ELSE SafeOrder(row)
  /\ UNCHANGED <<cooldown, owner, process, world, left>>

\* dismissRejectedQuarantineReviewBatch.
DismissRejectedReview(r) ==
  /\ eng # "down"
  /\ row[r].kind = "review" /\ row[r].st = "dead_letter" /\ ~row[r].claimed
  /\ row[r].why \in {"permanent", "rejected"}
  /\ q[r].on /\ q[r].failed = r
  /\ row' = Dismissed(r)
  /\ q' = Released({r})
  /\ UNCHANGED <<ckp, cooldown, owner, process, world, left>>

BecomeDue(r) ==
  /\ row[r].st = "pending" /\ ~row[r].due
  /\ row' = [row EXCEPT ![r].due = TRUE]
  /\ UNCHANGED <<q, ckp, cooldown, owner, process, world, left>>

CooldownEnds ==
  /\ cooldown /\ cooldown' = FALSE
  /\ UNCHANGED <<row, q, ckp, owner, process, world, left>>

-----------------------------------------------------------------------------
(* The owner, the operator, the process and the provider.                  *)

\* DeadLetterAction.apply(retry): the effect is known not to have happened.
ManualRetry(r) ==
  /\ eng # "down" /\ row[r].st = "dead_letter"
  /\ Denied(r) /\ row[r].kind # "card" /\ ~row[r].ckpt
  /\ Spend("operate")
  /\ row' = [row EXCEPT ![r].st = "pending", ![r].tries = 0, ![r].due = TRUE]
  /\ q' = Released({r})
  /\ UNCHANGED <<ckp, cooldown, owner, process, world>>

\* DeadLetterAction.apply(dismiss).
ManualDismiss(r) ==
  /\ eng # "down" /\ row[r].st = "dead_letter"
  /\ Spend("operate")
  /\ row' = Dismissed(r)
  /\ q' = Released({r})
  /\ waived' = waived \cup {r}
  /\ UNCHANGED <<ckp, cooldown, owner, process, wire, effects, made, late>>

\* applyRotationReceipt: the binding's session epoch moves on, its rows stay.  The withdrawals it
\* reserves for answers already shown are immutable effects like those of Enqueue.
SessionCleared ==
  /\ eng # "down" /\ ~owner.archived
  /\ Spend("clear")
  /\ owner' = [owner EXCEPT !.epoch = @ + 1]
  /\ UNCHANGED <<row, q, ckp, cooldown, process, world>>

\* cutoverResetCandidate: the owner is archived, its pending rows are dismissed
\* with whatever claim they carry.
CutoverReset ==
  /\ eng # "down" /\ ~owner.archived
  /\ Spend("cutover")
  /\ owner' = [owner EXCEPT !.archived = TRUE]
  /\ row' = [r \in Reply |-> IF row[r].st = "pending" THEN [row[r] EXCEPT !.st = "dismissed"] ELSE row[r]]
  /\ waived' = waived \cup {r \in Reply : row[r].st = "pending"}
  /\ UNCHANGED <<q, ckp, cooldown, process, wire, effects, made, late>>

\* The process is lost with its cache; requests under way are not called back.
Crash ==
  /\ eng # "down"
  /\ Spend("crash")
  /\ eng' = "down"
  /\ ring' = <<>>
  /\ direct' = [r |-> NoReply, token |-> FALSE]
  /\ exec' = Idle
  /\ wire' = [r \in Reply |-> IF wire[r] = "applied" THEN "none" ELSE wire[r]]
  /\ UNCHANGED <<durable, effects, made, late, waived>>

\* recoverPriorOwnerClaimsBatch, then the engine starts: whatever still carries a
\* claim of the previous owner becomes an uncertain dead letter.
Start ==
  /\ eng = "down"
  /\ eng' = "starting"
  /\ LET prior == {r \in Reply : row[r].claimed}
     IN /\ row' = [r \in Reply |-> IF r \in prior
                     THEN [row[r] EXCEPT !.st = "dead_letter", !.claimed = FALSE, !.why = "uncertain"]
                     ELSE row[r]]
        /\ q' = [l \in Lane |-> IF \E r \in prior : LaneOf(r) = l
                   THEN [q[l] EXCEPT !.on = TRUE, !.isolated = FALSE,
                                     !.failed = CHOOSE r \in prior : LaneOf(r) = l]
                   ELSE q[l]]
  /\ UNCHANGED <<ckp, cooldown, owner, ring, direct, exec, world, left>>

\* The provider applies a request: the effect becomes visible.
ProviderApplies(r) ==
  /\ wire[r] = "flying"
  /\ wire' = [wire EXCEPT ![r] = IF exec.at = "send" /\ exec.r = r THEN "applied" ELSE "none"]
  /\ effects' = [effects EXCEPT ![r] = @ + 1]
  /\ late' = IF \E s \in Reply : s > r /\ LaneOf(s) = LaneOf(r) /\ effects[s] > 0
             THEN late \cup {r} ELSE late
  /\ UNCHANGED <<durable, process, made, waived, left>>

-----------------------------------------------------------------------------
Execute == SupersedeGranted \/ ClaimGranted \/ RefuseGranted
Respond ==
  \/ CardCreated
  \/ Acknowledge
  \/ \E f \in left.failures : CreateFails(f) \/ SendFails(f)
Settle ==
  \/ RecoverHead
  \/ \E l \in Lane : GraceExpires(l)
  \/ \E r \in Reply : DismissRejectedReview(r)
Tick == CooldownEnds \/ \E r \in Reply : BecomeDue(r)

Next ==
  \/ \E kind \in AllKinds : Enqueue(kind)
  \/ Execute \/ Respond \/ RenewalLost
  \/ Refill \/ StartupRecovered \/ Settle \/ Tick
  \/ \E r \in Reply : RecoverExpiredClaim(r)
  \/ \E r \in Reply : ManualRetry(r) \/ ManualDismiss(r) \/ ProviderApplies(r)
  \/ SessionCleared \/ CutoverReset \/ Crash \/ Start

Spec == Init /\ [][Next]_vars

(* The process is restarted, its event loop turns, its timers fire and requests  *)
(* time out; the safety scan of the maintenance repeats.  Nothing is assumed of  *)
(* the provider, the operator, the owner or the projections.                     *)
Fairness ==
  /\ WF_vars(Start \/ StartupRecovered \/ Execute \/ Respond)
  /\ WF_vars(Refill)
  /\ WF_vars(Settle)
  /\ WF_vars(Tick)

FairSpec == Spec /\ Fairness

-----------------------------------------------------------------------------
(* Properties.                                                             *)

\* Types of all variables; in particular the cache keeps its limit (PreparedDeliveryRing.offer).
TypeOK ==
  /\ row \in [Reply -> [kind : AllKinds \cup {"none", "review"},
                        st : {"none", "pending", "delivered", "dead_letter", "dismissed"},
                        claimed : BOOLEAN, tries : 0..Attempts,
                        why : {"none", "permanent", "transient", "rejected", "uncertain"},
                        due : BOOLEAN, ckpt : BOOLEAN, epoch : Nat]]
  /\ q \in [Lane -> [on : BOOLEAN, isolated : BOOLEAN, failed : Reply \cup {NoReply},
                     review : Reply \cup {NoReply}]]
  /\ ckp \in 0..2 * MaxUsers
  /\ cooldown \in BOOLEAN
  /\ owner \in [epoch : Nat, archived : BOOLEAN]
  /\ eng \in {"down", "starting", "running"}
  /\ ring \in Seq(Reply) /\ Len(ring) <= RingLimit
  /\ direct \in [r : Reply \cup {NoReply}, token : BOOLEAN]
  /\ exec \in [at : {"idle", "create", "send"}, r : Reply \cup {NoReply}, lost : BOOLEAN]
  /\ wire \in [Reply -> {"none", "flying", "applied"}]
  /\ effects \in [Reply -> Nat] /\ made \in [Reply -> Nat]
  /\ late \subseteq Reply /\ waived \subseteq Reply
  /\ left \in Scenario

\* An effect becomes visible at most once, whatever is retried, recovered after a crash,
\* expired, or retried by the operator: an attempt of unknown outcome is never repeated.
NoReplay == \A r \in Reply : effects[r] <= 1

\* A stream owns at most one card entity: the create is not repeated once its id is
\* checkpointed, nor when its outcome is unknown (checkpointCard).
OneCard == \A r \in Reply : made[r] <= 1

\* What the bridge dismisses on its own (superseded, stale, exhausted, defunct, retired) had no
\* effect and can have none any more; only an operator or a cutover gives up a possible effect.
QuietDismissal ==
  \A r \in Reply : row[r].st = "dismissed" /\ r \notin waived => effects[r] = 0 /\ wire[r] # "flying"

\* Cards of one surface are applied in their order, also across retries, bypasses of an isolated
\* lane and restarts; an old card shows over a younger one only if it was waived.
ConflictOrder == late \subseteq waived

\* The checkpoint of the Ring never passes a reply that is still to be settled
\* (advanceCheckpointAfterTerminalTransition, commitDiscoveredCheckpoints), but for one that a
\* restart reopened after a cutover.
HonestCheckpoint == \A r \in Blockers \ waived : ckp < r

\* A reply with a lane of its own is settled or dead-lettered, whatever happens to other lanes:
\* an isolated lane, a grace period, a cooldown and restarts delay it and no more.
OwnLaneSettles ==
  \A r \in Reply : (row[r].st = "pending" /\ row[r].kind # "card") ~> (row[r].st # "pending")

-----------------------------------------------------------------------------
(* What the documentation says and the code does not keep.                 *)

\* "Overflowed and oversized work eventually executes in scope order": the direct slot is not
\* emptied while the pane has a Ring, so a second oversized reply finds it taken.
OversizedSettles ==
  \A r \in Reply : (row[r].st = "pending" /\ row[r].kind = "big") ~> (row[r].st # "pending")

\* "Entering conflict isolation reserves one durable Human Review card": the lane's review is
\* one reserved for the reply that failed, not for an earlier failure of the same lane.
IsolationIsReviewed ==
  \A l \in Lane : LET failed == q[l].failed IN
    Isolated(l) /\ row[failed].st = "dead_letter" /\ row[failed].kind # "review" => q[l].review > failed
=============================================================================
