----------------------------- MODULE EventInbox -----------------------------
(***************************************************************************)
(* How the events of one Core session reach the durable inbox, and how the *)
(* inbox is emptied: the ingestion supervisor with its serial tail of work *)
(* (coordinator/core-session-ingestion-supervisor.ts), the v2 reader       *)
(* (runtime/herdr-events-reader.ts), the multiplexed v3 subscription       *)
(* (runtime/herdr-session-event-subscriber.ts), the lane and its           *)
(* checkpoint (store/sqlite/core-event-inbox-store.ts), and the two actors *)
(* that settle lane items: the transcript cursor and historical recovery.  *)
(*                                                                         *)
(* Core is external.  It numbers the events of the session 1, 2, ... in    *)
(* one ring after another (a restart of Core opens a new ring), forgets    *)
(* the oldest ones, and a new ring starts with some suffix of what Core    *)
(* still held.  A cursor is the number of the last event read, 0 is the    *)
(* cursor "start".  One owner, hence one lane and one tail; each stretch   *)
(* between two awaits is one action.  Time is left out: the retry delay    *)
(* ends by an action of its own.                                           *)
(***************************************************************************)
EXTENDS Integers, Sequences, FiniteSets

CONSTANTS
  MaxEvents,    \* bound: events Core writes
  MaxTail,      \* bound: work queued behind one owner
  BatchSize,    \* events per read and per frame (128)
  Attempts,     \* CORE_EVENT_MAX_PROJECTION_ATTEMPTS
  Usage,        \* events whose exact replay is projected (token usage, context snapshot)
  Scenarios     \* what the environment may do: see Scenario

(* A scenario bounds the environment of one behaviour: how often Core forgets an  *)
(* event, opens a new ring or rejects a cursor, reads fail, frames fail to be     *)
(* stored, the socket closes, projections fail, the process dies; whether a turn  *)
(* snapshot is recovered, how far Core has come before the lane exists, whether   *)
(* Core offers the multiplexed feed and whether a transcript cursor is open.      *)
Scenario ==
  [trim : Nat, rings : Nat, invalid : Nat, fault : Nat, frame : Nat, close : Nat,
   proj : Nat, crash : Nat, snap : SUBSET (1..MaxEvents), before : 0..MaxEvents,
   mux : BOOLEAN, cursor : BOOLEAN]

ASSUME EventInboxAssumption ==
  /\ MaxEvents \in Nat \ {0} /\ MaxTail \in Nat \ {0} /\ BatchSize \in Nat \ {0}
  /\ Attempts \in Nat \ {0} /\ Usage \subseteq 1..MaxEvents
  /\ Scenarios \subseteq Scenario

Event == 1..MaxEvents
Start == 0                 \* the cursor "start"

VARIABLES
  core,      \* external: origins of the rings so far, first retained and last event
  left,      \* what the scenario still allows
  ckpt,      \* core_event_lane_checkpoints: ring and read cursor, or None
  lane,      \* core_event_lane_items, in sequence order
  known,     \* core_event_inbox: events stored under any lane
  gaps,      \* projection_gaps of the lane: stretches of Core's order declared lost
  itemGaps,  \* projection_gaps opened for single events: event -> required version
  rev,       \* CORE_EVENT_REDUCER_REVISION of the running release
  tail,      \* SessionIngestionSupervisor.tails: the owner's work, head first
  at,        \* where the head of the tail stands between two awaits
  scan,      \* reconcileOnce for this owner
  retry,     \* retries: none, waiting, or due
  cooldown,  \* cursorCooldownOwners
  cur,       \* currentMultiplexTargets of the owner
  des,       \* desiredMultiplexTargets of the owner
  susp,      \* suspendedMultiplexOwners
  sub,       \* the subscriber: active feed, candidate feed, wanted, reconnect timer
  held       \* HerdrEventCursor.pendingAcknowledgement

store == <<ckpt, lane, known, gaps, itemGaps>>
multiplex == <<cur, des, susp, sub>>
vars == <<core, left, store, rev, tail, at, scan, retry, cooldown, multiplex, held>>
-----------------------------------------------------------------------------
None == [none |-> TRUE]
Idle == [pc |-> "idle"]
NoFeed == [on |-> FALSE]
NoEvent == 0

Ring == Len(core.origins)                     \* the ring Core serves now
FirstOf(r) == core.origins[r]
Pos(r, c) == IF c = Start THEN FirstOf(r) - 1 ELSE c
Target(r, c) == [ring |-> r, after |-> c]
LaneEvents == {lane[i].ev : i \in DOMAIN lane}
Covered(e) == \E g \in gaps : g.after < e /\ e < g.resume
Spend(f) == left' = [left EXCEPT ![f] = @ - 1]

TypeOK ==
  /\ core.origins \in Seq(Nat \ {0}) /\ core.first \in Nat /\ core.last \in 0..MaxEvents
  /\ ckpt = None \/ (ckpt.ring \in 1..Ring /\ ckpt.after \in 0..MaxEvents)
  /\ lane \in Seq([ev : Event, st : {"pending", "projected", "ignored", "quarantined"},
                   tries : 0..Attempts, rev : Nat])
  /\ known \subseteq Event
  /\ retry \in {"none", "waiting", "due"} /\ cooldown \in BOOLEAN /\ susp \in BOOLEAN
  /\ scan \in {"idle", "queued", "collect", "subscribing"}
  /\ Len(tail) <= MaxTail /\ held \in Event \cup {NoEvent}

Init ==
  \E s \in Scenarios :
    /\ core = [origins |-> <<1>>, first |-> 1, last |-> s.before]
    /\ left = s
    /\ ckpt = None /\ lane = <<>> /\ known = {} /\ gaps = {} /\ itemGaps = <<>>
    /\ rev = 1 /\ tail = <<>> /\ at = Idle /\ scan = "idle" /\ retry = "none"
    /\ cooldown = FALSE /\ cur = None /\ des = None /\ susp = FALSE /\ held = NoEvent
    /\ sub = [feed |-> NoFeed, cand |-> None, wanted |-> FALSE, timer |-> FALSE]
-----------------------------------------------------------------------------
(* Core (external).                                                          *)
CoreWrite ==
  /\ core.last < MaxEvents
  /\ core' = [core EXCEPT !.last = @ + 1]
  /\ UNCHANGED <<left, store, rev, tail, at, scan, retry, cooldown, multiplex, held>>

CoreForget ==
  /\ left.trim > 0 /\ core.first <= core.last
  /\ core' = [core EXCEPT !.first = @ + 1]
  /\ Spend("trim")
  /\ UNCHANGED <<store, rev, tail, at, scan, retry, cooldown, multiplex, held>>

\* A new epoch of the ring, or a new ring: cursors of the old one mean nothing in it.
\* Rings that came and went before the lane first read one concern nobody.
CoreNewRing ==
  /\ left.rings > 0 /\ ckpt # None
  /\ \E o \in core.first .. core.last + 1 :
       core' = [core EXCEPT !.origins = Append(@, o), !.first = o]
  /\ Spend("rings")
  /\ UNCHANGED <<store, rev, tail, at, scan, retry, cooldown, multiplex, held>>
-----------------------------------------------------------------------------
(* The lane.  ingestBatch stores a batch against the checkpoint the reader    *)
(* believes in: new events become pending items behind those of the lane, an  *)
(* event that another lane or a snapshot already stored is ignored, an event   *)
(* of the lane is left alone, and the checkpoint moves in the same transaction.*)
storeEvent(e) == IF e \in known THEN "duplicate" ELSE "new"

laneItem(e) ==
  [ev |-> e, st |-> IF storeEvent(e) = "new" THEN "pending" ELSE "ignored", tries |-> 0, rev |-> 0]

\* Faulty variant: the lane is not asked whether it holds the event.
UnseenUnasked(from, to) == [i \in 1..(to - from + 1) |-> from + i - 1]

\* The events of a batch that the lane does not hold, in Core's order.
Unseen(from, to) ==
  LET new == (from..to) \ LaneEvents
  IN CHOOSE s \in [1..Cardinality(new) -> new] :
       /\ \A e \in new : \E i \in DOMAIN s : s[i] = e
       /\ \A i, j \in DOMAIN s : i < j => s[i] < s[j]

ingestBatch(r, from, to) ==
  /\ lane' = lane \o [i \in 1..Len(Unseen(from, to)) |-> laneItem(Unseen(from, to)[i])]
  /\ known' = known \cup (from..to)
  /\ ckpt' = Target(r, to)
  /\ UNCHANGED <<gaps, itemGaps>>

\* The exact replay of a usage event is projected inside the batch; when that
\* projection fails, the error leaves the transaction and nothing is stored.
replayFails(from, to) ==
  /\ left.proj > 0
  /\ \E e \in from..to : e \in Usage \cap known /\ e \notin LaneEvents
  /\ Spend("proj")

\* checkpoint.read_cursor !== batch.afterCursor: only conflict counters change.
staleReplay(t) == ckpt # None /\ ckpt.after # t.after

declareGap(kind, after, resume) == gaps' = gaps \cup {[kind |-> kind, after |-> after, resume |-> resume]}

rebaseExpiredCheckpoint(r) ==
  /\ ckpt # None
  /\ declareGap("cursor_expired", Pos(r, ckpt.after), core.first)
  /\ ckpt' = Target(r, core.first - 1)
  /\ UNCHANGED <<lane, known, itemGaps>>

\* Faulty variant: a lane that begins behind forgotten events says nothing about them.
bootstrapSilently(r) ==
  /\ ckpt = None
  /\ ckpt' = Target(r, core.first - 1)
  /\ UNCHANGED <<lane, known, gaps, itemGaps>>

bootstrapExpiredLane(r) ==
  /\ ckpt = None
  /\ declareGap("cursor_expired", FirstOf(r) - 1, core.first)
  /\ ckpt' = Target(r, core.first - 1)
  /\ UNCHANGED <<lane, known, itemGaps>>

\* rebaseEpochTransition and transitionSource differ in the gap's wording only.
rebaseEpochTransition(r) ==
  /\ declareGap("cursor_epoch_changed", Pos(ckpt.ring, ckpt.after), FirstOf(r))
  /\ ckpt' = Target(r, Start)
  /\ UNCHANGED <<lane, known, itemGaps>>

transitionSource(r) ==
  /\ declareGap("cursor_source_changed", Pos(ckpt.ring, ckpt.after), FirstOf(r))
  /\ ckpt' = Target(r, Start)
  /\ UNCHANGED <<lane, known, itemGaps>>

\* The gap of an invalid cursor names the cursor, and no event.
recordInvalidCursorGap ==
  /\ declareGap("invalid_cursor", at.after, at.after)
  /\ UNCHANGED <<ckpt, lane, known, itemGaps>>
-----------------------------------------------------------------------------
(* The owner's tail.                                                          *)
Work(kind) == [kind |-> kind, scan |-> FALSE]
enqueue(w) == Append(tail, w)
Room == Len(tail) < MaxTail

\* Faulty variant: the scan is not told.
FinishUnseen == tail' = Tail(tail) /\ at' = Idle /\ UNCHANGED scan

\* The head is done: a scan that waited for it goes on.
Finish ==
  /\ tail' = Tail(tail) /\ at' = Idle
  /\ scan' = IF Head(tail).scan THEN "collect" ELSE scan

recordFailure == retry' = "waiting" /\ UNCHANGED cooldown
clearFailure == retry' = "none" /\ cooldown' = FALSE

\* The session is attached through the ring that its pane has now.
attach == Ring

\* Start of a v2 attempt: attach answers with Core's ring, then the checkpoint is read.
V2Attach ==
  /\ tail # <<>> /\ Head(tail).kind = "v2" /\ at.pc \in {"idle", "again"}
  /\ LET again == at.pc = "again"
     IN at' = [pc |-> IF ckpt # None /\ ckpt.ring # attach THEN "transition" ELSE "read",
               ring |-> attach, after |-> IF ckpt = None THEN Start ELSE ckpt.after,
               rebased |-> FALSE, invalid |-> again /\ at.invalid]
  /\ UNCHANGED <<core, left, store, rev, tail, scan, retry, cooldown, multiplex, held>>

V2AttachFails ==
  /\ tail # <<>> /\ Head(tail).kind = "v2" /\ at.pc \in {"idle", "again"} /\ left.fault > 0
  /\ Spend("fault") /\ Finish /\ recordFailure
  /\ UNCHANGED <<core, store, rev, multiplex, held>>

\* The ring is opened once more; only if it is still the attached one does the
\* checkpoint move to its start.
V2Transition ==
  /\ at.pc = "transition" /\ Ring = at.ring
  /\ rebaseEpochTransition(at.ring) \/ transitionSource(at.ring)
  /\ at' = [at EXCEPT !.pc = "read", !.after = Start]
  /\ UNCHANGED <<core, left, rev, tail, scan, retry, cooldown, multiplex, held>>

V2TransitionRefused ==
  /\ at.pc = "transition" /\ Ring # at.ring
  /\ Finish /\ recordFailure
  /\ UNCHANGED <<core, left, store, rev, multiplex, held>>

\* The read fails, or answers for another epoch.
V2ReadFails ==
  /\ at.pc = "read"
  /\ \/ Ring # at.ring /\ UNCHANGED left
     \/ Ring = at.ring /\ left.fault > 0 /\ Spend("fault")
  /\ Finish /\ recordFailure
  /\ UNCHANGED <<core, store, rev, multiplex, held>>

ReadPos == Pos(at.ring, at.after)
Expired(r, p) == r = Ring /\ p < core.first - 1

\* cursor_expired: once per attempt the checkpoint moves to what Core still holds.
V2Expired ==
  /\ at.pc = "read" /\ Expired(at.ring, ReadPos) /\ ~at.rebased
  /\ rebaseExpiredCheckpoint(at.ring) \/ bootstrapExpiredLane(at.ring)
  /\ at' = [at EXCEPT !.after = core.first - 1, !.rebased = TRUE]
  /\ UNCHANGED <<core, left, rev, tail, scan, retry, cooldown, multiplex, held>>

V2ExpiredAgain ==
  /\ at.pc = "read" /\ Expired(at.ring, ReadPos) /\ at.rebased
  /\ Finish /\ recordFailure
  /\ UNCHANGED <<core, left, store, rev, multiplex, held>>

\* invalid_cursor: one more attempt, then a gap and a cooldown without a retry.
V2Invalid ==
  /\ at.pc = "read" /\ Ring = at.ring /\ left.invalid > 0 /\ Spend("invalid")
  /\ \/ /\ ~at.invalid
        /\ at' = [pc |-> "again", invalid |-> TRUE]
        /\ UNCHANGED <<store, tail, scan, retry, cooldown>>
     \/ /\ at.invalid
        /\ recordInvalidCursorGap
        /\ Finish /\ cooldown' = TRUE /\ retry' = "none"
  /\ UNCHANGED <<core, rev, multiplex, held>>

\* A batch.  Behind the last one the owner has caught up: its failures are
\* forgotten, and a suspended multiplex target is prepared again.
V2Batch ==
  /\ at.pc = "read" /\ Ring = at.ring /\ ~Expired(at.ring, ReadPos)
  /\ LET to == IF core.last < ReadPos + BatchSize THEN core.last ELSE ReadPos + BatchSize
     IN /\ IF to = ReadPos
             THEN ckpt' = Target(at.ring, at.after) /\ UNCHANGED <<lane, known, gaps, itemGaps>>
             ELSE ingestBatch(at.ring, ReadPos + 1, to)
        /\ IF to < core.last
             THEN /\ \/ at' = [at EXCEPT !.after = to]
                     \/ at' = [pc |-> "again", invalid |-> FALSE]     \* the page is full
                  /\ UNCHANGED <<tail, scan, retry, cooldown, susp>>
             ELSE /\ clearFailure /\ susp' = FALSE
                  /\ IF susp THEN at' = [pc |-> "restore"] /\ UNCHANGED <<tail, scan>>
                             ELSE Finish
  /\ UNCHANGED <<core, left, rev, cur, des, sub, held>>

V2BatchRolledBack ==
  /\ at.pc = "read" /\ Ring = at.ring /\ ~Expired(at.ring, ReadPos)
  /\ replayFails(ReadPos + 1, IF core.last < ReadPos + BatchSize THEN core.last ELSE ReadPos + BatchSize)
  /\ Finish /\ recordFailure
  /\ UNCHANGED <<core, store, rev, multiplex, held>>
-----------------------------------------------------------------------------
(* The multiplexed subscription.                                              *)
\* A target is prepared from the durable checkpoint, and not across a ring change.
prepareMultiplexTarget ==
  IF ckpt = None THEN Target(attach, Start)
  ELSE IF ckpt.ring = attach THEN Target(attach, ckpt.after) ELSE None

\* Frames queued under an older generation are dropped when their turn comes.
Outdated(q) == [i \in DOMAIN q |-> IF q[i].kind = "frame" THEN [q[i] EXCEPT !.live = FALSE] ELSE q[i]]

CanReplace == sub.cand # None => sub.cand.via = "reconnect"

\* replaceSelectedMultiplexTargets: an equal target keeps the subscription.
replaceSelected(t, via) ==
  IF cur = t THEN UNCHANGED <<cur, sub>>
  ELSE /\ sub' = [sub EXCEPT !.cand = [ring |-> t.ring, after |-> t.after, via |-> via],
                             !.wanted = TRUE, !.timer = FALSE]
       /\ UNCHANGED cur

\* replaceDesiredMultiplexTargets without a target for the owner.
clearTargets ==
  /\ cur' = None
  /\ sub' = IF sub.feed.on THEN [feed |-> NoFeed, cand |-> None, wanted |-> FALSE, timer |-> FALSE] ELSE sub

\* The end of a v2 attempt that repaired a suspended owner.
restoreMultiplexRoute ==
  /\ at.pc = "restore" /\ CanReplace
  /\ IF prepareMultiplexTarget = None
       THEN Finish /\ UNCHANGED <<cur, des, sub>>
       ELSE /\ des' = prepareMultiplexTarget
            /\ IF susp THEN clearTargets /\ Finish
               ELSE /\ replaceSelected(prepareMultiplexTarget, "tail")
                    /\ IF cur = prepareMultiplexTarget THEN Finish
                       ELSE at' = [pc |-> "subscribing"] /\ UNCHANGED <<tail, scan>>
  /\ UNCHANGED <<core, left, store, rev, retry, cooldown, susp, held>>

\* The end of the scan of this owner: collectMultiplexCandidate and the replacement.
collectMultiplexCandidate ==
  /\ scan = "collect" /\ CanReplace
  /\ LET t == IF ~left.mux \/ retry # "none" \/ cooldown \/ susp THEN None
              ELSE IF prepareMultiplexTarget # None THEN prepareMultiplexTarget ELSE cur
     IN /\ des' = t
        /\ IF t = None THEN clearTargets /\ scan' = "idle"
           ELSE /\ replaceSelected(t, "scan")
                /\ scan' = IF cur = t THEN "idle" ELSE "subscribing"
  /\ UNCHANGED <<core, left, store, rev, tail, at, retry, cooldown, susp, held>>

\* Whoever waits for the candidate goes on.
Settled(via) ==
  /\ scan' = IF via = "scan" \/ (via = "tail" /\ Head(tail).scan) THEN
               (IF via = "scan" THEN "idle" ELSE "collect") ELSE scan
  /\ at' = IF via = "tail" THEN Idle ELSE at

\* The subscription is acknowledged: a new generation, whose frames alone count.
\* The target becomes current unless a reconnect finds the owner no longer desired.
activateMultiplexTargets ==
  /\ sub.cand # None
  /\ LET c == sub.cand
         wanted == c.via # "reconnect" \/ (des # None /\ des.ring = c.ring)
         q == IF c.via = "tail" THEN Tail(tail) ELSE tail
     IN /\ sub' = [sub EXCEPT !.cand = None, !.wanted = TRUE,
                     !.feed = [on |-> TRUE, ring |-> c.ring, pos |-> Pos(c.ring, c.after),
                               mine |-> wanted, gapped |-> FALSE]]
        /\ IF wanted
             THEN cur' = Target(c.ring, c.after) /\ susp' = FALSE /\ tail' = Outdated(q)
             ELSE tail' = q /\ UNCHANGED <<cur, susp>>
        /\ Settled(c.via)
  /\ UNCHANGED <<core, left, store, rev, retry, cooldown, des, held>>

EstablishFails ==
  /\ sub.cand # None /\ left.close > 0 /\ Spend("close")
  /\ sub' = [sub EXCEPT !.cand = None, !.timer = TRUE]
  /\ tail' = IF sub.cand.via = "tail" THEN Tail(tail) ELSE tail
  /\ Settled(sub.cand.via)
  /\ UNCHANGED <<core, store, rev, retry, cooldown, cur, des, susp, held>>

\* The reconnect timer: targets are refreshed from the durable checkpoint.
Reconnect ==
  /\ sub.timer /\ sub.wanted /\ sub.cand = None
  /\ LET t == IF des = None THEN None ELSE prepareMultiplexTarget
     IN IF t = None THEN UNCHANGED <<sub, des>>
        ELSE /\ sub' = [sub EXCEPT !.timer = FALSE, !.cand = [ring |-> t.ring, after |-> t.after, via |-> "reconnect"]]
             /\ des' = t
  /\ UNCHANGED <<core, left, store, rev, tail, at, scan, retry, cooldown, cur, susp, held>>

\* The socket closes: the owner falls back to v2 reads.
Disconnect ==
  /\ sub.feed.on /\ left.close > 0 /\ Spend("close") /\ Room
  /\ sub' = [sub EXCEPT !.feed = NoFeed, !.timer = TRUE]
  /\ cur' = None
  /\ IF cur # None THEN susp' = TRUE /\ tail' = enqueue(Work("v2"))
                   ELSE UNCHANGED <<susp, tail>>
  /\ UNCHANGED <<core, store, rev, at, scan, retry, cooldown, des, held>>

Accepts(r) == sub.feed.mine /\ cur # None /\ cur.ring = r /\ ~susp

\* A frame arrives and is queued, or dropped at the door.
handleMultiplexFrame ==
  /\ sub.feed.on /\ ~sub.feed.gapped /\ sub.feed.ring = Ring
  /\ sub.feed.pos < core.last /\ ~Expired(Ring, sub.feed.pos) /\ Room
  /\ LET to == IF core.last < sub.feed.pos + BatchSize THEN core.last ELSE sub.feed.pos + BatchSize
     IN /\ sub' = [sub EXCEPT !.feed.pos = to]
        /\ tail' = IF Accepts(Ring)
                     THEN enqueue([kind |-> "frame", scan |-> FALSE, live |-> TRUE,
                                   ring |-> Ring, from |-> sub.feed.pos + 1, to |-> to])
                     ELSE tail
  /\ UNCHANGED <<core, left, store, rev, at, scan, retry, cooldown, cur, des, susp, held>>

\* Core reports a gap: the owner leaves the multiplex and catches up by v2.
handleGapFrame ==
  /\ sub.feed.on /\ ~sub.feed.gapped /\ Room
  /\ sub.feed.ring # Ring \/ Expired(Ring, sub.feed.pos)
  /\ sub' = [sub EXCEPT !.feed.gapped = TRUE]
  /\ IF Accepts(sub.feed.ring)
       THEN susp' = TRUE /\ cur' = None /\ des' = None /\ tail' = enqueue(Work("v2"))
       ELSE UNCHANGED <<susp, cur, des, tail>>
  /\ UNCHANGED <<core, left, store, rev, at, scan, retry, cooldown, held>>

Frame == Head(tail)

\* The frame's turn: dropped if its generation, the suspension or the target say
\* so, otherwise it keeps the target it saw while it waits for a permit.
FrameStart ==
  /\ tail # <<>> /\ Frame.kind = "frame" /\ at.pc = "idle"
  /\ IF Frame.live /\ ~susp /\ cur # None /\ cur.ring = Frame.ring
       THEN at' = [pc |-> "frame", target |-> cur] /\ UNCHANGED <<tail, scan>>
       ELSE Finish
  /\ UNCHANGED <<core, left, store, rev, retry, cooldown, multiplex, held>>

FrameAccepted ==
  /\ at.pc = "frame" /\ ~staleReplay(at.target)
  /\ ckpt # None => ckpt.ring = Frame.ring
  /\ ingestBatch(Frame.ring, Frame.from, Frame.to)
  /\ cur' = Target(Frame.ring, Frame.to)
  /\ des' = IF des = None THEN None ELSE cur'
  /\ clearFailure /\ Finish
  /\ UNCHANGED <<core, left, rev, susp, sub, held>>

\* stale_rebase: the feed does not continue the checkpoint, subscribe again from it.
FrameStale ==
  /\ at.pc = "frame" /\ ckpt # None /\ ckpt.ring = Frame.ring /\ staleReplay(at.target)
  /\ susp' = TRUE /\ cur' = None
  /\ at' = [pc |-> "stale", target |-> Target(Frame.ring, ckpt.after)]
  /\ UNCHANGED <<core, left, store, rev, tail, scan, retry, cooldown, des, sub, held>>

StaleReplace ==
  /\ at.pc = "stale" /\ CanReplace
  /\ LET t == IF prepareMultiplexTarget = None THEN at.target ELSE prepareMultiplexTarget
     IN /\ des' = t /\ replaceSelected(t, "tail")
        /\ IF cur = t THEN Finish ELSE at' = [pc |-> "subscribing"] /\ UNCHANGED <<tail, scan>>
  /\ UNCHANGED <<core, left, store, rev, retry, cooldown, susp, held>>

\* Storing the frame fails: the failure is recorded and nothing else happens.
FrameFails ==
  /\ at.pc = "frame"
  /\ \/ ckpt # None /\ ckpt.ring # Frame.ring /\ UNCHANGED left
     \/ left.frame > 0 /\ Spend("frame")
     \/ left.frame > 0 /\ replayFails(Frame.from, Frame.to)
  /\ Finish /\ recordFailure
  /\ UNCHANGED <<core, store, rev, multiplex, held>>
-----------------------------------------------------------------------------
(* What puts work on the tail.                                                *)
\* The periodic scan passes over an owner in cooldown or waiting for its retry.
reconcileOnce ==
  /\ scan = "idle"
  /\ IF cooldown \/ retry = "waiting" THEN scan' = "collect" /\ UNCHANGED tail
     ELSE /\ Room /\ scan' = "queued"
          /\ tail' = enqueue([Work("v2") EXCEPT !.scan = TRUE])
  /\ UNCHANGED <<core, left, store, rev, at, retry, cooldown, multiplex, held>>

retryDue ==
  /\ retry = "waiting" /\ retry' = "due"
  /\ UNCHANGED <<core, left, store, rev, tail, at, scan, cooldown, multiplex, held>>

\* Core announces news of a source that the lane has not reached.
notifySources ==
  /\ Room
  /\ ckpt # None /\ ~cooldown => Pos(ckpt.ring, ckpt.after) < core.last
  /\ tail' = enqueue(Work("v2")) /\ cooldown' = FALSE
  /\ retry' = IF cooldown THEN "none" ELSE retry
  /\ UNCHANGED <<core, left, store, rev, at, scan, multiplex, held>>
-----------------------------------------------------------------------------
(* Settlement of lane items.                                                  *)
Pending(i) == lane[i].st = "pending"
HeadPending(i) == Pending(i) /\ \A j \in 1..(i - 1) : ~Pending(j)
Item(e) == CHOOSE i \in DOMAIN lane : lane[i].ev = e

\* The gap of a single event: opened again with the newest version it requires,
\* compensated only by a newer reducer than the one that opened it.
openGap(e) == [f \in DOMAIN itemGaps \cup {e} |-> IF f = e THEN rev ELSE itemGaps[f]]
\* Faulty variant: a gap is closed whatever it waits for.
compensateAny(e) == [f \in DOMAIN itemGaps \ {e} |-> itemGaps[f]]
compensateProjectionEvent(e) ==
  [f \in {g \in DOMAIN itemGaps : g # e \/ itemGaps[g] >= rev} |-> itemGaps[f]]

\* acknowledge(projected): only a pending item changes; the event's gap is
\* compensated when it was opened by an older reducer.
acknowledgeProjected(i) ==
  /\ lane' = IF Pending(i) THEN [lane EXCEPT ![i].st = "projected", ![i].rev = rev] ELSE lane
  /\ itemGaps' = compensateProjectionEvent(lane[i].ev)

\* acknowledge(quarantined): attempts count per reducer, the last one quarantines
\* the item and opens the gap of its event.
acknowledgeQuarantined(i) ==
  LET tries == (IF lane[i].rev = rev THEN lane[i].tries ELSE 0) + 1
      out == tries >= Attempts
  IN IF ~Pending(i) THEN UNCHANGED <<lane, itemGaps>>
     ELSE /\ lane' = [lane EXCEPT ![i].st = IF out THEN "quarantined" ELSE "pending",
                                  ![i].tries = tries, ![i].rev = rev]
          /\ itemGaps' = IF out THEN openGap(lane[i].ev) ELSE itemGaps

\* The transcript cursor loads one pending item, releasing first what an older
\* reducer quarantined.
loadPending ==
  /\ left.cursor /\ held = NoEvent
  /\ LET fresh == [i \in DOMAIN lane |->
                     IF lane[i].st = "quarantined" /\ lane[i].rev < rev
                       THEN [lane[i] EXCEPT !.st = "pending", !.tries = 0, !.rev = rev] ELSE lane[i]]
         heads == {i \in DOMAIN lane : fresh[i].st = "pending" /\ \A j \in 1..(i - 1) : fresh[j].st # "pending"}
     IN /\ heads # {}
        /\ lane' = fresh
        /\ held' = lane[CHOOSE i \in heads : TRUE].ev
  /\ UNCHANGED <<core, left, ckpt, known, gaps, itemGaps, rev, tail, at, scan, retry, cooldown, multiplex>>

\* Its reader acknowledges the item later, whatever has become of it meanwhile.
CursorAcknowledge ==
  /\ held # NoEvent /\ held' = NoEvent
  /\ \/ acknowledgeProjected(Item(held)) /\ UNCHANGED left
     \/ left.proj > 0 /\ Spend("proj") /\ acknowledgeQuarantined(Item(held))
  /\ UNCHANGED <<core, ckpt, known, gaps, rev, tail, at, scan, retry, cooldown, multiplex>>

\* Historical recovery projects the first pending item of the lane in one transaction.
reprojectHistoricalCandidate ==
  /\ ckpt # None
  /\ \E i \in DOMAIN lane :
       /\ HeadPending(i)
       /\ \/ acknowledgeProjected(i) /\ UNCHANGED left
          \/ left.proj > 0 /\ Spend("proj") /\ acknowledgeQuarantined(i)
  /\ UNCHANGED <<core, ckpt, known, gaps, rev, tail, at, scan, retry, cooldown, multiplex, held>>

\* A turn's snapshot is recovered from Core and stored without a lane item.
ingestCanonicalSnapshotEvidence ==
  /\ left.snap # {} /\ left.snap \subseteq 1..core.last
  /\ known' = known \cup left.snap
  /\ left' = [left EXCEPT !.snap = {}]
  /\ UNCHANGED <<core, ckpt, lane, gaps, itemGaps, rev, tail, at, scan, retry, cooldown, multiplex, held>>

\* The process dies; the next one may be a newer release.
Restart ==
  /\ left.crash > 0 /\ Spend("crash")
  /\ rev' \in {rev, rev + 1}
  /\ tail' = <<>> /\ at' = Idle /\ scan' = "idle" /\ retry' = "none" /\ cooldown' = FALSE
  /\ cur' = None /\ des' = None /\ susp' = FALSE /\ held' = NoEvent
  /\ sub' = [feed |-> NoFeed, cand |-> None, wanted |-> FALSE, timer |-> FALSE]
  /\ UNCHANGED <<core, store>>
-----------------------------------------------------------------------------
Environment == CoreWrite \/ CoreForget \/ CoreNewRing \/ Disconnect \/ EstablishFails \/ Restart
               \/ notifySources \/ ingestCanonicalSnapshotEvidence
V2 == V2Attach \/ V2AttachFails \/ V2Transition \/ V2TransitionRefused \/ V2ReadFails
      \/ V2Expired \/ V2ExpiredAgain \/ V2Invalid \/ V2Batch \/ V2BatchRolledBack \/ restoreMultiplexRoute
Frames == FrameStart \/ FrameAccepted \/ FrameStale \/ StaleReplace \/ FrameFails
Socket == activateMultiplexTargets \/ Reconnect \/ handleMultiplexFrame \/ handleGapFrame
Scan == reconcileOnce \/ collectMultiplexCandidate
Settle == loadPending \/ CursorAcknowledge \/ reprojectHistoricalCandidate

Next == Environment \/ V2 \/ Frames \/ Socket \/ Scan \/ retryDue \/ Settle

(* The promise chain of the tail runs on; the fallback timer of the scan and the  *)
(* timers of retries always fire; a subscription is acknowledged or fails; the    *)
(* cursor's reader acknowledges, and historical recovery runs on its own timer.   *)
Fairness ==
  /\ WF_vars(V2 \/ Frames) /\ WF_vars(Scan) /\ WF_vars(retryDue)
  /\ WF_vars(activateMultiplexTargets) /\ WF_vars(CursorAcknowledge)
  /\ WF_vars(reprojectHistoricalCandidate)

Spec == Init /\ [][Next]_vars
FairSpec == Spec /\ Fairness
-----------------------------------------------------------------------------
(* Every event at or before the checkpoint is an item of the lane or lies in a    *)
(* stretch that a durable gap declares lost, whichever way the checkpoint came    *)
(* there: v2 reads, frames of a subscription prepared from an older checkpoint,   *)
(* rebases over forgotten events, a new ring.                                     *)
NothingSkippedSilently ==
  ckpt # None => \A e \in 1..Pos(ckpt.ring, ckpt.after) : e \in LaneEvents \/ Covered(e)

(* The two settlers race for an item and a release may change between: the gap    *)
(* that is open for an event is the truth about its item.  A quarantined item has *)
(* its gap, and an item that was projected has none.                              *)
QuarantineIsVisible ==
  \A i \in DOMAIN lane :
    /\ lane[i].st = "quarantined" => lane[i].ev \in DOMAIN itemGaps
    /\ lane[i].st = "projected" => lane[i].ev \notin DOMAIN itemGaps

(* The lane implements the ordered feed: Core's order, nothing twice, nothing     *)
(* handed over behind an event that is neither in the lane nor declared lost.     *)
Feed == INSTANCE OrderedFeed WITH
  written <- core.last,
  delivered <- [i \in DOMAIN lane |-> lane[i].ev],
  lost <- {e \in Event : Covered(e) /\ e \notin LaneEvents}
ImplementsFeed == Feed!Init /\ [][Feed!Next]_(Feed!vars)

(* Whatever fails on the way (reads, frames, sockets, rebases, projections), an   *)
(* event that Core wrote ends as a settled item of the lane or is declared lost,  *)
(* or the owner is held in the cooldown of an unrecoverable cursor.               *)
EveryEventSettles ==
  \A e \in Event :
    e <= core.last ~> \/ \E i \in DOMAIN lane : lane[i].ev = e /\ ~Pending(i)
                      \/ Covered(e) /\ e \notin LaneEvents
                      \/ cooldown
=============================================================================
