------------------------------ MODULE TurnCard ------------------------------
(***************************************************************************)
(* The answer pages of one Conversation Segment: the timeline items that   *)
(* the canonical projection stores, the pages the TurnCardWorkflow cuts    *)
(* them into (conversation_segment_pages), the prepared replies that carry *)
(* a page to Feishu, and what the reader sees of every page.               *)
(*                                                                         *)
(* An item is its position in the segment; its value is the revision of    *)
(* its content.  A card holds LiveCap items while the turn runs (the       *)
(* budget keeps room for the session footer and the completion notice) and *)
(* FullCap when it is rendered as completed.  A cursor is the number of    *)
(* items before it, Null when the column is NULL.  A reply is named by its *)
(* idempotency key <<page, kind, n>>, so reserving a key that exists gives *)
(* the existing row back.                                                  *)
(*                                                                         *)
(* One transaction of the store, or convergeOnce (synchronous), is one     *)
(* action.  The owner of the segment stays attached, the cohort is legacy, *)
(* and late recovery cards are off, as the composition root has them.      *)
(***************************************************************************)
EXTENDS Integers, Sequences, FiniteSets, FiniteSetsExt

CONSTANTS MaxItems,    \* items the segment may come to hold
          LiveCap, FullCap,
          Attempts,    \* MAX_DELIVERY_ATTEMPTS of the retry policy
          LateFacts,   \* may facts of the turn arrive after its end?
          Scenarios    \* how often the environment may act, by kind of act

ASSUME CapAssumption == /\ LiveCap \in Nat \ {0} /\ FullCap \in Nat /\ FullCap >= LiveCap
                        /\ MaxItems \in Nat \ {0} /\ Attempts \in Nat \ {0}
                        /\ LateFacts \in BOOLEAN

VARIABLES
  items,    \* conversation_segment_items: the revision of each
  seg,      \* conversation_segments.state
  ver,      \* conversation_segments.view_version
  pages,    \* conversation_segment_pages, by page_index + 1
  replies,  \* outbound_replies of these pages, by idempotency key
  gaps,     \* projection_gaps: items late for their page, pages with a broken link
  screen,   \* the card Feishu shows for each page
  flight,   \* the execution that the Ring has in progress
  wanted,   \* CardUpdateScheduler: a flush of this card is pending
  proc,     \* which process runs: replies remember the one that made them
  left      \* what remains of the scenario

durable == <<items, seg, ver, pages, replies, gaps>>
vars == <<durable, screen, flight, wanted, proc, left>>

Null == -1
NoReply == <<0, "none", 0>>
Idle == [key |-> NoReply, at |-> "idle"]

Terminal == seg \in {"completed", "closed"}
Spend(bound) == left[bound] > 0 /\ left' = [left EXCEPT ![bound] = @ - 1]

-----------------------------------------------------------------------------
(* Rendering.  Plan cuts the timeline at the card's capacity.              *)

\* turnCardPage from cursor base: the items on the card, and where it stops.
Rendered(base, cap) ==
  {<<i, items[i]>> : i \in {j \in DOMAIN items : base < j /\ j <= base + cap}}
NextCursor(base, cap) == IF Len(items) > base + cap THEN base + cap ELSE Null

Card(base, cap, done) == [ver |-> ver, done |-> done, shows |-> Rendered(base, cap)]

-----------------------------------------------------------------------------
(* Which page is which: loadActiveProjection.                              *)

LastPage(S) == IF S = {} THEN 0 ELSE Max(S)
ActivePage == LastPage({p \in DOMAIN pages : pages[p].st \in {"creating", "active"}})
PendingPage == LastPage({p \in DOMAIN pages : \/ pages[p].pend # NoReply
                                              \/ pages[p].st = "creating" /\ ~pages[p].msg})
FrozenPage == LastPage({p \in DOMAIN pages : pages[p].st = "frozen"})

\* listActionableConversationSegmentIds: what a scan would converge.
Actionable ==
  LET open == {p \in DOMAIN pages : \/ pages[p].st \in {"creating", "active"}
                                    \/ pages[p].pend # NoReply}
      p == IF open # {} THEN Max(open) ELSE FrozenPage
  IN  /\ p # 0
      /\ \/ pages[p].pend # NoReply
         \/ pages[p].st = "creating"
         \/ Len(items) > (IF pages[p].dcur = Null THEN 0 ELSE pages[p].dcur)
         \/ ver > pages[p].seq
         \/ Terminal

-----------------------------------------------------------------------------
(* Reservation.                                                            *)

NewReply(rev, card) ==
  [st |-> "pending", rev |-> rev, card |-> card, tries |-> 0, claimed |-> FALSE,
   first |-> FALSE, unsure |-> FALSE, born |-> proc]

\* enqueue: an existing row of the same effect is returned whatever its state.
Enqueued(key, rev, card) ==
  IF key \in DOMAIN replies THEN replies
  ELSE [k \in DOMAIN replies \cup {key} |->
          IF k = key THEN NewReply(rev, card) ELSE replies[k]]

NewPage(base, anchor, incl, key) ==
  [st |-> "creating", seq |-> 1, dseq |-> 0, base |-> base, anchor |-> anchor, incl |-> incl,
   msg |-> FALSE, pend |-> key, pcur |-> Null, dcur |-> Null, cont |-> Null, contIncl |-> TRUE]

\* reserveSnapshot of a page that has its message.
SnapshotDue(p) == ver > pages[p].dseq
reserveSnapshot(p) ==
  LET key == <<p, "snapshot", ver>>
  IN  /\ replies' = Enqueued(key, ver, Card(pages[p].base, LiveCap, FALSE))
      /\ pages' = [pages EXCEPT ![p].pend = key, ![p].pcur = Null,
                                ![p].seq = Max({@, ver}), ![p].st = "active"]
      /\ UNCHANGED gaps

\* reserveFreeze: the page is rendered as completed, and remembers where its
\* continuation starts.  A card that then holds everything ends after the last item.
\* Faulty variant: a frozen page always ends after the last item.
FreezeCursorLast(p) == Len(items)
FreezeCursor(p) ==
  LET next == NextCursor(pages[p].base, FullCap)
  IN  IF next = Null THEN Len(items) ELSE next
reserveFreeze(p) ==
  LET key == <<p, "freeze", 0>>
      rev == Max({pages[p].seq, pages[p].dseq}) + 1
      cursor == FreezeCursor(p)
  IN  /\ replies' = Enqueued(key, rev, Card(pages[p].base, FullCap, TRUE))
      /\ pages' = [pages EXCEPT ![p].st = "frozen", ![p].seq = rev, ![p].pend = key,
                                ![p].pcur = cursor, ![p].cont = cursor,
                                ![p].contIncl = cursor < Len(items)]
      /\ UNCHANGED gaps

\* reserveFinish.
reserveFinish(p) ==
  LET rev == pages[p].seq + 1
      key == <<p, "finish", rev>>
  IN  /\ replies' = Enqueued(key, rev, Card(pages[p].base, FullCap, TRUE))
      /\ pages' = [pages EXCEPT ![p].st = "finished", ![p].seq = rev, ![p].pend = key,
                                ![p].pcur = Len(items)]
      /\ UNCHANGED gaps

\* reserveLateContinuation after a frozen page: the new page starts at the
\* delivered cursor, its first card at the continuation anchor.
reserveLateContinuation(f) ==
  LET n == f + 1
      key == <<n, "create", 0>>
      base == IF pages[f].dcur = Null THEN 0 ELSE pages[f].dcur
  IN  /\ replies' = Enqueued(key, 1, Card(pages[f].cont, LiveCap, FALSE))
      /\ pages' = Append(pages, NewPage(base, pages[f].cont, pages[f].cont < Len(items), key))
      /\ UNCHANGED gaps

-----------------------------------------------------------------------------
(* Convergence.                                                            *)

\* reconcilePageDelivery.  Adoption of a delivered reply is left out: the
\* acknowledgement settles the page in its own transaction.
reconcilePageDelivery(p) ==
  IF pages[p].pend = NoReply THEN "stale"       \* creating, and its create was retired
  ELSE IF replies[pages[p].pend].st = "pending" THEN "waiting" ELSE "stale"

openCreateRecoveryGap(p) ==
  /\ gaps' = gaps \cup {[kind |-> "link", of |-> p]}
  /\ UNCHANGED <<pages, replies>>

Nothing == UNCHANGED <<pages, replies, gaps>>

\* The part of convergeOnce below the reconciliation.
Advance ==
  LET p == ActivePage
      f == FrozenPage
  IN  IF p = 0
      THEN IF f # 0 /\ f + 1 \notin DOMAIN pages THEN reserveLateContinuation(f) ELSE Nothing
      ELSE IF NextCursor(pages[p].base, LiveCap) # Null THEN reserveFreeze(p)
      ELSE IF Terminal THEN reserveFinish(p)
      ELSE IF SnapshotDue(p) THEN reserveSnapshot(p)
      ELSE Nothing

\* Faulty variant: reserves past an unsettled reply.
convergeEagerly == Advance

convergeOnce ==
  IF PendingPage = 0 THEN Advance
  ELSE IF reconcilePageDelivery(PendingPage) = "waiting" THEN Nothing
  ELSE openCreateRecoveryGap(PendingPage)

\* CardUpdateScheduler.flush.
Flush ==
  /\ wanted
  /\ wanted' = FALSE
  /\ convergeOnce
  /\ UNCHANGED <<items, seg, ver, screen, flight, proc, left>>

\* ProjectionDeliveryRecoveryWatchdog.scan, and the convergence at startup.
Scan ==
  /\ Actionable
  /\ convergeOnce
  /\ UNCHANGED <<items, seg, ver, screen, flight, wanted, proc, left>>

-----------------------------------------------------------------------------
(* The canonical projection of the turn's events.                          *)

MayProject == seg # "closed" /\ (seg = "completed" => LateFacts)

\* Faulty variant: the last item before the page is not late.
LateForInner(i) ==
  /\ seg # "closed"
  /\ IF ActivePage > 1 THEN i < pages[ActivePage].anchor
     ELSE FrozenPage # 0 /\ i < pages[FrozenPage].cont

\* Where the reader's current page starts: openLateBeforeCursorGap's cursor.
LateFor(i) ==
  LET p == ActivePage
      f == FrozenPage
      late(at, incl) == IF incl THEN i <= at ELSE i < at
  IN  /\ seg # "closed"
      /\ IF p > 1 THEN late(pages[p].anchor, pages[p].incl)
         ELSE f # 0 /\ late(pages[f].cont, pages[f].contIncl)

openLateBeforeCursorGap(i) ==
  IF LateFor(i) THEN gaps \cup {[kind |-> "late", of |-> i]} ELSE gaps

\* A delta that adds an item.
ItemArrives ==
  /\ MayProject
  /\ Len(items) < MaxItems
  /\ items' = Append(items, 0)
  /\ ver' = ver + 1 /\ wanted' = TRUE
  /\ UNCHANGED <<seg, pages, replies, gaps, screen, flight, proc, left>>

\* A delta or a tool result that changes an item in place.
ItemChanges(i) ==
  /\ MayProject
  /\ Spend("change")
  /\ items' = [items EXCEPT ![i] = @ + 1]
  /\ gaps' = openLateBeforeCursorGap(i)
  /\ ver' = ver + 1 /\ wanted' = TRUE
  /\ UNCHANGED <<seg, pages, replies, screen, flight, proc>>

\* turn_completed, with or without a last item of its own.
TurnCompletes ==
  /\ seg = "working"
  /\ seg' = "completed"
  /\ \/ items' = items
     \/ Len(items) < MaxItems /\ items' = Append(items, 0)
  /\ ver' = ver + 1 /\ wanted' = TRUE
  /\ UNCHANGED <<pages, replies, gaps, screen, flight, proc, left>>

\* shouldClosePriorSegment, or an earlier segment of a turn that completed.
ClosesOnNext ==
  LET p == Len(pages)
  IN  \/ seg = "working"
      \/ seg = "completed" /\ (pages[p].st = "finished" => pages[p].dseq < pages[p].seq)
SegmentCloses ==
  /\ ClosesOnNext
  /\ Spend("close")
  /\ seg' = "closed"
  /\ ver' = ver + 1 /\ wanted' = TRUE
  /\ UNCHANGED <<items, pages, replies, gaps, screen, flight, proc>>

\* invalidateCurrentPrimarySessionActivity: the session state shown on the
\* latest card changed; a finished page is reopened.
ActivityInvalidates ==
  LET p == Len(pages)
      next == Max({ver, pages[p].seq, pages[p].dseq}) + 1
  IN  /\ seg # "closed"
      /\ Spend("activity")
      /\ ver' = next /\ wanted' = TRUE
      /\ pages' = IF pages[p].st # "finished" THEN pages
                  ELSE IF pages[p].pend # NoReply THEN [pages EXCEPT ![p].seq = Max({@, next})]
                  ELSE [pages EXCEPT ![p].st = "active"]
      /\ UNCHANGED <<items, seg, replies, gaps, screen, flight, proc>>

-----------------------------------------------------------------------------
(* Delivery of the page replies.                                           *)

Kind(k) == k[2]
PageOf(k) == k[1]
Live(k) == replies[k].st = "pending" /\ ~replies[k].claimed

\* currentConversationPageTargetSql.
CurrentTarget(k) ==
  LET page == pages[PageOf(k)]
  IN  /\ page.pend = k
      /\ page.seq = replies[k].rev
      /\ seg = "closed" => page.st = "finished" /\ Kind(k) = "finish"
      /\ Kind(k) = "create" /\ PageOf(k) > 1 => pages[PageOf(k) - 1].msg
      /\ Kind(k) # "create" => page.msg

\* The create of a first page that an earlier process made and never claimed.
HistoricalCreate(k) ==
  /\ k = <<1, "create", 0>>
  /\ ~replies[k].first /\ replies[k].born < proc /\ ~replies[k].unsure
  /\ ~pages[1].msg

Claimable(k) == Live(k) /\ CurrentTarget(k) /\ ~HistoricalCreate(k)

\* claimConversationPageDelivery.
Claim(k) ==
  /\ flight = Idle
  /\ Claimable(k)
  /\ replies' = [replies EXCEPT ![k].claimed = TRUE, ![k].first = TRUE]
  /\ flight' = [key |-> k, at |-> "sent"]
  /\ UNCHANGED <<items, seg, ver, pages, gaps, screen, wanted, proc, left>>

\* retireStaleConversationPageDelivery, after the claim was refused.
Unlinked(p, k, state) ==
  IF pages[p].pend = k THEN [pages EXCEPT ![p].pend = NoReply, ![p].pcur = Null, ![p].st = state]
  ELSE pages
Retire(k) ==
  LET p == PageOf(k)
      state == IF seg = "closed" \/ HistoricalCreate(k) THEN "finished"
               ELSE IF pages[p].st = "frozen" THEN "frozen"
               ELSE IF ~pages[p].msg THEN "creating"
               ELSE "active"
  IN  /\ flight = Idle
      /\ Live(k) /\ ~Claimable(k) /\ ~replies[k].unsure
      /\ replies' = [replies EXCEPT ![k].st = "dismissed"]
      /\ pages' = Unlinked(p, k, state)
      /\ UNCHANGED <<items, seg, ver, gaps, screen, flight, wanted, proc, left>>

\* The Gateway's answer.  An uncertain failure may have changed the card.
Shown(k) ==
  [p \in DOMAIN screen \cup {PageOf(k)} |-> IF p = PageOf(k) THEN replies[k].card ELSE screen[p]]
GatewayAccepts ==
  /\ flight.at = "sent"
  /\ screen' = Shown(flight.key)
  /\ flight' = [flight EXCEPT !.at = "ok"]
  /\ UNCHANGED <<durable, wanted, proc, left>>
GatewayFails(how) ==
  /\ flight.at = "sent"
  /\ Spend("fail")
  /\ screen' \in IF how = "uncertain" THEN {screen, Shown(flight.key)} ELSE {screen}
  /\ flight' = [flight EXCEPT !.at = how]
  /\ UNCHANGED <<durable, wanted, proc>>

\* settleConversationPageDelivery.
Settled(k) ==
  LET p == PageOf(k)
      page == pages[p]
      linked == page.pend = k
      rev == replies[k].rev
  IN  [pages EXCEPT ![p] =
        [page EXCEPT !.msg = TRUE, !.dseq = Max({page.dseq, rev}),
                     !.dcur = IF linked THEN page.pcur ELSE page.dcur,
                     !.pcur = IF linked THEN Null ELSE page.pcur,
                     !.pend = IF linked THEN NoReply ELSE page.pend,
                     !.st = IF page.st = "creating" \/ (page.st = "finished" /\ rev < page.seq)
                            THEN "active" ELSE page.st]]

\* acknowledgeConversationPageDelivery, and the checkpoint callback after it.
Acknowledge ==
  /\ flight.at = "ok"
  /\ replies' = [replies EXCEPT ![flight.key].st = "delivered", ![flight.key].claimed = FALSE]
  /\ pages' = Settled(flight.key)
  /\ flight' = Idle
  /\ wanted' = TRUE
  /\ UNCHANGED <<items, seg, ver, gaps, screen, proc, left>>

\* failConversationPageDelivery: the attempt budget, then dismissal.
ExhaustedState(p) ==
  IF seg = "closed" THEN "finished"
  ELSE IF pages[p].st \in {"frozen", "finished"} THEN pages[p].st
  ELSE IF ~pages[p].msg THEN "finished"
  ELSE "active"
Fail ==
  LET k == flight.key
      tries == replies[k].tries + 1
      exhausted == tries >= Attempts
  IN  /\ flight.at \in {"rejected", "uncertain"}
      /\ replies' = [replies EXCEPT ![k] =
            [@ EXCEPT !.st = IF exhausted THEN "dismissed" ELSE "pending", !.claimed = FALSE,
                      !.tries = tries, !.unsure = flight.at = "uncertain"]]
      /\ pages' = IF exhausted THEN Unlinked(PageOf(k), k, ExhaustedState(PageOf(k))) ELSE pages
      /\ flight' = Idle
      /\ UNCHANGED <<items, seg, ver, gaps, screen, wanted, proc, left>>

-----------------------------------------------------------------------------
(* The process dies: the schedule and the execution are lost, the rows stay *)
(* and the claim expires.                                                   *)

Crash ==
  /\ Spend("crash")
  /\ proc' = proc + 1
  /\ flight' = Idle /\ wanted' = FALSE
  /\ screen' \in IF flight.at = "sent" THEN {screen, Shown(flight.key)} ELSE {screen}
  /\ UNCHANGED durable

\* recoverExpiredRingClaims.
ClaimExpires(k) ==
  /\ replies[k].st = "pending" /\ replies[k].claimed /\ flight.key # k
  /\ replies' = [replies EXCEPT ![k].st = "dead_letter", ![k].claimed = FALSE, ![k].unsure = TRUE]
  /\ UNCHANGED <<items, seg, ver, pages, gaps, screen, flight, wanted, proc, left>>

-----------------------------------------------------------------------------

\* The Human message: segment, first item, first page and its create in one
\* transaction.
Init ==
  /\ items = <<0>> /\ seg = "working" /\ ver = 1
  /\ pages = <<NewPage(0, 0, TRUE, <<1, "create", 0>>)>>
  /\ proc = 1
  /\ replies = [k \in {<<1, "create", 0>>} |->
       [st |-> "pending", rev |-> 1, tries |-> 0, claimed |-> FALSE, first |-> FALSE,
        unsure |-> FALSE, born |-> 1,
        card |-> [ver |-> 1, done |-> FALSE, shows |-> {<<1, 0>>}]]]
  /\ gaps = {}
  /\ screen = <<>>
  /\ flight = Idle
  /\ wanted = TRUE
  /\ left \in Scenarios

Project ==
  \/ ItemArrives \/ TurnCompletes \/ SegmentCloses \/ ActivityInvalidates
  \/ \E i \in DOMAIN items : ItemChanges(i)
Converge == Flush \/ Scan
Deliver ==
  \/ \E k \in DOMAIN replies : Claim(k) \/ Retire(k) \/ ClaimExpires(k)
  \/ GatewayAccepts \/ Acknowledge \/ Fail
Next ==
  \/ Project \/ Converge \/ Deliver
  \/ \E how \in {"rejected", "uncertain"} : GatewayFails(how)
  \/ Crash

Spec == Init /\ [][Next]_vars

\* The scheduler's timer, the watchdog's period and the Ring's wake-ups; the
\* Gateway answers, one way or the other.
Fairness ==
  /\ WF_vars(Flush) /\ WF_vars(Scan)
  /\ WF_vars(Deliver)
FairSpec == Spec /\ Fairness

-----------------------------------------------------------------------------
(* Properties.                                                             *)

CardType == [ver : Nat, done : BOOLEAN, shows : SUBSET ((1..MaxItems) \X Nat)]
TypeOK ==
  /\ items \in Seq(Nat) /\ Len(items) <= MaxItems
  /\ seg \in {"working", "completed", "closed"} /\ ver \in Nat
  /\ \A p \in DOMAIN pages :
       /\ pages[p].st \in {"creating", "active", "frozen", "finished"}
       /\ pages[p].pend # NoReply => pages[p].pend \in DOMAIN replies
       /\ pages[p].base <= Len(items) /\ pages[p].msg \in BOOLEAN
       /\ pages[p].dseq <= pages[p].seq
  /\ \A k \in DOMAIN replies :
       /\ PageOf(k) \in DOMAIN pages
       /\ replies[k].st \in {"pending", "delivered", "dead_letter", "dismissed"}
       /\ replies[k].tries <= Attempts
       /\ replies[k].card \in CardType
  /\ flight # Idle => replies[flight.key].claimed
  /\ wanted \in BOOLEAN

HasRevision(i, r) == IF i \in DOMAIN items THEN items[i] = r ELSE FALSE
ShowsRevision(i, r) ==
  \E p \in DOMAIN screen : \E s \in screen[p].shows : s[1] = i /\ s[2] >= r

\* A segment has at most one page effect under way, and that effect is the one
\* its page waits for: convergeOnce never reserves past an unsettled reply, so no
\* reply is left without a page to settle.
OneEffect ==
  LET live == {k \in DOMAIN replies : replies[k].st = "pending"}
  IN  /\ Cardinality(live) <= 1
      /\ \A k \in live : pages[PageOf(k)].pend = k

\* A continuation skips nothing: every item before the cursor where a delivered
\* page starts is on a card of an earlier page.
NoHole ==
  \A p \in DOMAIN pages : pages[p].msg =>
    \A i \in 1..pages[p].base :
      \E q \in 1..(p - 1) : q \in DOMAIN screen /\ \E s \in screen[q].shows : s[1] = i

\* A reply whose page no longer accepts it and whose effect is uncertain: the claim
\* refuses it, and so does the retirement.
Stuck(k) == Live(k) /\ replies[k].unsure /\ ~CurrentTarget(k)

\* The delivery of some page of the segment ended without success.
GaveUp == \E k \in DOMAIN replies : replies[k].st \in {"dismissed", "dead_letter"} \/ Stuck(k)

\* Every revision of every item that the projection stores reaches a card, unless
\* it was superseded, a delivery of the segment was given up, or the page of the item
\* was past and the change was recorded as a gap.
EveryRevisionShown ==
  \A i \in 1..MaxItems : \A r \in 0..Max({s.change : s \in Scenarios}) :
    HasRevision(i, r) ~>
      \/ ShowsRevision(i, r) \/ GaveUp
      \/ [kind |-> "late", of |-> i] \in gaps

\* No page waits for a reply that was dismissed.
LinkReleased ==
  \A p \in DOMAIN pages : pages[p].pend # NoReply => replies[pages[p].pend].st # "dismissed"
=============================================================================
