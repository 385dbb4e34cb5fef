--------------------------- MODULE TurnCardProofs ---------------------------
(***************************************************************************)
(* What TurnCard guarantees for any number of items, any capacity of the   *)
(* cards, any attempt budget and any scenario: a segment has one page      *)
(* effect under way, the one its page waits for, no continuation starts    *)
(* behind an item that no earlier card shows, and no card on the screen is *)
(* taken back to an earlier version of the segment.                        *)
(***************************************************************************)
EXTENDS TurnCard, FiniteSetTheorems, TLAPS

Kinds == {"none", "create", "snapshot", "freeze", "finish"}
Keys == Nat \X Kinds \X Nat
Cursors == Nat \cup {Null}
Cards == [ver : Nat, done : BOOLEAN, shows : SUBSET (Nat \X Nat)]
PageType ==
  [st : {"creating", "active", "frozen", "finished"}, seq : Nat, dseq : Nat, base : Nat,
   anchor : Cursors, incl : BOOLEAN, msg : BOOLEAN, pend : Keys, pcur : Cursors, dcur : Cursors,
   cont : Cursors, contIncl : BOOLEAN]
ReplyType ==
  [st : {"pending", "delivered", "dead_letter", "dismissed"}, rev : Nat, card : Cards, tries : Nat,
   claimed : BOOLEAN, first : BOOLEAN, unsure : BOOLEAN, born : Nat]

\* The shape of what the proofs are about.
Shape ==
  /\ items \in Seq(Nat) /\ ver \in Nat /\ proc \in Nat
  /\ pages \in Seq(PageType) /\ Len(pages) >= 1
  /\ DOMAIN replies \subseteq Keys /\ replies \in [DOMAIN replies -> ReplyType]
  /\ \A k \in DOMAIN replies : PageOf(k) \in DOMAIN pages
  /\ screen \in [DOMAIN screen -> Cards]
  /\ flight.at \in {"idle", "sent", "ok", "rejected", "uncertain"}

Pending(k) == k \in DOMAIN replies /\ replies[k].st = "pending"
OnCard(card, i) == \E s \in card.shows : s[1] = i
OnScreen(p, i) == p \in DOMAIN screen /\ OnCard(screen[p], i)

\* Only the last page still changes.
OldPagesRest ==
  \A p \in DOMAIN pages : p < Len(pages) => pages[p].st = "frozen" /\ pages[p].pend = NoReply

\* A reply that waits is the one its page waits for.
PendingIsLinked == \A k \in DOMAIN replies : Pending(k) => pages[PageOf(k)].pend = k

\* The execution in progress is that of a waiting reply, and an accepted card shows.
FlightIsPending ==
  flight.at # "idle" =>
    /\ Pending(flight.key)
    /\ flight.at = "ok" =>
         PageOf(flight.key) \in DOMAIN screen
         /\ screen[PageOf(flight.key)] = replies[flight.key].card

\* A page that waits for its first card has no cursor yet.
CreatesHaveNoCursor ==
  \A p \in DOMAIN pages :
    Kind(pages[p].pend) = "create" => pages[p].pcur = Null /\ pages[p].dcur = Null

\* A page that may take more items: a finished one may be reopened.
MayGrow(p) ==
  \/ pages[p].st \in {"creating", "active"}
  \/ pages[p].st = "finished" /\ (seg # "closed" \/ pages[p].pend # NoReply)

\* A cursor never passes the timeline, and that of a page that may grow no card of it.
CursorsFit ==
  \A p \in DOMAIN pages :
    /\ pages[p].pcur <= Len(items) /\ pages[p].dcur <= Len(items)
    /\ MayGrow(p) => /\ pages[p].pcur <= pages[p].base + LiveCap
                     /\ pages[p].dcur <= pages[p].base + LiveCap

\* The card of a waiting reply shows its page up to both cursors, so that no step
\* between its claim and its acknowledgement takes an item from the reader.
PendingCardCovers ==
  \A k \in DOMAIN replies : Pending(k) =>
    LET page == pages[PageOf(k)]
    IN  \A i \in Nat :
          page.base < i /\ (i <= page.pcur \/ i <= page.dcur) => OnCard(replies[k].card, i)

\* What a page has delivered is on its card.
DeliveredIsShown ==
  \A p \in DOMAIN pages : \A i \in Nat :
    pages[p].base < i /\ i <= pages[p].dcur => OnScreen(p, i)

\* What comes before a page is on the cards of earlier pages, also before the page is shown.
ReadBefore ==
  \A p \in DOMAIN pages : \A i \in 1..pages[p].base :
    \E q \in 1..(p - 1) : OnScreen(q, i)

IInv == /\ Shape /\ OldPagesRest /\ PendingIsLinked /\ FlightIsPending /\ CreatesHaveNoCursor
        /\ CursorsFit /\ PendingCardCovers /\ DeliveredIsShown /\ ReadBefore
-----------------------------------------------------------------------------
(* The pages a step may touch, and what the numbers on them are.               *)

\* A page that waits for a reply, or may get one, is the last one.
LEMMA LastIsOpen ==
  ASSUME IInv, NEW p \in DOMAIN pages, pages[p].st # "frozen" \/ pages[p].pend # NoReply
  PROVE  p = Len(pages) /\ p \in Nat
  BY DEF IInv, Shape, OldPagesRest

\* Every other page is frozen.
LEMMA EarlierIsFrozen ==
  ASSUME IInv, NEW p \in 1..Len(pages), p # Len(pages)
  PROVE  p \in DOMAIN pages /\ pages[p].st = "frozen"
  <1>1. PICK n \in Nat : n = Len(pages) /\ DOMAIN pages = 1..n
    BY DEF IInv, Shape
  <1>2. p \in 1..n /\ p # n
    BY <1>1
  <1>3. p < n
    BY <1>2
  <1> QED BY <1>1, <1>2, <1>3 DEF IInv, OldPagesRest

\* A waiting reply belongs to the last page.
LEMMA PendingIsLast ==
  ASSUME IInv, NEW k, Pending(k)
  PROVE  /\ k \in Keys /\ PageOf(k) = Len(pages) /\ Len(pages) \in DOMAIN pages
         /\ pages[Len(pages)].pend = k /\ k # NoReply
  <1>1. k \in DOMAIN replies /\ k \in Keys /\ PageOf(k) \in DOMAIN pages
    BY DEF IInv, Shape, Pending
  <1>2. pages[PageOf(k)].pend = k
    BY <1>1 DEF IInv, PendingIsLinked
  <1>3. DOMAIN pages = 1..Len(pages) /\ Len(pages) \in Nat
    BY DEF IInv, Shape
  <1>4. k # NoReply
    <2>1. k[1] # 0
      BY <1>1, <1>3 DEF PageOf
    <2> QED BY <2>1 DEF NoReply
  <1> QED BY <1>1, <1>2, <1>3, <1>4, LastIsOpen

LEMMA MaxOfTwo ==
  ASSUME NEW a \in Nat, NEW b \in Nat
  PROVE  Max({a, b}) \in Nat /\ Max({a, b}) >= a /\ Max({a, b}) >= b
  <1>1. \E x \in {a, b} : \A y \in {a, b} : x >= y
    OBVIOUS
  <1>2. Max({a, b}) \in {a, b} /\ \A y \in {a, b} : Max({a, b}) >= y
    BY <1>1 DEF Max
  <1> QED BY <1>2

LEMMA MaxOfThree ==
  ASSUME NEW a \in Nat, NEW b \in Nat, NEW c \in Nat
  PROVE  Max({a, b, c}) \in Nat
  <1>1. \E x \in {a, b, c} : \A y \in {a, b, c} : x >= y
    OBVIOUS
  <1>2. Max({a, b, c}) \in {a, b, c}
    BY <1>1 DEF Max
  <1> QED BY <1>2

\* A card shows the timeline from its base to its capacity.
LEMMA CardShows ==
  ASSUME items \in Seq(Nat), ver \in Nat, NEW base \in Cursors, NEW cap \in Nat,
         NEW done \in BOOLEAN
  PROVE  /\ Card(base, cap, done) \in Cards
         /\ \A i \in Nat : base < i /\ 1 <= i /\ i <= base + cap /\ i <= Len(items)
                             => OnCard(Card(base, cap, done), i)
  <1>1. Rendered(base, cap) \in SUBSET (Nat \X Nat)
    BY DEF Rendered
  <1>2. Card(base, cap, done) \in Cards
    BY <1>1 DEF Card, Cards
  <1>3. ASSUME NEW i \in Nat, base < i, 1 <= i, i <= base + cap, i <= Len(items)
        PROVE  OnCard(Card(base, cap, done), i)
    <2>1. i \in DOMAIN items
      BY <1>3
    <2>2. <<i, items[i]>> \in Rendered(base, cap)
      BY <1>3, <2>1 DEF Rendered
    <2>3. <<i, items[i]>> \in Card(base, cap, done).shows
      BY <2>2 DEF Card
    <2> QED BY <2>3 DEF OnCard
  <1> QED BY <1>2, <1>3

-----------------------------------------------------------------------------
(* Steps that leave pages, replies and the screen alone.                       *)

\* The timeline grows or changes in place, and the segment never reopens.
LEMMA ProjectionStep ==
  ASSUME IInv, UNCHANGED <<pages, replies, screen, flight, proc>>,
         items' \in Seq(Nat), Len(items') >= Len(items), ver' \in Nat,
         seg' = seg \/ seg' = "closed" \/ seg # "closed"
  PROVE  IInv'
  <1>1. Shape'
    BY DEF IInv, Shape
  <1>2. OldPagesRest' /\ PendingIsLinked' /\ FlightIsPending' /\ CreatesHaveNoCursor'
    BY DEF IInv, OldPagesRest, PendingIsLinked, FlightIsPending, CreatesHaveNoCursor, Pending
  <1>3. CursorsFit'
    <2> SUFFICES ASSUME NEW p \in DOMAIN pages
                 PROVE  /\ pages[p].pcur <= Len(items') /\ pages[p].dcur <= Len(items')
                        /\ MayGrow(p)' => /\ pages[p].pcur <= pages[p].base + LiveCap
                                          /\ pages[p].dcur <= pages[p].base + LiveCap
      BY DEF CursorsFit
    <2>1. MayGrow(p)' => MayGrow(p)
      BY DEF MayGrow
    <2>2. pages[p] \in PageType /\ Len(items) \in Nat /\ Len(items') \in Nat
      BY DEF IInv, Shape
    <2>3. pages[p].pcur \in Int /\ pages[p].dcur \in Int
      BY <2>2 DEF PageType, Cursors, Null
    <2> QED BY <2>1, <2>2, <2>3 DEF IInv, CursorsFit
  <1>4. PendingCardCovers' /\ DeliveredIsShown' /\ ReadBefore'
    BY DEF IInv, PendingCardCovers, DeliveredIsShown, ReadBefore, Pending, OnScreen
  <1> QED BY <1>1, <1>2, <1>3, <1>4 DEF IInv

-----------------------------------------------------------------------------
(* Steps of a waiting reply.                                                   *)

\* A reply is claimed, released for another attempt or buried: its card and page stay.
LEMMA RowStep ==
  ASSUME IInv, NEW k \in DOMAIN replies, Pending(k), NEW row \in ReplyType,
         row.card = replies[k].card,
         replies' = [replies EXCEPT ![k] = row],
         \/ flight'.at = "idle"
         \/ row.st = "pending" /\ flight'.at = "sent" /\ flight'.key = k
         \/ flight.key # k /\ flight' = flight,
         UNCHANGED <<items, seg, ver, pages, screen, proc>>
  PROVE  IInv'
  <1>1. DOMAIN replies' = DOMAIN replies /\ replies'[k] = row
        /\ \A j \in DOMAIN replies : j # k => replies'[j] = replies[j]
    OBVIOUS
  <1>2. \A j \in DOMAIN replies : replies'[j].card = replies[j].card
    BY <1>1
  <1>3. \A j : Pending(j)' => Pending(j)
    BY <1>1 DEF Pending
  <1>4. Shape'
    <2>1. replies' \in [DOMAIN replies' -> ReplyType]
      BY <1>1 DEF IInv, Shape
    <2>2. flight'.at \in {"idle", "sent", "ok", "rejected", "uncertain"}
      BY DEF IInv, Shape
    <2> QED BY <1>1, <2>1, <2>2 DEF IInv, Shape
  <1>5. FlightIsPending'
    <2>1. CASE flight'.at = "idle"
      BY <2>1 DEF FlightIsPending
    <2>2. CASE row.st = "pending" /\ flight'.at = "sent" /\ flight'.key = k
      BY <1>1, <2>2 DEF FlightIsPending, Pending
    <2>3. CASE flight.key # k /\ flight' = flight
      BY <1>1, <2>3 DEF IInv, FlightIsPending, Pending
    <2> QED BY <2>1, <2>2, <2>3
  <1>6. OldPagesRest' /\ PendingIsLinked' /\ CreatesHaveNoCursor' /\ CursorsFit'
    BY <1>1, <1>3 DEF IInv, OldPagesRest, PendingIsLinked, CreatesHaveNoCursor, CursorsFit, MayGrow
  <1>7. PendingCardCovers'
    BY <1>1, <1>2, <1>3 DEF IInv, PendingCardCovers
  <1>8. DeliveredIsShown' /\ ReadBefore'
    BY DEF IInv, DeliveredIsShown, ReadBefore, OnScreen
  <1> QED BY <1>4, <1>5, <1>6, <1>7, <1>8 DEF IInv

\* The provider shows the card of the reply in flight, or answers without.
LEMMA ScreenStep ==
  ASSUME IInv, flight.at = "sent", screen' = screen \/ screen' = Shown(flight.key),
         \/ flight'.at = "idle"
         \/ /\ flight'.key = flight.key /\ flight'.at \in {"rejected", "uncertain", "ok"}
            /\ flight'.at = "ok" => screen' = Shown(flight.key),
         UNCHANGED durable, proc' \in Nat
  PROVE  IInv'
  <1> DEFINE k == flight.key
             n == Len(pages)
  <1>1. Pending(k)
    BY DEF IInv, FlightIsPending
  <1>2. k \in DOMAIN replies /\ PageOf(k) = n /\ n \in DOMAIN pages /\ replies[k].card \in Cards
    BY <1>1, PendingIsLast DEF Pending, IInv, Shape, ReplyType
  <1>3. CASE screen' = screen
    <2>1. \A j : Pending(j)' <=> Pending(j)
      BY DEF durable, Pending
    <2>2. FlightIsPending'
      <3>1. flight'.at = "ok" =>
              PageOf(k) \in DOMAIN screen' /\ screen'[PageOf(k)] = replies[k].card
        BY <1>3 DEF Shown
      <3> QED BY <1>1, <2>1, <3>1 DEF FlightIsPending, durable
    <2>3. Shape'
      BY <1>3 DEF IInv, Shape, durable
    <2>4. OldPagesRest' /\ PendingIsLinked' /\ CreatesHaveNoCursor' /\ CursorsFit'
      BY <2>1 DEF IInv, OldPagesRest, PendingIsLinked, CreatesHaveNoCursor, CursorsFit, MayGrow,
         durable
    <2>5. PendingCardCovers' /\ DeliveredIsShown' /\ ReadBefore'
      BY <1>3, <2>1 DEF IInv, PendingCardCovers, DeliveredIsShown, ReadBefore, OnScreen, durable
    <2> QED BY <2>2, <2>3, <2>4, <2>5 DEF IInv
  <1>4. CASE screen' = Shown(k)
    <2>1. \A j : Pending(j)' <=> Pending(j)
      BY DEF durable, Pending
    <2>2. /\ DOMAIN screen' = DOMAIN screen \cup {n} /\ screen'[n] = replies[k].card
          /\ \A p \in DOMAIN screen : p # n => screen'[p] = screen[p]
      BY <1>2, <1>4 DEF Shown
    <2>3. Shape'
      <3>1. screen \in [DOMAIN screen -> Cards]
        BY DEF IInv, Shape
      <3>2. screen' \in [DOMAIN screen' -> Cards]
        <4>1. \A p \in DOMAIN screen \cup {n} :
                 (IF p = n THEN replies[k].card ELSE screen[p]) \in Cards
          BY <1>2, <3>1
        <4> QED BY <1>2, <1>4, <4>1 DEF Shown
      <3> QED BY <3>2 DEF IInv, Shape, durable
    <2>4. FlightIsPending'
      BY <1>1, <1>2, <2>1, <2>2 DEF FlightIsPending, durable
    <2>5. OldPagesRest' /\ PendingIsLinked' /\ CreatesHaveNoCursor' /\ CursorsFit'
      BY <2>1 DEF IInv, OldPagesRest, PendingIsLinked, CreatesHaveNoCursor, CursorsFit, MayGrow,
         durable
    <2>6. PendingCardCovers'
      BY <2>1 DEF IInv, PendingCardCovers, durable
    <2>7. \A p, i : p # n /\ OnScreen(p, i) => OnScreen(p, i)'
      BY <2>2 DEF OnScreen
    <2>8. DeliveredIsShown'
      <3> SUFFICES ASSUME NEW p \in DOMAIN pages, NEW i \in Nat, pages[p].base < i,
                          i <= pages[p].dcur
                   PROVE  OnScreen(p, i)'
        BY DEF DeliveredIsShown, durable
      <3>1. CASE p = n
        <4>1. OnCard(replies[k].card, i)
          BY <1>1, <1>2, <3>1 DEF IInv, PendingCardCovers
        <4> QED BY <2>2, <3>1, <4>1 DEF OnScreen
      <3>2. CASE p # n
        BY <2>7, <3>2 DEF IInv, DeliveredIsShown
      <3> QED BY <3>1, <3>2
    <2>9. ReadBefore'
      <3> SUFFICES ASSUME NEW p \in DOMAIN pages, NEW i \in 1..pages[p].base
                   PROVE  \E q \in 1..(p - 1) : OnScreen(q, i)'
        BY DEF ReadBefore, durable
      <3>1. PICK q \in 1..(p - 1) : OnScreen(q, i)
        BY DEF IInv, ReadBefore
      <3>2. q # n
        BY DEF IInv, Shape
      <3> QED BY <2>7, <3>1, <3>2
    <2> QED BY <2>3, <2>4, <2>5, <2>6, <2>8, <2>9 DEF IInv
  <1> QED BY <1>3, <1>4

\* A reply is settled for good and its page goes on without it; its cursor becomes the page's
\* only with its card on the screen.
LEMMA SettleStep ==
  ASSUME IInv, NEW k \in DOMAIN replies, Pending(k), NEW row \in ReplyType, row.st # "pending",
         replies' = [replies EXCEPT ![k] = row],
         NEW page \in PageType, pages' = [pages EXCEPT ![PageOf(k)] = page],
         page.pend = NoReply, page.pcur = Null, page.base = pages[PageOf(k)].base,
         \/ page.dcur = pages[PageOf(k)].dcur
         \/ /\ page.dcur = pages[PageOf(k)].pcur /\ PageOf(k) \in DOMAIN screen
            /\ screen[PageOf(k)] = replies[k].card,
         MayGrow(PageOf(k))' => MayGrow(PageOf(k)) \/ page.dcur = Null,
         flight'.at = "idle", UNCHANGED <<items, seg, ver, screen, proc>>
  PROVE  IInv'
  <1> DEFINE n == Len(pages)
  <1>1. PageOf(k) = n /\ n \in DOMAIN pages /\ pages[n].pend = k
    BY PendingIsLast
  <1>2. pages \in Seq(PageType) /\ DOMAIN pages = 1..n /\ n \in Nat /\ n >= 1
    BY DEF IInv, Shape
  <1>3. /\ pages' \in Seq(PageType) /\ Len(pages') = n /\ DOMAIN pages' = DOMAIN pages
        /\ pages'[n] = page /\ \A p \in DOMAIN pages : p # n => pages'[p] = pages[p]
    BY <1>1, <1>2
  <1>4. /\ DOMAIN replies' = DOMAIN replies
        /\ \A j \in DOMAIN replies : j # k => replies'[j] = replies[j]
    OBVIOUS
  <1>5. \A j : ~Pending(j)'
    <2>1. \A j : Pending(j) => j = k
      BY <1>1, PendingIsLast
    <2> QED BY <1>4, <2>1 DEF Pending
  <1>6. Shape'
    <2>1. replies' \in [DOMAIN replies' -> ReplyType]
      BY <1>4 DEF IInv, Shape
    <2> QED BY <1>2, <1>3, <1>4, <2>1 DEF IInv, Shape
  <1>7. OldPagesRest' /\ PendingIsLinked' /\ FlightIsPending' /\ PendingCardCovers'
    BY <1>3, <1>5 DEF IInv, OldPagesRest, PendingIsLinked, FlightIsPending, PendingCardCovers
  <1>8. CreatesHaveNoCursor'
    <2>1. Kind(page.pend) # "create"
      BY DEF Kind, NoReply
    <2> QED BY <1>3, <2>1 DEF IInv, CreatesHaveNoCursor
  <1>9. page.dcur = pages[n].dcur \/ page.dcur = pages[n].pcur
    BY <1>1
  <1>10. CursorsFit'
    <2> SUFFICES ASSUME NEW p \in DOMAIN pages
                 PROVE  /\ pages'[p].pcur <= Len(items) /\ pages'[p].dcur <= Len(items)
                        /\ MayGrow(p)' => /\ pages'[p].pcur <= pages'[p].base + LiveCap
                                          /\ pages'[p].dcur <= pages'[p].base + LiveCap
      BY <1>3 DEF CursorsFit
    <2>1. CASE p = n
      <3>1. Len(items) \in Nat /\ LiveCap \in Nat /\ page.base \in Nat
        <4>1. Len(items) \in Nat
          BY DEF IInv, Shape
        <4>2. page.base \in Nat
          BY DEF PageType
        <4> QED BY <4>1, <4>2, CapAssumption
      <3>2. page.dcur <= Len(items)
        BY <1>1, <1>9 DEF IInv, CursorsFit
      <3>3. MayGrow(n) => page.dcur <= page.base + LiveCap
        BY <1>1, <1>9 DEF IInv, CursorsFit
      <3> QED BY <1>1, <1>3, <2>1, <3>1, <3>2, <3>3 DEF Null
    <2>2. CASE p # n
      <3>1. MayGrow(p)' => MayGrow(p)
        BY <1>3, <2>2 DEF MayGrow
      <3> QED BY <1>3, <2>2, <3>1 DEF IInv, CursorsFit
    <2> QED BY <2>1, <2>2
  <1>11. DeliveredIsShown'
    <2> SUFFICES ASSUME NEW p \in DOMAIN pages, NEW i \in Nat,
                        pages'[p].base < i, i <= pages'[p].dcur
                 PROVE  OnScreen(p, i)
      BY <1>3 DEF DeliveredIsShown, OnScreen
    <2>1. CASE p = n /\ page.dcur = pages[n].dcur
      BY <1>1, <1>3, <2>1 DEF IInv, DeliveredIsShown
    <2>2. CASE p = n /\ page.dcur # pages[n].dcur
      <3>1. page.dcur = pages[n].pcur /\ n \in DOMAIN screen /\ screen[n] = replies[k].card
        BY <1>1, <2>2
      <3>2. OnCard(replies[k].card, i)
        BY <1>1, <1>3, <2>2, <3>1 DEF IInv, PendingCardCovers
      <3> QED BY <2>2, <3>1, <3>2 DEF OnScreen
    <2>3. CASE p # n
      BY <1>3, <2>3 DEF IInv, DeliveredIsShown
    <2> QED BY <2>1, <2>2, <2>3
  <1>12. ReadBefore'
    <2>1. \A p \in DOMAIN pages : pages'[p].base = pages[p].base
      BY <1>1, <1>3
    <2> QED BY <1>3, <2>1 DEF IInv, ReadBefore, OnScreen
  <1> QED BY <1>6, <1>7, <1>8, <1>10, <1>11, <1>12 DEF IInv

-----------------------------------------------------------------------------
(* Reservations: convergeOnce reserves for the last page, and only when nothing waits.        *)

\* A finished page is reopened, or its sequence is moved on.
LEMMA ReopenStep ==
  ASSUME IInv, ActivityInvalidates
  PROVE  IInv'
  <1> DEFINE n == Len(pages)
             next == Max({ver, pages[n].seq, pages[n].dseq}) + 1
  <1>1. pages \in Seq(PageType) /\ DOMAIN pages = 1..n /\ n \in Nat /\ n >= 1 /\ n \in DOMAIN pages
    BY DEF IInv, Shape
  <1>2. pages[n] \in PageType /\ ver \in Nat
    BY <1>1 DEF IInv, Shape
  <1>3. next \in Nat
    <2>1. pages[n].seq \in Nat /\ pages[n].dseq \in Nat
      BY <1>2 DEF PageType
    <2> QED BY <1>2, <2>1, MaxOfThree
  <1>4. Max({pages[n].seq, next}) \in Nat
    BY <1>2, <1>3, MaxOfTwo DEF PageType
  <1> DEFINE moved == [pages[n] EXCEPT !.seq = Max({@, next})]
             reopened == [pages[n] EXCEPT !.st = "active"]
  <1>5. moved \in PageType /\ reopened \in PageType
    BY <1>2, <1>4 DEF PageType
  <1>6. /\ moved.pend = pages[n].pend /\ moved.pcur = pages[n].pcur /\ moved.dcur = pages[n].dcur
        /\ moved.base = pages[n].base /\ moved.st = pages[n].st
    BY <1>2 DEF PageType
  <1>7. /\ reopened.pend = pages[n].pend /\ reopened.pcur = pages[n].pcur
        /\ reopened.dcur = pages[n].dcur /\ reopened.base = pages[n].base
    BY <1>2 DEF PageType
  <1>8. \E page \in PageType :
          /\ pages' = [pages EXCEPT ![n] = page]
          /\ page.pend = pages[n].pend /\ page.pcur = pages[n].pcur
          /\ page.dcur = pages[n].dcur /\ page.base = pages[n].base
          /\ page.st = pages[n].st \/ (pages[n].st = "finished" /\ page.st = "active")
    <2>1. CASE pages[n].st # "finished"
      <3>1. pages' = pages
        BY <2>1 DEF ActivityInvalidates
      <3>2. pages = [pages EXCEPT ![n] = pages[n]]
        BY <1>1
      <3> QED BY <1>2, <3>1, <3>2
    <2>2. CASE pages[n].st = "finished" /\ pages[n].pend # NoReply
      <3>1. pages' = [pages EXCEPT ![n] = moved]
        BY <1>1, <2>2 DEF ActivityInvalidates
      <3> QED BY <1>5, <1>6, <3>1
    <2>3. CASE pages[n].st = "finished" /\ pages[n].pend = NoReply
      <3>1. pages' = [pages EXCEPT ![n] = reopened]
        BY <1>1, <2>3 DEF ActivityInvalidates
      <3>2. reopened.st = "active"
        BY <1>2 DEF PageType
      <3> QED BY <1>5, <1>7, <2>3, <3>1, <3>2
    <2> QED BY <2>1, <2>2, <2>3
  <1> HIDE DEF moved, reopened
  <1>9. PICK page \in PageType :
          /\ pages' = [pages EXCEPT ![n] = page]
          /\ page.pend = pages[n].pend /\ page.pcur = pages[n].pcur
          /\ page.dcur = pages[n].dcur /\ page.base = pages[n].base
          /\ page.st = pages[n].st \/ (pages[n].st = "finished" /\ page.st = "active")
    BY <1>8
  <1>10. /\ pages' \in Seq(PageType) /\ Len(pages') = n /\ DOMAIN pages' = DOMAIN pages
         /\ pages'[n] = page /\ \A p \in DOMAIN pages : p # n => pages'[p] = pages[p]
    BY <1>1, <1>9
  <1>11. \A p \in DOMAIN pages :
           /\ pages'[p].pend = pages[p].pend /\ pages'[p].pcur = pages[p].pcur
           /\ pages'[p].dcur = pages[p].dcur /\ pages'[p].base = pages[p].base
    BY <1>9, <1>10
  <1>12. /\ seg # "closed" /\ ver' = next
         /\ UNCHANGED <<items, seg, replies, screen, flight, proc>>
    BY DEF ActivityInvalidates
  <1>13. Shape'
    BY <1>1, <1>3, <1>10, <1>12 DEF IInv, Shape
  <1>14. OldPagesRest' /\ PendingIsLinked' /\ FlightIsPending' /\ CreatesHaveNoCursor'
    <2>1. OldPagesRest'
      BY <1>1, <1>10 DEF IInv, OldPagesRest
    <2>2. \A j : Pending(j)' <=> Pending(j)
      BY <1>12 DEF Pending
    <2>3. PendingIsLinked'
      BY <1>11, <1>12, <2>2 DEF IInv, PendingIsLinked, Shape
    <2>4. FlightIsPending' /\ CreatesHaveNoCursor'
      BY <1>10, <1>11, <1>12, <2>2 DEF IInv, FlightIsPending, CreatesHaveNoCursor
    <2> QED BY <2>1, <2>3, <2>4
  <1>15. CursorsFit'
    <2>1. \A p \in DOMAIN pages : MayGrow(p)' => MayGrow(p)
      BY <1>9, <1>10, <1>12 DEF MayGrow
    <2> QED BY <1>10, <1>11, <1>12, <2>1 DEF IInv, CursorsFit
  <1>16. PendingCardCovers' /\ DeliveredIsShown' /\ ReadBefore'
    <2>1. PendingCardCovers'
      BY <1>11, <1>12 DEF IInv, PendingCardCovers, Pending, Shape
    <2>2. DeliveredIsShown' /\ ReadBefore'
      BY <1>10, <1>11, <1>12 DEF IInv, DeliveredIsShown, ReadBefore, OnScreen
    <2> QED BY <2>1, <2>2
  <1> QED BY <1>13, <1>14, <1>15, <1>16 DEF IInv

\* Reserving gives the row of the key: a new one that waits, or the settled one of before.
LEMMA ReservedRow ==
  ASSUME IInv, \A k : ~Pending(k), NEW key \in Keys, NEW rev \in Nat, NEW card \in Cards,
         replies' = Enqueued(key, rev, card)
  PROVE  /\ DOMAIN replies' = DOMAIN replies \cup {key}
         /\ replies' \in [DOMAIN replies' -> ReplyType]
         /\ \A k : Pending(k)' => k = key /\ replies'[k].card = card
  <1>1. CASE key \in DOMAIN replies
    <2>1. replies' = replies
      BY <1>1 DEF Enqueued
    <2> QED BY <1>1, <2>1 DEF Pending, IInv, Shape
  <1>2. CASE key \notin DOMAIN replies
    <2>1. replies' = [k \in DOMAIN replies \cup {key} |->
                        IF k = key THEN NewReply(rev, card) ELSE replies[k]]
      BY <1>2 DEF Enqueued
    <2>2. NewReply(rev, card) \in ReplyType /\ NewReply(rev, card).card = card
      BY DEF NewReply, ReplyType, IInv, Shape
    <2>3. \A k \in DOMAIN replies \cup {key} :
            (IF k = key THEN NewReply(rev, card) ELSE replies[k]) \in ReplyType
      BY <2>2 DEF IInv, Shape
    <2>4. \A k : Pending(k)' => k = key
      BY <2>1 DEF Pending
    <2> QED BY <2>1, <2>2, <2>3, <2>4
  <1> QED BY <1>1, <1>2

\* A card of the last page is reserved: it shows the page from its base, up to both cursors.
LEMMA ReserveStep ==
  ASSUME IInv, \A k : ~Pending(k), NEW key \in Keys, PageOf(key) = Len(pages), Kind(key) # "create",
         pages[Len(pages)].st \in {"creating", "active"},
         NEW rev \in Nat, NEW cap \in Nat, LiveCap <= cap, NEW done \in BOOLEAN,
         replies' = Enqueued(key, rev, Card(pages[Len(pages)].base, cap, done)),
         NEW page \in PageType, pages' = [pages EXCEPT ![Len(pages)] = page],
         page.pend = key, page.base = pages[Len(pages)].base, page.dcur = pages[Len(pages)].dcur,
         page.pcur <= Len(items), page.pcur <= page.base + cap,
         page.st # "frozen" => page.pcur <= page.base + LiveCap,
         UNCHANGED <<items, seg, ver, screen, flight, proc>>
  PROVE  IInv'
  <1> DEFINE n == Len(pages)
             card == Card(pages[n].base, cap, done)
  <1>1. /\ pages \in Seq(PageType) /\ DOMAIN pages = 1..n
        /\ n \in Nat /\ n >= 1 /\ n \in DOMAIN pages
        /\ pages[n] \in PageType /\ items \in Seq(Nat) /\ ver \in Nat
    BY DEF IInv, Shape
  <1>2. pages[n].base \in Nat /\ pages[n].base \in Cursors /\ page.base \in Nat
        /\ page.pcur \in Int /\ page.dcur \in Int /\ LiveCap \in Nat /\ Len(items) \in Nat
    <2>1. pages[n].base \in Nat /\ page.base \in Nat
      BY <1>1 DEF PageType
    <2>2. page.pcur \in Int /\ page.dcur \in Int
      BY DEF PageType, Cursors, Null
    <2>3. LiveCap \in Nat /\ Len(items) \in Nat
      BY <1>1, CapAssumption
    <2> QED BY <2>1, <2>2, <2>3 DEF Cursors
  <1>3. /\ card \in Cards
        /\ \A i \in Nat : pages[n].base < i /\ 1 <= i /\ i <= pages[n].base + cap /\ i <= Len(items)
                            => OnCard(card, i)
    BY <1>1, <1>2, CardShows
  <1> HIDE DEF card
  <1>4. replies' = Enqueued(key, rev, card)
    BY DEF card
  <1>5. /\ DOMAIN replies' = DOMAIN replies \cup {key}
        /\ replies' \in [DOMAIN replies' -> ReplyType]
        /\ \A k : Pending(k)' => k = key /\ replies'[k].card = card
    BY <1>3, <1>4, ReservedRow
  <1>6. /\ pages' \in Seq(PageType) /\ Len(pages') = n /\ DOMAIN pages' = DOMAIN pages
        /\ pages'[n] = page /\ \A p \in DOMAIN pages : p # n => pages'[p] = pages[p]
    BY <1>1
  <1>7. flight.at = "idle"
    BY DEF IInv, FlightIsPending
  <1>8. Shape'
    BY <1>1, <1>5, <1>6 DEF IInv, Shape
  <1>9. OldPagesRest' /\ PendingIsLinked' /\ FlightIsPending' /\ CreatesHaveNoCursor'
    <2>1. OldPagesRest'
      BY <1>1, <1>6 DEF IInv, OldPagesRest
    <2>2. PendingIsLinked'
      BY <1>5, <1>6 DEF PendingIsLinked
    <2>3. FlightIsPending' /\ CreatesHaveNoCursor'
      BY <1>6, <1>7 DEF IInv, FlightIsPending, CreatesHaveNoCursor
    <2> QED BY <2>1, <2>2, <2>3
  <1>10. page.dcur <= Len(items) /\ page.dcur <= page.base + LiveCap
    BY <1>1 DEF IInv, CursorsFit, MayGrow
  <1>11. CursorsFit'
    <2> SUFFICES ASSUME NEW p \in DOMAIN pages
                 PROVE  /\ pages'[p].pcur <= Len(items) /\ pages'[p].dcur <= Len(items)
                        /\ MayGrow(p)' => /\ pages'[p].pcur <= pages'[p].base + LiveCap
                                          /\ pages'[p].dcur <= pages'[p].base + LiveCap
      BY <1>6 DEF CursorsFit
    <2>1. CASE p = n
      BY <1>6, <1>10, <2>1 DEF MayGrow
    <2>2. CASE p # n
      <3>1. MayGrow(p)' => MayGrow(p)
        BY <1>6, <2>2 DEF MayGrow
      <3> QED BY <1>6, <2>2, <3>1 DEF IInv, CursorsFit
    <2> QED BY <2>1, <2>2
  <1>12. PendingCardCovers'
    <2> SUFFICES ASSUME NEW k \in DOMAIN replies', Pending(k)', NEW i \in Nat,
                        pages'[PageOf(k)].base < i,
                        i <= pages'[PageOf(k)].pcur \/ i <= pages'[PageOf(k)].dcur
                 PROVE  OnCard(replies'[k].card, i)
      BY DEF PendingCardCovers
    <2>1. k = key /\ replies'[k].card = card /\ pages'[PageOf(k)] = page
      BY <1>5, <1>6
    <2>2. page.base < i /\ (i <= page.pcur \/ i <= page.dcur)
      BY <2>1
    <2>3. i <= Len(items) /\ i <= page.base + cap /\ 1 <= i
      <3>1. CASE i <= page.pcur
        BY <1>2, <2>2, <3>1
      <3>2. CASE i <= page.dcur
        <4>1. page.base + LiveCap <= page.base + cap
          BY <1>2
        <4>2. i <= Len(items)
          BY <1>2, <1>10, <3>2
        <4>3. i <= page.base + cap
          BY <1>2, <1>10, <3>2, <4>1
        <4> QED BY <1>2, <2>2, <4>2, <4>3
      <3> QED BY <2>2, <3>1, <3>2
    <2> QED BY <1>3, <2>1, <2>2, <2>3
  <1>13. DeliveredIsShown' /\ ReadBefore'
    <2>1. \A p \in DOMAIN pages : pages'[p].base = pages[p].base /\ pages'[p].dcur = pages[p].dcur
      BY <1>6
    <2> QED BY <1>6, <2>1 DEF IInv, DeliveredIsShown, ReadBefore, OnScreen
  <1> QED BY <1>8, <1>9, <1>11, <1>12, <1>13 DEF IInv

\* The continuation of a frozen page starts where the page's card ended, or at the beginning.
LEMMA ContinueStep ==
  ASSUME IInv, \A k : ~Pending(k), pages[Len(pages)].st = "frozen",
         pages[Len(pages)].pend = NoReply,
         reserveLateContinuation(Len(pages)), UNCHANGED <<items, seg, ver, screen, flight, proc>>
  PROVE  IInv'
  <1> DEFINE n == Len(pages)
             key == <<n + 1, "create", 0>>
             base == IF pages[n].dcur = Null THEN 0 ELSE pages[n].dcur
             card == Card(pages[n].cont, LiveCap, FALSE)
             page == NewPage(base, pages[n].cont, pages[n].cont < Len(items), key)
  <1>1. /\ pages \in Seq(PageType) /\ DOMAIN pages = 1..n
        /\ n \in Nat /\ n >= 1 /\ n \in DOMAIN pages
        /\ pages[n] \in PageType /\ items \in Seq(Nat) /\ ver \in Nat /\ Len(items) \in Nat
    BY DEF IInv, Shape
  <1>2. /\ pages[n].dcur \in Cursors /\ pages[n].cont \in Cursors /\ pages[n].base \in Nat
        /\ LiveCap \in Nat
    BY <1>1, CapAssumption DEF PageType
  <1>3. base \in Nat /\ (base # 0 => base = pages[n].dcur)
    BY <1>2 DEF Cursors
  <1>4. key \in Keys /\ PageOf(key) = n + 1 /\ Kind(key) = "create"
    BY <1>1 DEF Keys, Kinds, PageOf, Kind
  <1>5. card \in Cards
    BY <1>1, <1>2, CardShows
  <1>6. replies' = Enqueued(key, 1, card) /\ pages' = Append(pages, page)
    BY DEF reserveLateContinuation
  <1> HIDE DEF base, card, key
  <1>7. /\ page \in PageType /\ page.pend = key /\ page.base = base
        /\ page.pcur = Null /\ page.dcur = Null
    BY <1>2, <1>3, <1>4 DEF PageType, NewPage, Cursors
  <1> HIDE DEF page
  <1>8. /\ DOMAIN replies' = DOMAIN replies \cup {key}
        /\ replies' \in [DOMAIN replies' -> ReplyType]
        /\ \A k : Pending(k)' => k = key /\ replies'[k].card = card
    <2>1. 1 \in Nat
      OBVIOUS
    <2> QED BY <1>4, <1>5, <1>6, <2>1, ReservedRow
  <1>9. /\ pages' \in Seq(PageType) /\ Len(pages') = n + 1 /\ DOMAIN pages' = 1..(n + 1)
        /\ pages'[n + 1] = page /\ \A p \in 1..n : pages'[p] = pages[p]
    BY <1>1, <1>6, <1>7
  <1>10. flight.at = "idle"
    BY DEF IInv, FlightIsPending
  <1>11. Shape'
    <2>1. \A k \in DOMAIN replies' : PageOf(k) \in DOMAIN pages'
      BY <1>1, <1>4, <1>8, <1>9 DEF IInv, Shape
    <2> QED BY <1>1, <1>4, <1>8, <1>9, <2>1 DEF IInv, Shape
  <1>12. OldPagesRest'
    BY <1>1, <1>9 DEF IInv, OldPagesRest
  <1>13. PendingIsLinked' /\ FlightIsPending'
    BY <1>4, <1>7, <1>8, <1>9, <1>10 DEF PendingIsLinked, FlightIsPending
  <1>14. CreatesHaveNoCursor'
    BY <1>1, <1>7, <1>9 DEF IInv, CreatesHaveNoCursor
  <1>15. CursorsFit'
    <2> SUFFICES ASSUME NEW p \in 1..(n + 1)
                 PROVE  /\ pages'[p].pcur <= Len(items) /\ pages'[p].dcur <= Len(items)
                        /\ MayGrow(p)' => /\ pages'[p].pcur <= pages'[p].base + LiveCap
                                          /\ pages'[p].dcur <= pages'[p].base + LiveCap
      BY <1>9 DEF CursorsFit
    <2>1. CASE p = n + 1
      BY <1>1, <1>2, <1>3, <1>7, <1>9, <2>1 DEF Null
    <2>2. CASE p \in 1..n
      <3>1. MayGrow(p)' => MayGrow(p)
        BY <1>9, <2>2 DEF MayGrow
      <3> QED BY <1>1, <1>9, <2>2, <3>1 DEF IInv, CursorsFit
    <2> QED BY <1>1, <2>1, <2>2
  <1>16. PendingCardCovers'
    <2> SUFFICES ASSUME NEW k \in DOMAIN replies', Pending(k)', NEW i \in Nat,
                        i <= pages'[PageOf(k)].pcur \/ i <= pages'[PageOf(k)].dcur
                 PROVE  FALSE
      BY DEF PendingCardCovers
    <2>1. pages'[PageOf(k)].pcur = Null /\ pages'[PageOf(k)].dcur = Null
      BY <1>4, <1>7, <1>8, <1>9
    <2> QED BY <2>1 DEF Null
  <1>17. DeliveredIsShown'
    <2> SUFFICES ASSUME NEW p \in 1..(n + 1), NEW i \in Nat,
                        pages'[p].base < i, i <= pages'[p].dcur
                 PROVE  OnScreen(p, i)
      BY <1>9 DEF DeliveredIsShown, OnScreen
    <2>1. CASE p = n + 1
      BY <1>7, <1>9, <2>1 DEF Null
    <2>2. CASE p \in 1..n
      BY <1>1, <1>9, <2>2 DEF IInv, DeliveredIsShown
    <2> QED BY <1>1, <2>1, <2>2
  <1>18. ReadBefore'
    <2> SUFFICES ASSUME NEW p \in 1..(n + 1), NEW i \in 1..pages'[p].base
                 PROVE  \E q \in 1..(p - 1) : OnScreen(q, i)
      BY <1>9 DEF ReadBefore, OnScreen
    <2>1. CASE p \in 1..n
      BY <1>1, <1>9, <2>1 DEF IInv, ReadBefore
    <2>2. CASE p = n + 1
      <3>1. i \in 1..base
        BY <1>7, <1>9, <2>2
      <3>2. i \in Nat /\ base = pages[n].dcur /\ i <= pages[n].dcur
        BY <1>3, <3>1
      <3>3. CASE i <= pages[n].base
        <4>1. PICK q \in 1..(n - 1) : OnScreen(q, i)
          BY <1>1, <1>2, <3>1, <3>2, <3>3 DEF IInv, ReadBefore
        <4>2. q \in 1..(p - 1)
          BY <1>1, <2>2
        <4> QED BY <4>1, <4>2
      <3>4. CASE pages[n].base < i
        <4>1. OnScreen(n, i)
          BY <1>1, <3>2, <3>4 DEF IInv, DeliveredIsShown
        <4>2. n \in 1..(p - 1)
          BY <1>1, <2>2
        <4> QED BY <4>1, <4>2
      <3> QED BY <1>2, <3>2, <3>3, <3>4
    <2>3. p \in 1..n \/ p = n + 1
      BY <1>1
    <2> QED BY <2>1, <2>2, <2>3
  <1> QED BY <1>11, <1>12, <1>13, <1>14, <1>15, <1>16, <1>17, <1>18 DEF IInv

\* The greatest of the frozen pages: the last page or the one before it.
LEMMA LastPageOf ==
  ASSUME NEW n \in Nat, n >= 1, NEW S \in SUBSET (1..n),
         n \in S \/ S = 1..(n - 1)
  PROVE  \/ S = {} /\ LastPage(S) = 0
         \/ n \in S /\ LastPage(S) = n
         \/ n > 1 /\ S = 1..(n - 1) /\ LastPage(S) = n - 1
  <1>1. CASE S = {}
    BY <1>1 DEF LastPage
  <1>2. CASE n \in S
    <2>1. \A x \in S : (\A y \in S : x >= y) <=> x = n
      BY <1>2
    <2>2. Max(S) = n
      BY <1>2, <2>1 DEF Max
    <2> QED BY <1>2, <2>2 DEF LastPage
  <1>3. CASE S # {} /\ n \notin S
    <2>1. S = 1..(n - 1)
      BY <1>3
    <2>2. n > 1
      BY <1>3, <2>1
    <2>3. n - 1 \in S
      BY <2>1, <2>2
    <2>4. \A x \in S : (\A y \in S : x >= y) <=> x = n - 1
      BY <2>1, <2>3
    <2>5. Max(S) = n - 1
      BY <2>3, <2>4 DEF Max
    <2> QED BY <1>3, <2>1, <2>2, <2>5 DEF LastPage
  <1> QED BY <1>1, <1>2, <1>3

\* What loadActiveProjection finds: the last page, if it is what is asked for.
LEMMA PagesFound ==
  ASSUME IInv
  PROVE  LET n == Len(pages)
         IN  /\ IF pages[n].st \in {"creating", "active"} THEN ActivePage = n ELSE ActivePage = 0
             /\ pages[n].pend # NoReply => PendingPage = n
             /\ PendingPage = 0 \/ PendingPage = n
             /\ pages[n].st = "frozen" => FrozenPage = n
             /\ pages[n].st # "frozen" => FrozenPage = 0 \/ FrozenPage = n - 1
  <1>1. PICK n \in Nat : n = Len(pages)
    BY DEF IInv, Shape
  <1> DEFINE A == {p \in DOMAIN pages : pages[p].st \in {"creating", "active"}}
             P == {p \in DOMAIN pages : \/ pages[p].pend # NoReply
                                        \/ pages[p].st = "creating" /\ ~pages[p].msg}
             F == {p \in DOMAIN pages : pages[p].st = "frozen"}
  <1>2. DOMAIN pages = 1..n /\ n >= 1
    BY <1>1 DEF IInv, Shape
  <1>3. A \subseteq {n} /\ P \subseteq {n}
    BY <1>1, LastIsOpen
  <1>4. n \in F \/ F = 1..(n - 1)
    <2>1. ASSUME NEW p \in 1..n, p # n PROVE p \in F
      BY <1>1, <2>1, EarlierIsFrozen
    <2>2. F \subseteq 1..n
      BY <1>2
    <2> HIDE DEF F
    <2>3. ASSUME NEW p \in F, n \notin F PROVE p \in 1..(n - 1)
      BY <1>2, <2>2, <2>3
    <2>4. ASSUME NEW p \in 1..(n - 1) PROVE p \in F
      <3>1. p \in 1..n /\ p # n
        BY <1>2
      <3> QED BY <2>1, <3>1
    <2> QED BY <2>3, <2>4
  <1>5. A \in SUBSET (1..n) /\ P \in SUBSET (1..n) /\ F \in SUBSET (1..n)
    BY <1>2
  <1>6. /\ ActivePage = LastPage(A) /\ PendingPage = LastPage(P) /\ FrozenPage = LastPage(F)
        /\ n \in A <=> pages[n].st \in {"creating", "active"}
        /\ pages[n].pend # NoReply => n \in P
        /\ n \in F <=> pages[n].st = "frozen"
    BY <1>2 DEF ActivePage, PendingPage, FrozenPage
  <1> HIDE DEF A, P, F
  <1>7. ASSUME NEW S \in SUBSET (1..n), S \subseteq {n}
        PROVE  IF n \in S THEN LastPage(S) = n ELSE LastPage(S) = 0
    <2>1. CASE n \in S
      <3>1. S = {n}
        BY <1>7, <2>1
      <3>2. Max(S) = n
        BY <1>2, <3>1 DEF Max
      <3> QED BY <2>1, <3>2 DEF LastPage
    <2>2. CASE n \notin S
      BY <1>7, <2>2 DEF LastPage
    <2> QED BY <2>1, <2>2
  <1>8. IF n \in A THEN LastPage(A) = n ELSE LastPage(A) = 0
    BY <1>3, <1>5, <1>7
  <1>9. /\ n \in P => LastPage(P) = n
        /\ LastPage(P) = 0 \/ LastPage(P) = n
    BY <1>3, <1>5, <1>7
  <1>10. /\ n \in F => LastPage(F) = n
         /\ n \notin F => LastPage(F) = 0 \/ LastPage(F) = n - 1
    BY <1>2, <1>4, <1>5, LastPageOf
  <1>11. IF pages[n].st \in {"creating", "active"} THEN ActivePage = n ELSE ActivePage = 0
    BY <1>6, <1>8
  <1>12. /\ pages[n].pend # NoReply => PendingPage = n
         /\ PendingPage = 0 \/ PendingPage = n
    BY <1>6, <1>9
  <1>13. /\ pages[n].st = "frozen" => FrozenPage = n
         /\ pages[n].st # "frozen" => FrozenPage = 0 \/ FrozenPage = n - 1
    BY <1>6, <1>10
  <1> HIDE DEF ActivePage, PendingPage, FrozenPage
  <1> QED BY <1>1, <1>11, <1>12, <1>13

\* The cursor where the full card stops, and what the card then holds.
LEMMA FreezeCursorFits ==
  ASSUME IInv, NEW p \in DOMAIN pages
  PROVE  /\ FreezeCursor(p) \in Nat /\ FreezeCursor(p) <= Len(items)
         /\ FreezeCursor(p) <= pages[p].base + FullCap
  <1>1. Len(items) \in Nat /\ pages[p].base \in Nat /\ FullCap \in Nat
    <2>1. Len(items) \in Nat /\ pages[p] \in PageType
      BY DEF IInv, Shape
    <2> QED BY <2>1, CapAssumption DEF PageType
  <1>2. CASE Len(items) > pages[p].base + FullCap
    <2>1. FreezeCursor(p) = pages[p].base + FullCap
      BY <1>1, <1>2 DEF FreezeCursor, NextCursor, Null
    <2> QED BY <1>1, <1>2, <2>1
  <1>3. CASE ~(Len(items) > pages[p].base + FullCap)
    <2>1. FreezeCursor(p) = Len(items)
      BY <1>1, <1>3 DEF FreezeCursor, NextCursor, Null
    <2> QED BY <1>1, <1>3, <2>1
  <1> QED BY <1>2, <1>3

\* One pass of convergeOnce: nothing, a record of the broken link, or one reservation.
LEMMA ConvergeStep ==
  ASSUME IInv, convergeOnce, UNCHANGED <<items, seg, ver, screen, flight, proc>>
  PROVE  IInv'
  <1> DEFINE n == Len(pages)
             b == pages[n].base
  <1>1. /\ pages \in Seq(PageType) /\ DOMAIN pages = 1..n
        /\ n \in Nat /\ n >= 1 /\ n \in DOMAIN pages
        /\ pages[n] \in PageType /\ items \in Seq(Nat) /\ ver \in Nat /\ Len(items) \in Nat
    BY DEF IInv, Shape
  <1>2. /\ LiveCap \in Nat /\ FullCap \in Nat /\ LiveCap <= FullCap /\ b \in Nat
        /\ pages[n].seq \in Nat /\ pages[n].dseq \in Nat
    BY <1>1, CapAssumption DEF PageType
  <1>3. CASE UNCHANGED <<pages, replies>>
    <2>1. Len(items') >= Len(items) /\ items' \in Seq(Nat) /\ ver' \in Nat
      BY <1>1
    <2> QED BY <1>3, <2>1, ProjectionStep
  <1>4. CASE ~(UNCHANGED <<pages, replies>>)
    <2>1. PendingPage = 0 /\ Advance
      BY <1>4 DEF convergeOnce, Nothing, openCreateRecoveryGap
    <2>2. pages[n].pend = NoReply
      BY <1>1, <2>1, PagesFound
    <2>3. \A k : ~Pending(k)
      BY <2>2, PendingIsLast
    <2>4. CASE pages[n].st \in {"creating", "active"}
      <3>1. ActivePage = n /\ n # 0
        BY <1>1, <2>4, PagesFound
      <3>2. CASE NextCursor(b, LiveCap) # Null
        <4> DEFINE cursor == FreezeCursor(n)
                   rev == Max({pages[n].seq, pages[n].dseq}) + 1
                   key == <<n, "freeze", 0>>
                   incl == cursor < Len(items)
                   page == [pages[n] EXCEPT !.st = "frozen", !.seq = rev, !.pend = key,
                              !.pcur = cursor, !.cont = cursor, !.contIncl = incl]
        <4>1. /\ replies' = Enqueued(key, rev, Card(b, FullCap, TRUE))
              /\ pages' = [pages EXCEPT ![n] = page]
          <5>1. reserveFreeze(n)
            BY <2>1, <3>1, <3>2 DEF Advance
          <5> QED BY <1>1, <5>1 DEF reserveFreeze
        <4>2. rev \in Nat
          BY <1>2, MaxOfTwo
        <4>3. cursor \in Nat /\ cursor <= Len(items) /\ cursor <= b + FullCap
          BY <1>1, FreezeCursorFits
        <4>4. key \in Keys /\ PageOf(key) = n /\ Kind(key) # "create"
          BY <1>1 DEF Keys, Kinds, PageOf, Kind
        <4>5. incl \in BOOLEAN
          OBVIOUS
        <4> HIDE DEF cursor, rev, key, incl
        <4>6. /\ page \in PageType /\ page.pend = key /\ page.base = b /\ page.dcur = pages[n].dcur
              /\ page.pcur = cursor /\ page.st = "frozen"
          BY <1>1, <4>2, <4>3, <4>4, <4>5 DEF PageType, Cursors
        <4> HIDE DEF page
        <4> QED BY <1>2, <2>3, <2>4, <4>1, <4>2, <4>3, <4>4, <4>6, ReserveStep
      <3>3. CASE NextCursor(b, LiveCap) = Null /\ Terminal
        <4> DEFINE rev == pages[n].seq + 1
                   key == <<n, "finish", rev>>
                   page == [pages[n] EXCEPT !.st = "finished", !.seq = rev, !.pend = key,
                              !.pcur = Len(items)]
        <4>1. /\ replies' = Enqueued(key, rev, Card(b, FullCap, TRUE))
              /\ pages' = [pages EXCEPT ![n] = page]
          <5>1. reserveFinish(n)
            BY <2>1, <3>1, <3>3 DEF Advance
          <5> QED BY <1>1, <5>1 DEF reserveFinish
        <4>2. rev \in Nat
          BY <1>2
        <4>3. Len(items) <= b + LiveCap /\ Len(items) <= b + FullCap
          BY <1>1, <1>2, <3>3 DEF NextCursor, Null
        <4>4. key \in Keys /\ PageOf(key) = n /\ Kind(key) # "create"
          BY <1>1, <4>2 DEF Keys, Kinds, PageOf, Kind
        <4> HIDE DEF rev, key
        <4>5. /\ page \in PageType /\ page.pend = key /\ page.base = b /\ page.dcur = pages[n].dcur
              /\ page.pcur = Len(items)
          BY <1>1, <4>2, <4>4 DEF PageType, Cursors
        <4> HIDE DEF page
        <4>6. /\ page.pcur <= Len(items) /\ page.pcur <= page.base + FullCap
              /\ page.st # "frozen" => page.pcur <= page.base + LiveCap
          BY <1>1, <4>3, <4>5
        <4> QED BY <1>2, <2>3, <2>4, <4>1, <4>2, <4>4, <4>5, <4>6, ReserveStep
      <3>4. CASE NextCursor(b, LiveCap) = Null /\ ~Terminal
        <4> DEFINE seq == Max({pages[n].seq, ver})
                   key == <<n, "snapshot", ver>>
                   page == [pages[n] EXCEPT !.pend = key, !.pcur = Null, !.seq = seq,
                                            !.st = "active"]
        <4>1. /\ replies' = Enqueued(key, ver, Card(b, LiveCap, FALSE))
              /\ pages' = [pages EXCEPT ![n] = page]
          <5>1. reserveSnapshot(n)
            BY <1>4, <2>1, <3>1, <3>4 DEF Advance, Nothing
          <5> QED BY <1>1, <5>1 DEF reserveSnapshot
        <4>2. seq \in Nat
          BY <1>1, <1>2, MaxOfTwo
        <4>3. key \in Keys /\ PageOf(key) = n /\ Kind(key) # "create"
          BY <1>1 DEF Keys, Kinds, PageOf, Kind
        <4> HIDE DEF seq, key
        <4>4. /\ page \in PageType /\ page.pend = key /\ page.base = b /\ page.dcur = pages[n].dcur
              /\ page.pcur = Null
          BY <1>1, <4>2, <4>3 DEF PageType, Cursors
        <4> HIDE DEF page
        <4>5. /\ page.pcur <= Len(items) /\ page.pcur <= page.base + LiveCap
              /\ page.st # "frozen" => page.pcur <= page.base + LiveCap
          BY <1>1, <1>2, <4>4 DEF Null
        <4>6. LiveCap <= LiveCap
          BY <1>2
        <4> QED BY <1>1, <1>2, <2>3, <2>4, <4>1, <4>3, <4>4, <4>5, <4>6, ReserveStep
      <3> QED BY <3>2, <3>3, <3>4
    <2>5. CASE pages[n].st \notin {"creating", "active"}
      <3>1. ActivePage = 0 /\ FrozenPage # 0 /\ FrozenPage + 1 \notin DOMAIN pages
            /\ reserveLateContinuation(FrozenPage)
        BY <1>4, <2>1, <2>5, PagesFound DEF Advance, Nothing
      <3>2. pages[n].st = "frozen" /\ FrozenPage = n
        BY <1>1, <3>1, PagesFound
      <3> QED BY <2>2, <2>3, <3>1, <3>2, ContinueStep
    <2> QED BY <2>4, <2>5
  <1> QED BY <1>3, <1>4

-----------------------------------------------------------------------------
(* The delivery of a page reply.                                               *)

LEMMA ClaimStep == ASSUME IInv, NEW k \in DOMAIN replies, Claim(k) PROVE IInv'
  <1> DEFINE row == [replies[k] EXCEPT !.claimed = TRUE, !.first = TRUE]
  <1>1. replies[k] \in ReplyType /\ replies \in [DOMAIN replies -> ReplyType]
    BY DEF IInv, Shape
  <1>2. row \in ReplyType /\ row.card = replies[k].card /\ row.st = replies[k].st
    BY <1>1 DEF ReplyType
  <1>3. replies' = [replies EXCEPT ![k] = row]
    BY <1>1 DEF Claim
  <1> HIDE DEF row
  <1>4. Pending(k) /\ row.st = "pending"
    BY <1>2 DEF Claim, Claimable, Live, Pending
  <1>5. /\ flight'.at = "sent" /\ flight'.key = k
        /\ UNCHANGED <<items, seg, ver, pages, screen, proc>>
    BY DEF Claim
  <1> QED BY <1>2, <1>3, <1>4, <1>5, RowStep

LEMMA ExpiryStep == ASSUME IInv, NEW k \in DOMAIN replies, ClaimExpires(k) PROVE IInv'
  <1> DEFINE row == [replies[k] EXCEPT !.st = "dead_letter", !.claimed = FALSE, !.unsure = TRUE]
  <1>1. replies[k] \in ReplyType /\ replies \in [DOMAIN replies -> ReplyType]
    BY DEF IInv, Shape
  <1>2. row \in ReplyType /\ row.card = replies[k].card
    BY <1>1 DEF ReplyType
  <1>3. replies' = [replies EXCEPT ![k] = row]
    BY <1>1 DEF ClaimExpires
  <1> HIDE DEF row
  <1>4. Pending(k) /\ flight.key # k /\ flight' = flight
        /\ UNCHANGED <<items, seg, ver, pages, screen, proc>>
    BY DEF ClaimExpires, Pending
  <1> QED BY <1>2, <1>3, <1>4, RowStep

\* A page is unlinked: from its waiting reply, so that it is the last page.
LEMMA UnlinkStep ==
  ASSUME IInv, NEW k \in DOMAIN replies, Pending(k), NEW row \in ReplyType, row.st # "pending",
         replies' = [replies EXCEPT ![k] = row],
         NEW state \in {"creating", "active", "frozen", "finished"},
         pages' = Unlinked(PageOf(k), k, state),
         \/ state = "finished" /\ (seg = "closed" \/ Kind(k) = "create")
         \/ state = pages[PageOf(k)].st
         \/ pages[PageOf(k)].st # "frozen",
         flight'.at = "idle", UNCHANGED <<items, seg, ver, screen, proc>>
  PROVE  IInv'
  <1>1. PICK n : n = PageOf(k)
    OBVIOUS
  <1> DEFINE page == [pages[n] EXCEPT !.pend = NoReply, !.pcur = Null, !.st = state]
  <1>2. n \in DOMAIN pages /\ pages[n].pend = k /\ k # NoReply
    BY <1>1, PendingIsLast
  <1>3. pages \in Seq(PageType) /\ pages[n] \in PageType
    BY <1>2 DEF IInv, Shape
  <1>4. pages' = [pages EXCEPT ![n] = page]
    BY <1>1, <1>2, <1>3 DEF Unlinked
  <1>5. NoReply \in Keys
    BY DEF NoReply, Keys, Kinds
  <1>6. /\ page \in PageType /\ page.pend = NoReply /\ page.pcur = Null /\ page.base = pages[n].base
        /\ page.dcur = pages[n].dcur /\ page.st = state
    BY <1>3, <1>5 DEF PageType, Cursors
  <1> HIDE DEF page
  <1>7. pages'[n] = page
    BY <1>2, <1>3, <1>4
  <1>8. MayGrow(n)' => MayGrow(n) \/ page.dcur = Null
    <2>1. CASE state = "finished" /\ seg = "closed"
      BY <1>6, <1>7, <2>1 DEF MayGrow
    <2>2. CASE Kind(k) = "create"
      BY <1>2, <1>6, <2>2 DEF IInv, CreatesHaveNoCursor
    <2>3. CASE state = pages[n].st
      BY <1>2, <1>6, <1>7, <2>3 DEF MayGrow
    <2>4. CASE pages[n].st # "frozen"
      <3>1. MayGrow(n)
        BY <1>2, <1>3, <2>4 DEF MayGrow, PageType
      <3> QED BY <3>1
    <2> QED BY <1>1, <2>1, <2>2, <2>3, <2>4
  <1> QED BY <1>1, <1>4, <1>6, <1>8, SettleStep

LEMMA RetireStep == ASSUME IInv, NEW k \in DOMAIN replies, Retire(k) PROVE IInv'
  <1> DEFINE row == [replies[k] EXCEPT !.st = "dismissed"]
             p == PageOf(k)
             state == IF seg = "closed" \/ HistoricalCreate(k) THEN "finished"
                      ELSE IF pages[p].st = "frozen" THEN "frozen"
                      ELSE IF ~pages[p].msg THEN "creating"
                      ELSE "active"
  <1>1. replies[k] \in ReplyType /\ replies \in [DOMAIN replies -> ReplyType]
    BY DEF IInv, Shape
  <1>2. row \in ReplyType /\ row.st # "pending"
    BY <1>1 DEF ReplyType
  <1>3. replies' = [replies EXCEPT ![k] = row]
    BY <1>1 DEF Retire
  <1> HIDE DEF row
  <1>4. Pending(k) /\ flight' = Idle /\ UNCHANGED <<items, seg, ver, screen, proc>>
        /\ pages' = Unlinked(p, k, state)
    BY DEF Retire, Live, Pending
  <1>5. HistoricalCreate(k) => Kind(k) = "create"
    BY DEF HistoricalCreate, Kind
  <1>6. /\ state \in {"creating", "active", "frozen", "finished"}
        /\ \/ state = "finished" /\ (seg = "closed" \/ Kind(k) = "create")
           \/ state = pages[p].st
           \/ pages[p].st # "frozen"
    BY <1>5
  <1> HIDE DEF state
  <1>7. flight'.at = "idle"
    BY <1>4 DEF Idle
  <1> QED BY <1>2, <1>3, <1>4, <1>6, <1>7, UnlinkStep

LEMMA AcknowledgeStep == ASSUME IInv, Acknowledge PROVE IInv'
  <1>1. PICK k, n : k = flight.key /\ n = PageOf(k)
    OBVIOUS
  <1> DEFINE st == IF pages[n].st = "creating" \/ (pages[n].st = "finished"
                                                  /\ replies[k].rev < pages[n].seq)
                   THEN "active" ELSE pages[n].st
             dseq == Max({pages[n].dseq, replies[k].rev})
             page == [pages[n] EXCEPT !.msg = TRUE, !.dseq = dseq, !.dcur = pages[n].pcur,
                                      !.pcur = Null, !.pend = NoReply, !.st = st]
             row == [replies[k] EXCEPT !.st = "delivered", !.claimed = FALSE]
  <1>2. /\ Pending(k) /\ k \in DOMAIN replies
        /\ PageOf(k) \in DOMAIN screen /\ screen[PageOf(k)] = replies[k].card
    BY <1>1 DEF Acknowledge, IInv, FlightIsPending, Pending
  <1>3. n \in DOMAIN pages /\ pages[n].pend = k /\ k # NoReply
    BY <1>1, <1>2, PendingIsLast
  <1>4. /\ pages \in Seq(PageType) /\ pages[n] \in PageType
        /\ replies \in [DOMAIN replies -> ReplyType] /\ replies[k] \in ReplyType
    BY <1>2, <1>3 DEF IInv, Shape
  <1>5. row \in ReplyType /\ row.st # "pending"
    BY <1>1, <1>4 DEF ReplyType
  <1>6. replies' = [replies EXCEPT ![k] = row]
    BY <1>1, <1>2, <1>4 DEF Acknowledge
  <1>7. pages' = [pages EXCEPT ![n] = page]
    <2>1. pages' = Settled(k)
      BY <1>1 DEF Acknowledge
    <2>2. Settled(k) = [pages EXCEPT ![n] = page]
      BY <1>1, <1>3 DEF Settled
    <2> QED BY <2>1, <2>2
  <1>8. dseq \in Nat
    BY <1>1, <1>4, MaxOfTwo DEF PageType, ReplyType
  <1>9. /\ st \in {"creating", "active", "frozen", "finished"}
        /\ st # "frozen" => pages[n].st # "frozen"
    BY <1>4 DEF PageType
  <1>10. NoReply \in Keys
    BY DEF NoReply, Keys, Kinds
  <1> HIDE DEF st, dseq, row
  <1>11. /\ page \in PageType /\ page.pend = NoReply /\ page.pcur = Null /\ page.base = pages[n].base
         /\ page.dcur = pages[n].pcur /\ page.st = st
    BY <1>4, <1>8, <1>9, <1>10 DEF PageType, Cursors
  <1> HIDE DEF page
  <1>12. MayGrow(n)' => MayGrow(n)
    <2>1. pages'[n] = page
      BY <1>3, <1>4, <1>7
    <2> QED BY <1>3, <1>4, <1>9, <1>11, <2>1 DEF MayGrow, PageType
  <1>13. flight'.at = "idle" /\ UNCHANGED <<items, seg, ver, screen, proc>>
    BY DEF Acknowledge, Idle
  <1> QED BY <1>1, <1>2, <1>3, <1>5, <1>6, <1>7, <1>11, <1>12, <1>13, SettleStep

LEMMA FailStep == ASSUME IInv, Fail PROVE IInv'
  <1>1. PICK k : k = flight.key
    OBVIOUS
  <1> DEFINE tries == replies[k].tries + 1
             exhausted == tries >= Attempts
             unsure == flight.at = "uncertain"
             row == [replies[k] EXCEPT !.st = IF exhausted THEN "dismissed" ELSE "pending",
                                       !.claimed = FALSE, !.tries = tries, !.unsure = unsure]
             p == PageOf(k)
  <1>2. Pending(k) /\ k \in DOMAIN replies
    BY <1>1 DEF Fail, IInv, FlightIsPending, Pending
  <1>3. replies \in [DOMAIN replies -> ReplyType] /\ replies[k] \in ReplyType
    BY <1>2 DEF IInv, Shape
  <1>4. tries \in Nat /\ exhausted \in BOOLEAN /\ unsure \in BOOLEAN
    BY <1>3 DEF ReplyType
  <1>5. /\ replies' = [replies EXCEPT ![k] = row]
        /\ pages' = IF exhausted THEN Unlinked(p, k, ExhaustedState(p)) ELSE pages
        /\ flight' = Idle /\ UNCHANGED <<items, seg, ver, screen, proc>>
    BY <1>1 DEF Fail
  <1>6. flight'.at = "idle"
    BY <1>5 DEF Idle
  <1> HIDE DEF tries, exhausted, unsure
  <1>7. /\ row \in ReplyType /\ row.card = replies[k].card
        /\ row.st = IF exhausted THEN "dismissed" ELSE "pending"
    BY <1>3, <1>4 DEF ReplyType
  <1> HIDE DEF row
  <1>8. CASE exhausted
    <2> DEFINE state == ExhaustedState(p)
    <2>1. pages' = Unlinked(p, k, state) /\ row.st # "pending"
      BY <1>5, <1>7, <1>8
    <2>2. pages[p] \in PageType
      BY <1>2 DEF IInv, Shape
    <2>3. /\ state \in {"creating", "active", "frozen", "finished"}
          /\ \/ state = "finished" /\ (seg = "closed" \/ Kind(k) = "create")
             \/ state = pages[p].st
             \/ pages[p].st # "frozen"
      BY <2>2 DEF ExhaustedState, PageType
    <2> HIDE DEF state
    <2> QED BY <1>2, <1>5, <1>6, <1>7, <2>1, <2>3, UnlinkStep
  <1>9. CASE ~exhausted
    BY <1>2, <1>5, <1>6, <1>7, <1>9, RowStep
  <1> QED BY <1>8, <1>9

-----------------------------------------------------------------------------
\* Every step of the projection, the convergence, the delivery and the process keeps the
\* invariant.
LEMMA StepKeepsInvariant == IInv /\ [Next]_vars => IInv'
  <1> SUFFICES ASSUME IInv, [Next]_vars PROVE IInv'
    OBVIOUS
  <1>1. items \in Seq(Nat) /\ Len(items) \in Nat /\ ver \in Nat /\ ver + 1 \in Nat /\ proc \in Nat
    BY DEF IInv, Shape
  <1>2. Append(items, 0) \in Seq(Nat) /\ Len(Append(items, 0)) >= Len(items)
    BY <1>1
  <1>3. ASSUME ItemArrives PROVE IInv'
    BY <1>1, <1>2, <1>3, ProjectionStep DEF ItemArrives
  <1>4. ASSUME TurnCompletes PROVE IInv'
    <2>1. items' \in Seq(Nat) /\ Len(items') >= Len(items)
      BY <1>1, <1>2, <1>4 DEF TurnCompletes
    <2> QED BY <1>1, <1>4, <2>1, ProjectionStep DEF TurnCompletes
  <1>5. ASSUME SegmentCloses PROVE IInv'
    <2>1. items' \in Seq(Nat) /\ Len(items') >= Len(items)
      BY <1>1, <1>5 DEF SegmentCloses
    <2> QED BY <1>1, <1>5, <2>1, ProjectionStep DEF SegmentCloses
  <1>6. ASSUME ActivityInvalidates PROVE IInv'
    BY <1>6, ReopenStep
  <1>7. ASSUME NEW i \in DOMAIN items, ItemChanges(i) PROVE IInv'
    <2>1. items' = [items EXCEPT ![i] = @ + 1]
      BY <1>7 DEF ItemChanges
    <2>2. items[i] + 1 \in Nat
      BY <1>1
    <2>3. items' \in Seq(Nat) /\ Len(items') = Len(items)
      BY <1>1, <2>1, <2>2
    <2>4. Len(items') >= Len(items)
      BY <1>1, <2>3
    <2> QED BY <1>1, <1>7, <2>3, <2>4, ProjectionStep DEF ItemChanges
  <1>8. ASSUME Flush \/ Scan PROVE IInv'
    BY <1>8, ConvergeStep DEF Flush, Scan
  <1>9. ASSUME NEW k \in DOMAIN replies, Claim(k) \/ Retire(k) \/ ClaimExpires(k) PROVE IInv'
    BY <1>9, ClaimStep, RetireStep, ExpiryStep
  <1>10. ASSUME GatewayAccepts PROVE IInv'
    <2>1. flight'.key = flight.key /\ flight'.at = "ok"
      BY <1>10 DEF GatewayAccepts, IInv, Shape
    <2> QED BY <1>1, <1>10, <2>1, ScreenStep DEF GatewayAccepts
  <1>11. ASSUME Acknowledge \/ Fail PROVE IInv'
    BY <1>11, AcknowledgeStep, FailStep
  <1>12. ASSUME NEW how \in {"rejected", "uncertain"}, GatewayFails(how) PROVE IInv'
    <2>1. flight'.key = flight.key /\ flight'.at = how
      BY <1>12 DEF GatewayFails, IInv, Shape
    <2>2. screen' = screen \/ screen' = Shown(flight.key)
      BY <1>12 DEF GatewayFails
    <2> QED BY <1>1, <1>12, <2>1, <2>2, ScreenStep DEF GatewayFails
  <1>13. ASSUME Crash PROVE IInv'
    <2>1. flight'.at = "idle" /\ UNCHANGED durable /\ proc' \in Nat
      BY <1>1, <1>13 DEF Crash, Idle
    <2>2. CASE flight.at = "sent"
      <3>1. screen' = screen \/ screen' = Shown(flight.key)
        BY <1>13, <2>2 DEF Crash
      <3> QED BY <2>1, <2>2, <3>1, ScreenStep
    <2>3. CASE flight.at # "sent"
      <3>1. screen' = screen
        BY <1>13, <2>3 DEF Crash
      <3>2. Shape' /\ FlightIsPending'
        BY <2>1, <3>1 DEF IInv, Shape, FlightIsPending, durable
      <3>3. OldPagesRest' /\ PendingIsLinked' /\ CreatesHaveNoCursor' /\ CursorsFit'
        BY <2>1
           DEF IInv, OldPagesRest, PendingIsLinked, CreatesHaveNoCursor, CursorsFit, MayGrow,
           Pending,
               durable
      <3>4. PendingCardCovers' /\ DeliveredIsShown' /\ ReadBefore'
        BY <2>1, <3>1
           DEF IInv, PendingCardCovers, DeliveredIsShown, ReadBefore, OnScreen, Pending, durable
      <3> QED BY <3>2, <3>3, <3>4 DEF IInv
    <2> QED BY <2>2, <2>3
  <1>14. CASE UNCHANGED vars
    <2>1. UNCHANGED <<pages, replies, screen, flight, proc, items, ver, seg>>
      BY <1>14 DEF vars, durable
    <2>2. items' \in Seq(Nat) /\ Len(items') >= Len(items) /\ ver' \in Nat
      BY <1>1, <2>1
    <2> QED BY <2>1, <2>2, ProjectionStep
  <1> QED BY <1>3, <1>4, <1>5, <1>6, <1>7, <1>8, <1>9, <1>10, <1>11, <1>12, <1>13, <1>14
          DEF Next, Project, Converge, Deliver

\* The Human message makes the first page, its create and nothing else.
LEMMA InitHolds == Init => IInv
  <1> SUFFICES ASSUME Init PROVE IInv
    OBVIOUS
  <1> DEFINE key == <<1, "create", 0>>
             page == NewPage(0, 0, TRUE, key)
             row == [st |-> "pending", rev |-> 1, tries |-> 0, claimed |-> FALSE, first |-> FALSE,
                     unsure |-> FALSE, born |-> 1,
                     card |-> [ver |-> 1, done |-> FALSE, shows |-> {<<1, 0>>}]]
  <1>1. key \in Keys /\ PageOf(key) = 1
    BY DEF Keys, Kinds, PageOf
  <1>2. /\ page \in PageType /\ page.pend = key /\ page.base = 0 /\ page.pcur = Null
        /\ page.dcur = Null
    BY <1>1 DEF PageType, NewPage, Cursors, Null
  <1>3. row \in ReplyType
    BY DEF ReplyType, Cards
  <1>4. /\ pages = <<page>> /\ DOMAIN replies = {key} /\ replies[key] = row
        /\ replies \in [DOMAIN replies -> ReplyType]
    BY <1>3 DEF Init
  <1>5. items = <<0>> /\ ver = 1 /\ proc = 1 /\ screen = <<>> /\ flight.at = "idle"
    BY DEF Init, Idle
  <1> HIDE DEF key, page, row
  <1>6. pages \in Seq(PageType) /\ Len(pages) = 1 /\ DOMAIN pages = {1} /\ pages[1] = page
    BY <1>2, <1>4
  <1>7. items \in Seq(Nat) /\ Len(items) = 1
    BY <1>5
  <1>8. screen \in [DOMAIN screen -> Cards]
    BY <1>5
  <1>9. Shape
    BY <1>1, <1>4, <1>5, <1>6, <1>7, <1>8 DEF Shape
  <1>10. OldPagesRest /\ PendingIsLinked /\ FlightIsPending /\ CreatesHaveNoCursor
    BY <1>1, <1>2, <1>4, <1>5, <1>6
       DEF OldPagesRest, PendingIsLinked, FlightIsPending, CreatesHaveNoCursor
  <1>11. CursorsFit /\ PendingCardCovers /\ DeliveredIsShown /\ ReadBefore
    BY <1>1, <1>2, <1>4, <1>6, <1>7, CapAssumption
       DEF CursorsFit, PendingCardCovers, DeliveredIsShown, ReadBefore, Null
  <1> QED BY <1>9, <1>10, <1>11 DEF IInv

\* The inductive invariant: only the last page changes, and what it waits for covers what the
\* reader was promised.
THEOREM InvariantHolds == Spec => []IInv
  BY InitHolds, StepKeepsInvariant, PTL DEF Spec

\* convergeOnce never reserves past an unsettled reply: at most one effect of the segment is
\* under way, and it is the one its page waits for, whatever fails, expires, crashes or reopens
\* the page.
THEOREM OneEffectAtATime == Spec => []OneEffect
  <1>1. IInv => OneEffect
    <2> SUFFICES ASSUME IInv PROVE OneEffect
      OBVIOUS
    <2> DEFINE live == {k \in DOMAIN replies : replies[k].st = "pending"}
    <2>1. \A k \in live : Pending(k)
      BY DEF Pending
    <2>2. \A k \in live : pages[PageOf(k)].pend = k
      BY <2>1 DEF IInv, PendingIsLinked
    <2>3. \A j, k \in live : j = k
      BY <2>1, PendingIsLast
    <2>4. Cardinality(live) <= 1
      <3>1. CASE live = {}
        BY <3>1, FS_EmptySet
      <3>2. CASE live # {}
        <4>1. PICK k : live = {k}
          BY <2>3, <3>2
        <4> QED BY <4>1, FS_Singleton
      <3> QED BY <3>1, <3>2
    <2> QED BY <2>2, <2>4 DEF OneEffect
  <1> QED BY <1>1, InvariantHolds, PTL

\* No continuation skips an item: everything before the cursor where a page starts is on a card
\* of an earlier page (reserveFreeze, settleConversationPageDelivery, reserveLateContinuation).
THEOREM NothingIsSkipped == Spec => []NoHole
  <1>1. IInv => NoHole
    BY DEF IInv, ReadBefore, NoHole, OnScreen, OnCard
  <1> QED BY <1>1, InvariantHolds, PTL
-----------------------------------------------------------------------------
(* What numbers and versions are bounded by, and that the screen only moves on. *)

\* The execution in progress holds its claim.
ClaimIsHeld == flight # Idle => flight.at # "idle" /\ replies[flight.key].claimed

\* A page starts within the timeline, waits for a row that exists, and confirms no sequence that
\* it has not reserved.
PageIsBounded(p) ==
  /\ pages[p].base <= Len(items) /\ pages[p].dseq <= pages[p].seq
  /\ pages[p].pend # NoReply => pages[p].pend \in DOMAIN replies

\* A row carries a version the segment had and a sequence its page has reserved; one that waits
\* has an attempt left, and its card is not older than what the page shows.
RowIsBounded(k) ==
  /\ replies[k].card \in CardType /\ replies[k].card.ver <= ver
  /\ replies[k].rev <= pages[PageOf(k)].seq /\ replies[k].tries <= Attempts
  /\ Pending(k) => /\ replies[k].tries < Attempts
                   /\ PageOf(k) \in DOMAIN screen =>
                        screen[PageOf(k)].ver <= replies[k].card.ver

Bounded ==
  /\ Len(items) <= MaxItems /\ seg \in {"working", "completed", "closed"} /\ wanted \in BOOLEAN
  /\ ClaimIsHeld
  /\ \A p \in DOMAIN pages : PageIsBounded(p)
  /\ \A k \in DOMAIN replies : RowIsBounded(k)
  /\ \A p \in DOMAIN screen : screen[p].ver <= ver

\* No card on the screen is taken back to an earlier version of the segment.
ScreenMovesOn ==
  \A p \in DOMAIN screen : p \in DOMAIN screen' /\ screen[p].ver <= screen'[p].ver
NeverBack == [][ScreenMovesOn]_screen

-----------------------------------------------------------------------------
(* Steps that leave the screen alone.                                          *)

\* What such a step has to keep: pages reserve on, and each row is as it was or within bounds.
LEMMA BoundedStep ==
  ASSUME IInv, Bounded, UNCHANGED screen, Len(items') <= MaxItems,
         ver' \in Nat, ver <= ver', seg' \in {"working", "completed", "closed"}, wanted' \in BOOLEAN,
         ClaimIsHeld',
         \A p \in DOMAIN pages : pages'[p].seq \in Nat /\ pages[p].seq <= pages'[p].seq,
         \A p \in DOMAIN pages' : PageIsBounded(p)',
         \A k \in DOMAIN replies' :
           RowIsBounded(k)' \/ (k \in DOMAIN replies /\ replies'[k] = replies[k])
  PROVE  Bounded' /\ ScreenMovesOn
  <1>1. ver \in Nat /\ screen \in [DOMAIN screen -> Cards]
    BY DEF IInv, Shape
  <1>2. \A p \in DOMAIN screen : screen[p].ver \in Nat /\ screen[p].ver <= ver
    BY <1>1 DEF Cards, Bounded
  <1>3. ASSUME NEW k \in DOMAIN replies, replies'[k] = replies[k], k \in DOMAIN replies'
        PROVE  RowIsBounded(k)'
    <2>1. /\ replies[k] \in ReplyType /\ PageOf(k) \in DOMAIN pages
          /\ pages[PageOf(k)] \in PageType
      BY DEF IInv, Shape
    <2>2. /\ replies[k].card.ver \in Nat /\ replies[k].rev \in Nat /\ replies[k].tries \in Nat
          /\ pages[PageOf(k)].seq \in Nat
      BY <2>1 DEF ReplyType, Cards, PageType
    <2>3. pages'[PageOf(k)].seq \in Nat /\ pages[PageOf(k)].seq <= pages'[PageOf(k)].seq
      BY <2>1
    <2>4. RowIsBounded(k)
      BY DEF Bounded
    <2>5. Pending(k)' <=> Pending(k)
      BY <1>3 DEF Pending
    <2>6. replies'[k].card.ver <= ver' /\ replies'[k].rev <= pages'[PageOf(k)].seq
      BY <1>1, <1>3, <2>2, <2>3, <2>4 DEF RowIsBounded
    <2> QED BY <1>3, <2>4, <2>5, <2>6 DEF RowIsBounded
  <1>4. \A k \in DOMAIN replies' : RowIsBounded(k)'
    BY <1>3
  <1>5. \A p \in DOMAIN screen' : screen'[p].ver <= ver'
    BY <1>1, <1>2
  <1>6. ScreenMovesOn
    BY <1>2 DEF ScreenMovesOn
  <1> QED BY <1>4, <1>5, <1>6 DEF Bounded

\* One page and one row of it change.
LEMMA PageStep ==
  ASSUME IInv, Bounded, UNCHANGED <<items, seg, screen>>,
         ver' \in Nat, ver <= ver', wanted' \in BOOLEAN, ClaimIsHeld',
         NEW n \in DOMAIN pages, NEW page \in PageType, pages' = [pages EXCEPT ![n] = page],
         page.base = pages[n].base, page.dseq <= page.seq, pages[n].seq <= page.seq,
         page.pend # NoReply => page.pend \in DOMAIN replies',
         DOMAIN replies \subseteq DOMAIN replies',
         \A k \in DOMAIN replies' :
           RowIsBounded(k)' \/ (k \in DOMAIN replies /\ replies'[k] = replies[k])
  PROVE  Bounded' /\ ScreenMovesOn
  <1>1. /\ pages \in Seq(PageType) /\ DOMAIN pages' = DOMAIN pages /\ pages'[n] = page
        /\ \A p \in DOMAIN pages : p # n => pages'[p] = pages[p]
    BY DEF IInv, Shape
  <1>2. \A p \in DOMAIN pages : pages[p] \in PageType /\ PageIsBounded(p)
    BY <1>1 DEF Bounded
  <1>3. ASSUME NEW p \in DOMAIN pages
        PROVE  pages'[p].seq \in Nat /\ pages[p].seq <= pages'[p].seq
    <2>1. pages[p].seq \in Nat /\ page.seq \in Nat
      BY <1>2 DEF PageType
    <2> QED BY <1>1, <2>1
  <1>4. ASSUME NEW p \in DOMAIN pages
        PROVE  PageIsBounded(p)'
    BY <1>1, <1>2 DEF PageIsBounded
  <1>5. seg' \in {"working", "completed", "closed"} /\ Len(items') <= MaxItems
    BY DEF Bounded
  <1> QED BY <1>1, <1>3, <1>4, <1>5, BoundedStep

\* The timeline grows or changes in place: pages, replies, screen and execution rest.
LEMMA GrowStep ==
  ASSUME IInv, Bounded, UNCHANGED <<pages, replies, screen, flight>>,
         Len(items') \in Nat, Len(items) <= Len(items'), Len(items') <= MaxItems,
         ver' \in Nat, ver <= ver', seg' \in {"working", "completed", "closed"}, wanted' \in BOOLEAN
  PROVE  Bounded' /\ ScreenMovesOn
  <1>1. Len(items) \in Nat /\ \A p \in DOMAIN pages : pages[p] \in PageType
    BY DEF IInv, Shape
  <1>2. \A p \in DOMAIN pages : pages[p].seq \in Nat /\ pages[p].base \in Nat
    BY <1>1 DEF PageType
  <1>3. ASSUME NEW p \in DOMAIN pages
        PROVE  PageIsBounded(p)'
    BY <1>1, <1>2 DEF Bounded, PageIsBounded
  <1>4. ClaimIsHeld'
    BY DEF Bounded, ClaimIsHeld
  <1>5. \A p \in DOMAIN pages : pages'[p].seq \in Nat /\ pages[p].seq <= pages'[p].seq
    BY <1>2
  <1> QED BY <1>3, <1>4, <1>5, BoundedStep

-----------------------------------------------------------------------------
(* Reservations.                                                               *)

\* A card never holds more than the timeline.
LEMMA CardFits ==
  ASSUME IInv, Bounded, NEW base \in Cursors, NEW cap \in Nat, NEW done \in BOOLEAN
  PROVE  Card(base, cap, done) \in CardType /\ Card(base, cap, done).ver = ver
  <1>1. items \in Seq(Nat) /\ ver \in Nat /\ Len(items) <= MaxItems /\ MaxItems \in Nat
    BY CapAssumption DEF IInv, Shape, Bounded
  <1>2. \A i \in DOMAIN items : i \in 1..MaxItems /\ items[i] \in Nat
    BY <1>1
  <1>3. Rendered(base, cap) \in SUBSET ((1..MaxItems) \X Nat)
    BY <1>2 DEF Rendered
  <1> QED BY <1>1, <1>3 DEF Card, CardType

\* A new row carries the version of the segment, and nothing on the screen is newer.
LEMMA RowFits ==
  ASSUME IInv, Bounded, UNCHANGED <<ver, screen>>,
         NEW key \in Keys, NEW rev \in Nat, NEW card \in CardType, card.ver = ver,
         replies' = Enqueued(key, rev, card), rev <= pages'[PageOf(key)].seq
  PROVE  /\ DOMAIN replies \subseteq DOMAIN replies' /\ key \in DOMAIN replies'
         /\ \A k \in DOMAIN replies' :
              RowIsBounded(k)' \/ (k \in DOMAIN replies /\ replies'[k] = replies[k])
  <1>1. CASE key \in DOMAIN replies
    BY <1>1 DEF Enqueued
  <1>2. CASE key \notin DOMAIN replies
    <2>1. replies' = [k \in DOMAIN replies \cup {key} |->
                        IF k = key THEN NewReply(rev, card) ELSE replies[k]]
      BY <1>2 DEF Enqueued
    <2>2. replies'[key].card = card /\ replies'[key].rev = rev /\ replies'[key].tries = 0
      BY <2>1 DEF NewReply
    <2>3. ver \in Nat /\ Attempts \in Nat \ {0}
      BY CapAssumption DEF IInv, Shape
    <2>4. RowIsBounded(key)'
      BY <2>2, <2>3 DEF RowIsBounded, Bounded
    <2> QED BY <2>1, <2>4
  <1> QED BY <1>1, <1>2

\* The last page reserves a card of its own.
LEMMA ReservedFits ==
  ASSUME IInv, Bounded, \A k : ~Pending(k), NEW key \in Keys, PageOf(key) = Len(pages),
         NEW rev \in Nat, NEW cap \in Nat, NEW done \in BOOLEAN,
         replies' = Enqueued(key, rev, Card(pages[Len(pages)].base, cap, done)),
         NEW page \in PageType, pages' = [pages EXCEPT ![Len(pages)] = page],
         page.pend = key, page.base = pages[Len(pages)].base, page.dseq = pages[Len(pages)].dseq,
         pages[Len(pages)].seq <= page.seq, rev <= page.seq,
         UNCHANGED <<items, seg, ver, screen, flight>>, wanted' \in BOOLEAN
  PROVE  Bounded' /\ ScreenMovesOn
  <1> DEFINE card == Card(pages[Len(pages)].base, cap, done)
  <1>1. PICK n \in Nat : n = Len(pages) /\ n \in DOMAIN pages
    BY DEF IInv, Shape
  <1>2. pages[n] \in PageType /\ ver \in Nat
    BY <1>1 DEF IInv, Shape
  <1>3. pages[n].base \in Cursors
    BY <1>2 DEF PageType, Cursors
  <1>4. card \in CardType /\ card.ver = ver
    BY <1>1, <1>3, CardFits
  <1> HIDE DEF card
  <1>5. replies' = Enqueued(key, rev, card)
    BY DEF card
  <1>6. pages'[PageOf(key)] = page
    BY <1>1
  <1>7. rev <= pages'[PageOf(key)].seq
    BY <1>6
  <1>8. /\ DOMAIN replies \subseteq DOMAIN replies' /\ key \in DOMAIN replies'
        /\ \A k \in DOMAIN replies' :
             RowIsBounded(k)' \/ (k \in DOMAIN replies /\ replies'[k] = replies[k])
    BY <1>4, <1>5, <1>7, RowFits
  <1>9. page.dseq <= page.seq
    <2>1. pages[n].dseq <= pages[n].seq
      BY <1>1 DEF Bounded, PageIsBounded
    <2>2. pages[n].dseq \in Nat /\ pages[n].seq \in Nat /\ page.seq \in Nat
      BY <1>2 DEF PageType
    <2> QED BY <1>1, <2>1, <2>2
  <1>10. ClaimIsHeld'
    <2>1. flight = Idle
      BY DEF IInv, FlightIsPending, Bounded, ClaimIsHeld
    <2> QED BY <2>1 DEF ClaimIsHeld
  <1>11. ver' \in Nat /\ ver <= ver'
    BY <1>2
  <1> QED BY <1>1, <1>8, <1>9, <1>10, <1>11, PageStep

\* The continuation of a frozen page starts within the timeline, with nothing delivered.
LEMMA ContinuationFits ==
  ASSUME IInv, Bounded, \A k : ~Pending(k), reserveLateContinuation(Len(pages)),
         UNCHANGED <<items, seg, ver, screen, flight>>, wanted' \in BOOLEAN
  PROVE  Bounded' /\ ScreenMovesOn
  <1> DEFINE n == Len(pages)
             key == <<n + 1, "create", 0>>
             base == IF pages[n].dcur = Null THEN 0 ELSE pages[n].dcur
             card == Card(pages[n].cont, LiveCap, FALSE)
             page == NewPage(base, pages[n].cont, pages[n].cont < Len(items), key)
  <1>1. /\ pages \in Seq(PageType) /\ DOMAIN pages = 1..n /\ n \in Nat /\ n \in DOMAIN pages
        /\ \A p \in DOMAIN pages : pages[p] \in PageType
        /\ Len(items) \in Nat /\ ver \in Nat
    BY DEF IInv, Shape
  <1>2. pages[n].cont \in Cursors /\ LiveCap \in Nat /\ pages[n].dcur \in Cursors
    BY <1>1, CapAssumption DEF PageType
  <1>3. card \in CardType /\ card.ver = ver
    BY <1>2, CardFits
  <1>4. key \in Keys /\ PageOf(key) = n + 1
    BY <1>1 DEF Keys, Kinds, PageOf
  <1>5. base \in Nat /\ base <= Len(items)
    <2>1. pages[n].dcur <= Len(items)
      BY <1>1 DEF IInv, CursorsFit
    <2> QED BY <1>1, <1>2, <2>1 DEF Cursors
  <1>6. replies' = Enqueued(key, 1, card) /\ pages' = Append(pages, page)
    BY DEF reserveLateContinuation
  <1> HIDE DEF base, card, key
  <1>7. page \in PageType /\ page.pend = key /\ page.base = base /\ page.dseq = 0 /\ page.seq = 1
    BY <1>2, <1>4, <1>5 DEF PageType, NewPage, Cursors
  <1> HIDE DEF page
  <1>8. /\ DOMAIN pages' = 1..(n + 1) /\ pages'[n + 1] = page
        /\ \A p \in DOMAIN pages : pages'[p] = pages[p]
    BY <1>1, <1>6, <1>7
  <1>9. 1 <= pages'[PageOf(key)].seq
    BY <1>4, <1>7, <1>8
  <1>10. /\ DOMAIN replies \subseteq DOMAIN replies' /\ key \in DOMAIN replies'
         /\ \A k \in DOMAIN replies' :
              RowIsBounded(k)' \/ (k \in DOMAIN replies /\ replies'[k] = replies[k])
    BY <1>3, <1>4, <1>6, <1>9, RowFits
  <1>11. ASSUME NEW p \in DOMAIN pages' PROVE PageIsBounded(p)'
    <2>1. CASE p = n + 1
      BY <1>5, <1>7, <1>8, <1>10, <2>1 DEF PageIsBounded
    <2>2. CASE p \in DOMAIN pages
      BY <1>8, <1>10, <2>2 DEF Bounded, PageIsBounded
    <2> QED BY <1>1, <1>8, <2>1, <2>2
  <1>12. \A p \in DOMAIN pages : pages'[p].seq \in Nat /\ pages[p].seq <= pages'[p].seq
    BY <1>1, <1>8 DEF PageType
  <1>13. ClaimIsHeld'
    <2>1. flight = Idle
      BY DEF IInv, FlightIsPending, Bounded, ClaimIsHeld
    <2> QED BY <2>1 DEF ClaimIsHeld
  <1>14. ver' \in Nat /\ ver <= ver' /\ seg' \in {"working", "completed", "closed"}
         /\ Len(items') <= MaxItems
    BY <1>1 DEF Bounded
  <1> QED BY <1>10, <1>11, <1>12, <1>13, <1>14, BoundedStep

\* One pass of convergeOnce.
LEMMA ConvergeIsBounded ==
  ASSUME IInv, Bounded, convergeOnce, UNCHANGED <<items, seg, ver, screen, flight>>,
         wanted' \in BOOLEAN
  PROVE  Bounded' /\ ScreenMovesOn
  <1> DEFINE n == Len(pages)
             b == pages[n].base
  <1>1. /\ pages \in Seq(PageType) /\ DOMAIN pages = 1..n
        /\ n \in Nat /\ n >= 1 /\ n \in DOMAIN pages
        /\ pages[n] \in PageType /\ items \in Seq(Nat) /\ ver \in Nat /\ Len(items) \in Nat
    BY DEF IInv, Shape
  <1>2. /\ LiveCap \in Nat /\ FullCap \in Nat
        /\ pages[n].seq \in Nat /\ pages[n].dseq \in Nat
    BY <1>1, CapAssumption DEF PageType
  <1>3. CASE UNCHANGED <<pages, replies>>
    <2>1. Len(items') \in Nat /\ Len(items) <= Len(items') /\ Len(items') <= MaxItems
          /\ ver' \in Nat /\ ver <= ver' /\ seg' \in {"working", "completed", "closed"}
      BY <1>1 DEF Bounded
    <2> QED BY <1>3, <2>1, GrowStep
  <1>4. CASE ~(UNCHANGED <<pages, replies>>)
    <2>1. PendingPage = 0 /\ Advance
      BY <1>4 DEF convergeOnce, Nothing, openCreateRecoveryGap
    <2>2. pages[n].pend = NoReply
      BY <1>1, <2>1, PagesFound
    <2>3. \A k : ~Pending(k)
      BY <2>2, PendingIsLast
    <2>4. CASE pages[n].st \in {"creating", "active"}
      <3>1. ActivePage = n /\ n # 0
        BY <1>1, <2>4, PagesFound
      <3>2. CASE NextCursor(b, LiveCap) # Null
        <4> DEFINE cursor == FreezeCursor(n)
                   rev == Max({pages[n].seq, pages[n].dseq}) + 1
                   key == <<n, "freeze", 0>>
                   incl == cursor < Len(items)
                   page == [pages[n] EXCEPT !.st = "frozen", !.seq = rev, !.pend = key,
                              !.pcur = cursor, !.cont = cursor, !.contIncl = incl]
        <4>1. /\ replies' = Enqueued(key, rev, Card(b, FullCap, TRUE))
              /\ pages' = [pages EXCEPT ![n] = page]
          <5>1. reserveFreeze(n)
            BY <2>1, <3>1, <3>2 DEF Advance
          <5> QED BY <1>1, <5>1 DEF reserveFreeze
        <4>2. rev \in Nat /\ pages[n].seq <= rev
          BY <1>2, MaxOfTwo
        <4>3. cursor \in Nat
          BY <1>1, FreezeCursorFits
        <4>4. key \in Keys /\ PageOf(key) = n
          BY <1>1 DEF Keys, Kinds, PageOf
        <4>5. incl \in BOOLEAN
          OBVIOUS
        <4> HIDE DEF cursor, rev, key, incl
        <4>6. /\ page \in PageType /\ page.pend = key /\ page.base = b
              /\ page.dseq = pages[n].dseq /\ page.seq = rev
          BY <1>1, <4>2, <4>3, <4>4, <4>5 DEF PageType, Cursors
        <4> HIDE DEF page
        <4>7. pages[n].seq <= page.seq /\ rev <= page.seq
          BY <4>2, <4>6
        <4> QED BY <1>2, <2>3, <4>1, <4>2, <4>4, <4>6, <4>7, ReservedFits
      <3>3. CASE NextCursor(b, LiveCap) = Null /\ Terminal
        <4> DEFINE rev == pages[n].seq + 1
                   key == <<n, "finish", rev>>
                   page == [pages[n] EXCEPT !.st = "finished", !.seq = rev, !.pend = key,
                              !.pcur = Len(items)]
        <4>1. /\ replies' = Enqueued(key, rev, Card(b, FullCap, TRUE))
              /\ pages' = [pages EXCEPT ![n] = page]
          <5>1. reserveFinish(n)
            BY <2>1, <3>1, <3>3 DEF Advance
          <5> QED BY <1>1, <5>1 DEF reserveFinish
        <4>2. rev \in Nat /\ pages[n].seq <= rev
          BY <1>2
        <4>3. key \in Keys /\ PageOf(key) = n
          BY <1>1, <4>2 DEF Keys, Kinds, PageOf
        <4> HIDE DEF rev, key
        <4>4. /\ page \in PageType /\ page.pend = key /\ page.base = b
              /\ page.dseq = pages[n].dseq /\ page.seq = rev
          BY <1>1, <4>2, <4>3 DEF PageType, Cursors
        <4> HIDE DEF page
        <4>5. pages[n].seq <= page.seq /\ rev <= page.seq
          BY <4>2, <4>4
        <4> QED BY <1>2, <2>3, <4>1, <4>2, <4>3, <4>4, <4>5, ReservedFits
      <3>4. CASE NextCursor(b, LiveCap) = Null /\ ~Terminal
        <4> DEFINE seq == Max({pages[n].seq, ver})
                   key == <<n, "snapshot", ver>>
                   page == [pages[n] EXCEPT !.pend = key, !.pcur = Null, !.seq = seq,
                                            !.st = "active"]
        <4>1. /\ replies' = Enqueued(key, ver, Card(b, LiveCap, FALSE))
              /\ pages' = [pages EXCEPT ![n] = page]
          <5>1. reserveSnapshot(n)
            BY <1>4, <2>1, <3>1, <3>4 DEF Advance, Nothing
          <5> QED BY <1>1, <5>1 DEF reserveSnapshot
        <4>2. seq \in Nat /\ pages[n].seq <= seq /\ ver <= seq
          BY <1>1, <1>2, MaxOfTwo
        <4>3. key \in Keys /\ PageOf(key) = n
          BY <1>1 DEF Keys, Kinds, PageOf
        <4> HIDE DEF seq, key
        <4>4. /\ page \in PageType /\ page.pend = key /\ page.base = b
              /\ page.dseq = pages[n].dseq /\ page.seq = seq
          BY <1>1, <4>2, <4>3 DEF PageType, Cursors
        <4> HIDE DEF page
        <4>5. pages[n].seq <= page.seq /\ ver <= page.seq
          BY <4>2, <4>4
        <4> QED BY <1>1, <1>2, <2>3, <4>1, <4>3, <4>4, <4>5, ReservedFits
      <3> QED BY <3>2, <3>3, <3>4
    <2>5. CASE pages[n].st \notin {"creating", "active"}
      <3>1. ActivePage = 0 /\ FrozenPage # 0 /\ FrozenPage + 1 \notin DOMAIN pages
            /\ reserveLateContinuation(FrozenPage)
        BY <1>4, <2>1, <2>5, PagesFound DEF Advance, Nothing
      <3>2. FrozenPage = n
        BY <1>1, <3>1, PagesFound
      <3> QED BY <2>3, <3>1, <3>2, ContinuationFits
    <2> QED BY <2>4, <2>5
  <1> QED BY <1>3, <1>4

\* A finished page is reopened, or its sequence is moved on.
LEMMA ReopenIsBounded ==
  ASSUME IInv, Bounded, ActivityInvalidates
  PROVE  Bounded' /\ ScreenMovesOn
  <1> DEFINE n == Len(pages)
             next == Max({ver, pages[n].seq, pages[n].dseq}) + 1
             moved == [pages[n] EXCEPT !.seq = Max({@, next})]
             reopened == [pages[n] EXCEPT !.st = "active"]
  <1>1. /\ pages \in Seq(PageType) /\ n \in DOMAIN pages /\ pages[n] \in PageType
        /\ ver \in Nat /\ Len(items) \in Nat
    BY DEF IInv, Shape
  <1>2. pages[n].seq \in Nat /\ pages[n].dseq \in Nat
    BY <1>1 DEF PageType
  <1>3. next \in Nat /\ ver <= next
    <2> DEFINE S == {ver, pages[n].seq, pages[n].dseq}
    <2>1. \E x \in S : \A y \in S : x >= y
      BY <1>1, <1>2
    <2>2. Max(S) \in S /\ \A y \in S : Max(S) >= y
      BY <2>1 DEF Max
    <2> QED BY <1>1, <1>2, <2>2
  <1>4. /\ UNCHANGED <<items, seg, replies, screen, flight>> /\ ver' = next /\ wanted' = TRUE
        /\ pages' = IF pages[n].st # "finished" THEN pages
                    ELSE IF pages[n].pend # NoReply THEN [pages EXCEPT ![n].seq = Max({@, next})]
                    ELSE [pages EXCEPT ![n].st = "active"]
    BY DEF ActivityInvalidates
  <1> HIDE DEF next
  <1>5. Max({pages[n].seq, next}) \in Nat /\ pages[n].seq <= Max({pages[n].seq, next})
    BY <1>2, <1>3, MaxOfTwo
  <1>6. /\ moved \in PageType /\ moved.base = pages[n].base /\ moved.dseq = pages[n].dseq
        /\ moved.pend = pages[n].pend /\ pages[n].seq <= moved.seq /\ moved.seq \in Nat
    BY <1>1, <1>5 DEF PageType
  <1>7. /\ reopened \in PageType /\ reopened.base = pages[n].base
        /\ reopened.dseq = pages[n].dseq
        /\ reopened.pend = pages[n].pend /\ pages[n].seq <= reopened.seq /\ reopened.seq \in Nat
    <2>1. /\ reopened \in PageType /\ reopened.base = pages[n].base
          /\ reopened.dseq = pages[n].dseq /\ reopened.pend = pages[n].pend
          /\ reopened.seq = pages[n].seq
      BY <1>1 DEF PageType
    <2> QED BY <1>2, <2>1
  <1>8. \/ pages' = pages \/ pages' = [pages EXCEPT ![n] = moved]
        \/ pages' = [pages EXCEPT ![n] = reopened]
    BY <1>1, <1>4
  <1> HIDE DEF moved, reopened
  <1>9. pages[n].dseq <= pages[n].seq /\ (pages[n].pend # NoReply => pages[n].pend \in DOMAIN replies)
    BY <1>1 DEF Bounded, PageIsBounded
  <1>10. ClaimIsHeld'
    BY <1>4 DEF Bounded, ClaimIsHeld
  <1>11. CASE pages' = pages
    <2>1. Len(items') \in Nat /\ Len(items) <= Len(items') /\ Len(items') <= MaxItems
          /\ seg' \in {"working", "completed", "closed"} /\ ver' \in Nat /\ ver <= ver'
      BY <1>1, <1>3, <1>4 DEF Bounded
    <2> QED BY <1>4, <1>11, <2>1, GrowStep
  <1>12. /\ DOMAIN replies \subseteq DOMAIN replies'
         /\ \A k \in DOMAIN replies' :
              RowIsBounded(k)' \/ (k \in DOMAIN replies /\ replies'[k] = replies[k])
    BY <1>4
  <1>13. CASE pages' = [pages EXCEPT ![n] = moved]
    <2>1. moved.dseq <= moved.seq
      BY <1>2, <1>6, <1>9
    <2> QED BY <1>1, <1>3, <1>4, <1>6, <1>9, <1>10, <1>12, <1>13, <2>1, PageStep
  <1>14. CASE pages' = [pages EXCEPT ![n] = reopened]
    <2>1. reopened.dseq <= reopened.seq
      BY <1>2, <1>7, <1>9
    <2> QED BY <1>1, <1>3, <1>4, <1>7, <1>9, <1>10, <1>12, <1>14, <2>1, PageStep
  <1> QED BY <1>8, <1>11, <1>13, <1>14

-----------------------------------------------------------------------------
(* The delivery and the screen.                                                *)

\* A row is settled, claimed or released, and its page takes note of it.
LEMMA RowChanges ==
  ASSUME IInv, Bounded, UNCHANGED <<items, seg, ver, screen>>, wanted' \in BOOLEAN, ClaimIsHeld',
         NEW k \in DOMAIN replies, NEW row \in ReplyType, replies' = [replies EXCEPT ![k] = row],
         row.card = replies[k].card, row.rev = replies[k].rev, row.tries <= Attempts,
         row.st = "pending" => Pending(k) /\ row.tries < Attempts,
         NEW page \in PageType, pages' = [pages EXCEPT ![PageOf(k)] = page],
         page.base = pages[PageOf(k)].base, page.seq = pages[PageOf(k)].seq,
         page.dseq <= page.seq, page.pend = NoReply \/ page.pend = pages[PageOf(k)].pend
  PROVE  Bounded' /\ ScreenMovesOn
  <1>1. PICK n : n = PageOf(k)
    OBVIOUS
  <1>2. /\ n \in DOMAIN pages /\ pages[n] \in PageType /\ ver \in Nat /\ pages \in Seq(PageType)
        /\ DOMAIN replies' = DOMAIN replies /\ replies'[k] = row
        /\ \A j \in DOMAIN replies : j # k => replies'[j] = replies[j]
    BY <1>1 DEF IInv, Shape
  <1>3. pages[n].seq \in Nat /\ pages'[n] = page
    BY <1>1, <1>2 DEF PageType
  <1>4. RowIsBounded(k) /\ PageIsBounded(n)
    BY <1>2 DEF Bounded
  <1>5. RowIsBounded(k)'
    BY <1>1, <1>2, <1>3, <1>4 DEF RowIsBounded, Pending
  <1>6. \A j \in DOMAIN replies' :
          RowIsBounded(j)' \/ (j \in DOMAIN replies /\ replies'[j] = replies[j])
    BY <1>2, <1>5
  <1>7. page.pend # NoReply => page.pend \in DOMAIN replies'
    BY <1>1, <1>2, <1>4 DEF PageIsBounded
  <1>8. pages[n].seq <= page.seq /\ ver' \in Nat /\ ver <= ver'
    BY <1>1, <1>2, <1>3
  <1>9. DOMAIN replies \subseteq DOMAIN replies'
    BY <1>2
  <1> QED BY <1>1, <1>2, <1>6, <1>7, <1>8, <1>9, PageStep

\* The same with the page as it was.
LEMMA RowOnlyChanges ==
  ASSUME IInv, Bounded, UNCHANGED <<items, seg, ver, pages, screen>>, wanted' \in BOOLEAN,
         ClaimIsHeld',
         NEW k \in DOMAIN replies, NEW row \in ReplyType, replies' = [replies EXCEPT ![k] = row],
         row.card = replies[k].card, row.rev = replies[k].rev, row.tries <= Attempts,
         row.st = "pending" => Pending(k) /\ row.tries < Attempts
  PROVE  Bounded' /\ ScreenMovesOn
  <1>1. PageOf(k) \in DOMAIN pages /\ pages[PageOf(k)] \in PageType /\ pages \in Seq(PageType)
    BY DEF IInv, Shape
  <1>2. pages' = [pages EXCEPT ![PageOf(k)] = pages[PageOf(k)]]
    BY <1>1
  <1>3. pages[PageOf(k)].dseq <= pages[PageOf(k)].seq
    BY <1>1 DEF Bounded, PageIsBounded
  <1> QED BY <1>1, <1>2, <1>3, RowChanges

\* The same with the page unlinked.
LEMMA RowIsUnlinked ==
  ASSUME IInv, Bounded, UNCHANGED <<items, seg, ver, screen>>, wanted' \in BOOLEAN, ClaimIsHeld',
         NEW k \in DOMAIN replies, NEW row \in ReplyType, replies' = [replies EXCEPT ![k] = row],
         row.card = replies[k].card, row.rev = replies[k].rev, row.tries <= Attempts,
         row.st # "pending",
         NEW state \in {"creating", "active", "frozen", "finished"},
         pages' = Unlinked(PageOf(k), k, state)
  PROVE  Bounded' /\ ScreenMovesOn
  <1>1. PICK n : n = PageOf(k)
    OBVIOUS
  <1> DEFINE page == [pages[n] EXCEPT !.pend = NoReply, !.pcur = Null, !.st = state]
  <1>2. n \in DOMAIN pages /\ pages[n] \in PageType /\ pages \in Seq(PageType)
    BY <1>1 DEF IInv, Shape
  <1>3. NoReply \in Keys
    BY DEF NoReply, Keys, Kinds
  <1>4. /\ page \in PageType /\ page.pend = NoReply /\ page.base = pages[n].base
        /\ page.seq = pages[n].seq /\ page.dseq = pages[n].dseq
    BY <1>2, <1>3 DEF PageType, Cursors
  <1>5. pages' = pages \/ pages' = [pages EXCEPT ![n] = page]
    BY <1>1, <1>2 DEF Unlinked
  <1> HIDE DEF page
  <1>6. page.dseq <= page.seq
    BY <1>2, <1>4 DEF Bounded, PageIsBounded
  <1>7. CASE pages' = pages
    BY <1>7, RowOnlyChanges
  <1>8. CASE pages' = [pages EXCEPT ![n] = page]
    BY <1>1, <1>4, <1>6, <1>8, RowChanges
  <1> QED BY <1>5, <1>7, <1>8

LEMMA ClaimIsBounded ==
  ASSUME IInv, Bounded, NEW k \in DOMAIN replies, Claim(k) PROVE Bounded' /\ ScreenMovesOn
  <1> DEFINE row == [replies[k] EXCEPT !.claimed = TRUE, !.first = TRUE]
  <1>1. replies[k] \in ReplyType /\ replies \in [DOMAIN replies -> ReplyType]
    BY DEF IInv, Shape
  <1>2. /\ row \in ReplyType /\ row.card = replies[k].card /\ row.rev = replies[k].rev
        /\ row.tries = replies[k].tries /\ row.claimed
    BY <1>1 DEF ReplyType
  <1>3. replies' = [replies EXCEPT ![k] = row]
    BY <1>1 DEF Claim
  <1> HIDE DEF row
  <1>4. Pending(k) /\ RowIsBounded(k)
    BY DEF Claim, Claimable, Live, Pending, Bounded
  <1>5. ClaimIsHeld'
    <2>1. flight' = [key |-> k, at |-> "sent"] /\ replies'[k].claimed
      BY <1>2, <1>3 DEF Claim
    <2> QED BY <2>1 DEF ClaimIsHeld
  <1>6. UNCHANGED <<items, seg, ver, pages, screen>> /\ wanted' \in BOOLEAN
    BY DEF Claim, Bounded
  <1>7. row.tries <= Attempts /\ row.tries < Attempts
    BY <1>2, <1>4 DEF RowIsBounded
  <1> QED BY <1>2, <1>3, <1>4, <1>5, <1>6, <1>7, RowOnlyChanges

LEMMA ExpiryIsBounded ==
  ASSUME IInv, Bounded, NEW k \in DOMAIN replies, ClaimExpires(k) PROVE Bounded' /\ ScreenMovesOn
  <1> DEFINE row == [replies[k] EXCEPT !.st = "dead_letter", !.claimed = FALSE, !.unsure = TRUE]
  <1>1. replies[k] \in ReplyType /\ replies \in [DOMAIN replies -> ReplyType]
    BY DEF IInv, Shape
  <1>2. /\ row \in ReplyType /\ row.card = replies[k].card /\ row.rev = replies[k].rev
        /\ row.tries = replies[k].tries /\ row.st # "pending"
    BY <1>1 DEF ReplyType
  <1>3. replies' = [replies EXCEPT ![k] = row]
    BY <1>1 DEF ClaimExpires
  <1> HIDE DEF row
  <1>4. flight.key # k /\ UNCHANGED <<items, seg, ver, pages, screen, flight, wanted>>
    BY DEF ClaimExpires
  <1>5. ClaimIsHeld'
    <2>1. ASSUME flight # Idle PROVE flight.at # "idle" /\ replies'[flight.key].claimed
      <3>1. flight.at # "idle" /\ replies[flight.key].claimed
        BY <2>1 DEF Bounded, ClaimIsHeld
      <3>2. flight.key \in DOMAIN replies
        BY <3>1 DEF IInv, FlightIsPending, Pending
      <3> QED BY <1>3, <1>4, <3>1, <3>2
    <2> QED BY <1>4, <2>1 DEF ClaimIsHeld
  <1>6. row.tries <= Attempts /\ wanted' \in BOOLEAN
    BY <1>2, <1>4 DEF Bounded, RowIsBounded
  <1> QED BY <1>2, <1>3, <1>4, <1>5, <1>6, RowOnlyChanges

LEMMA RetireIsBounded ==
  ASSUME IInv, Bounded, NEW k \in DOMAIN replies, Retire(k) PROVE Bounded' /\ ScreenMovesOn
  <1> DEFINE row == [replies[k] EXCEPT !.st = "dismissed"]
             p == PageOf(k)
             state == IF seg = "closed" \/ HistoricalCreate(k) THEN "finished"
                      ELSE IF pages[p].st = "frozen" THEN "frozen"
                      ELSE IF ~pages[p].msg THEN "creating"
                      ELSE "active"
  <1>1. replies[k] \in ReplyType /\ replies \in [DOMAIN replies -> ReplyType]
    BY DEF IInv, Shape
  <1>2. /\ row \in ReplyType /\ row.card = replies[k].card /\ row.rev = replies[k].rev
        /\ row.tries = replies[k].tries /\ row.st # "pending"
    BY <1>1 DEF ReplyType
  <1>3. replies' = [replies EXCEPT ![k] = row]
    BY <1>1 DEF Retire
  <1> HIDE DEF row
  <1>4. /\ flight' = Idle /\ UNCHANGED <<items, seg, ver, screen, wanted>>
        /\ pages' = Unlinked(p, k, state)
    BY DEF Retire
  <1>5. state \in {"creating", "active", "frozen", "finished"}
    OBVIOUS
  <1> HIDE DEF state
  <1>6. ClaimIsHeld' /\ wanted' \in BOOLEAN /\ row.tries <= Attempts
    BY <1>2, <1>4 DEF ClaimIsHeld, Bounded, RowIsBounded
  <1> QED BY <1>2, <1>3, <1>4, <1>5, <1>6, RowIsUnlinked

LEMMA AcknowledgeIsBounded == ASSUME IInv, Bounded, Acknowledge PROVE Bounded' /\ ScreenMovesOn
  <1>1. PICK k, n : k = flight.key /\ n = PageOf(k)
    OBVIOUS
  <1> DEFINE st == IF pages[n].st = "creating" \/ (pages[n].st = "finished"
                                                  /\ replies[k].rev < pages[n].seq)
                   THEN "active" ELSE pages[n].st
             dseq == Max({pages[n].dseq, replies[k].rev})
             page == [pages[n] EXCEPT !.msg = TRUE, !.dseq = dseq, !.dcur = pages[n].pcur,
                                      !.pcur = Null, !.pend = NoReply, !.st = st]
             row == [replies[k] EXCEPT !.st = "delivered", !.claimed = FALSE]
  <1>2. Pending(k) /\ k \in DOMAIN replies
    BY <1>1 DEF Acknowledge, IInv, FlightIsPending, Pending
  <1>3. n \in DOMAIN pages /\ pages[n].pend = k /\ k # NoReply
    BY <1>1, <1>2, PendingIsLast
  <1>4. /\ pages \in Seq(PageType) /\ pages[n] \in PageType
        /\ replies \in [DOMAIN replies -> ReplyType] /\ replies[k] \in ReplyType
    BY <1>2, <1>3 DEF IInv, Shape
  <1>5. /\ row \in ReplyType /\ row.card = replies[k].card /\ row.rev = replies[k].rev
        /\ row.tries = replies[k].tries /\ row.st # "pending"
    BY <1>4 DEF ReplyType
  <1>6. replies' = [replies EXCEPT ![k] = row]
    BY <1>1, <1>2, <1>4 DEF Acknowledge
  <1>7. pages' = [pages EXCEPT ![n] = page]
    <2>1. pages' = Settled(k)
      BY <1>1 DEF Acknowledge
    <2>2. Settled(k) = [pages EXCEPT ![n] = page]
      BY <1>1, <1>3 DEF Settled
    <2> QED BY <2>1, <2>2
  <1>8. dseq \in Nat /\ dseq <= pages[n].seq
    <2>1. pages[n].dseq \in Nat /\ replies[k].rev \in Nat
      BY <1>4 DEF PageType, ReplyType
    <2>2. pages[n].dseq <= pages[n].seq /\ replies[k].rev <= pages[n].seq
      BY <1>1, <1>2, <1>3 DEF Bounded, PageIsBounded, RowIsBounded
    <2>3. dseq = pages[n].dseq \/ dseq = replies[k].rev
      <3>1. \E x \in {pages[n].dseq, replies[k].rev} : \A y \in {pages[n].dseq, replies[k].rev} : x >= y
        BY <2>1
      <3> QED BY <3>1 DEF Max
    <2> QED BY <2>1, <2>2, <2>3
  <1>9. st \in {"creating", "active", "frozen", "finished"}
    BY <1>4 DEF PageType
  <1>10. NoReply \in Keys
    BY DEF NoReply, Keys, Kinds
  <1> HIDE DEF st, dseq, row
  <1>11. /\ page \in PageType /\ page.pend = NoReply /\ page.base = pages[n].base
         /\ page.seq = pages[n].seq /\ page.dseq = dseq
    BY <1>4, <1>8, <1>9, <1>10 DEF PageType, Cursors
  <1> HIDE DEF page
  <1>12. page.dseq <= page.seq
    BY <1>8, <1>11
  <1>13. flight' = Idle /\ wanted' = TRUE /\ UNCHANGED <<items, seg, ver, screen>>
    BY DEF Acknowledge
  <1>14. ClaimIsHeld' /\ row.tries <= Attempts
    BY <1>2, <1>5, <1>13 DEF ClaimIsHeld, Bounded, RowIsBounded
  <1> QED BY <1>1, <1>2, <1>5, <1>6, <1>7, <1>11, <1>12, <1>13, <1>14, RowChanges

LEMMA FailIsBounded == ASSUME IInv, Bounded, Fail PROVE Bounded' /\ ScreenMovesOn
  <1>1. PICK k : k = flight.key
    OBVIOUS
  <1> DEFINE tries == replies[k].tries + 1
             exhausted == tries >= Attempts
             unsure == flight.at = "uncertain"
             row == [replies[k] EXCEPT !.st = IF exhausted THEN "dismissed" ELSE "pending",
                                       !.claimed = FALSE, !.tries = tries, !.unsure = unsure]
             p == PageOf(k)
  <1>2. Pending(k) /\ k \in DOMAIN replies
    BY <1>1 DEF Fail, IInv, FlightIsPending, Pending
  <1>3. replies \in [DOMAIN replies -> ReplyType] /\ replies[k] \in ReplyType
    BY <1>2 DEF IInv, Shape
  <1>4. tries \in Nat /\ exhausted \in BOOLEAN /\ unsure \in BOOLEAN
    BY <1>3 DEF ReplyType
  <1>5. /\ replies' = [replies EXCEPT ![k] = row]
        /\ pages' = IF exhausted THEN Unlinked(p, k, ExhaustedState(p)) ELSE pages
        /\ flight' = Idle /\ UNCHANGED <<items, seg, ver, screen, wanted>>
    BY <1>1 DEF Fail
  <1>6. tries <= Attempts /\ (~exhausted => tries < Attempts)
    <2>1. replies[k].tries \in Nat /\ Attempts \in Nat /\ replies[k].tries < Attempts
      BY <1>2, <1>3, CapAssumption DEF ReplyType, Bounded, RowIsBounded
    <2> QED BY <2>1
  <1> HIDE DEF tries, exhausted, unsure
  <1>7. /\ row \in ReplyType /\ row.card = replies[k].card /\ row.rev = replies[k].rev
        /\ row.tries = tries /\ row.st = IF exhausted THEN "dismissed" ELSE "pending"
    BY <1>3, <1>4 DEF ReplyType
  <1> HIDE DEF row
  <1>8. ClaimIsHeld' /\ wanted' \in BOOLEAN
    BY <1>5 DEF ClaimIsHeld, Bounded
  <1>9. CASE exhausted
    <2> DEFINE state == ExhaustedState(p)
    <2>1. pages' = Unlinked(p, k, state) /\ row.st # "pending"
      BY <1>5, <1>7, <1>9
    <2>2. pages[p] \in PageType
      BY <1>2 DEF IInv, Shape
    <2>3. state \in {"creating", "active", "frozen", "finished"}
      BY <2>2 DEF ExhaustedState, PageType
    <2> HIDE DEF state
    <2> QED BY <1>2, <1>5, <1>6, <1>7, <1>8, <2>1, <2>3, RowIsUnlinked
  <1>10. CASE ~exhausted
    BY <1>2, <1>5, <1>6, <1>7, <1>8, <1>10, RowOnlyChanges
  <1> QED BY <1>9, <1>10

\* The provider shows the card of the reply in flight, which is no older than what it replaces.
LEMMA ScreenIsBounded ==
  ASSUME IInv, Bounded, flight.at = "sent", screen' = screen \/ screen' = Shown(flight.key),
         UNCHANGED durable, wanted' \in BOOLEAN,
         flight' = Idle \/ (flight'.key = flight.key /\ flight'.at # "idle")
  PROVE  Bounded' /\ ScreenMovesOn
  <1> DEFINE k == flight.key
             n == PageOf(k)
  <1>1. Pending(k) /\ k \in DOMAIN replies
    BY DEF IInv, FlightIsPending, Pending
  <1>2. /\ ver \in Nat /\ screen \in [DOMAIN screen -> Cards] /\ replies[k] \in ReplyType
    BY <1>1 DEF IInv, Shape
  <1>3. \A p \in DOMAIN screen : screen[p].ver \in Nat
    BY <1>2 DEF Cards
  <1>4. replies[k].card.ver \in Nat
    BY <1>2 DEF ReplyType, Cards
  <1>5. RowIsBounded(k)
    BY <1>1 DEF Bounded
  <1>6. /\ screen' = screen
        \/ /\ DOMAIN screen' = DOMAIN screen \cup {n} /\ screen'[n] = replies[k].card
           /\ \A p \in DOMAIN screen : p # n => screen'[p] = screen[p]
    BY DEF Shown
  <1>7. \A p \in DOMAIN screen : p \in DOMAIN screen' /\ screen[p].ver <= screen'[p].ver
    BY <1>1, <1>3, <1>5, <1>6 DEF RowIsBounded
  <1>8. \A p \in DOMAIN screen' : screen'[p].ver <= ver'
    BY <1>5, <1>6 DEF RowIsBounded, Bounded, durable
  <1>9. ClaimIsHeld'
    <2>1. flight # Idle
      BY DEF Idle
    <2>2. replies[k].claimed
      BY <2>1 DEF Bounded, ClaimIsHeld
    <2> QED BY <2>2 DEF ClaimIsHeld, durable
  <1>10. \A p \in DOMAIN pages : PageIsBounded(p)'
    BY DEF Bounded, PageIsBounded, durable
  <1>11. ASSUME NEW j \in DOMAIN replies PROVE RowIsBounded(j)'
    <2>1. RowIsBounded(j)
      BY DEF Bounded
    <2>2. ASSUME Pending(j) PROVE j = k
      BY <1>1, <2>2, PendingIsLast
    <2>3. ASSUME Pending(j), PageOf(j) \in DOMAIN screen'
          PROVE  screen'[PageOf(j)].ver <= replies[j].card.ver
      <3>1. CASE screen' = screen
        BY <2>1, <2>3, <3>1 DEF RowIsBounded
      <3>2. CASE screen' # screen
        BY <1>4, <1>6, <2>2, <2>3, <3>2
      <3> QED BY <3>1, <3>2
    <2> QED BY <2>1, <2>3 DEF RowIsBounded, durable, Pending
  <1>12. ScreenMovesOn
    BY <1>7 DEF ScreenMovesOn
  <1> QED BY <1>8, <1>9, <1>10, <1>11, <1>12 DEF Bounded, durable

-----------------------------------------------------------------------------
\* Every step keeps the bounds, and none takes a card on the screen back.
LEMMA StepKeepsBounds == IInv /\ Bounded /\ [Next]_vars => Bounded' /\ ScreenMovesOn
  <1> SUFFICES ASSUME IInv, Bounded, [Next]_vars PROVE Bounded' /\ ScreenMovesOn
    OBVIOUS
  <1>1. /\ items \in Seq(Nat) /\ Len(items) \in Nat /\ ver \in Nat /\ ver <= ver + 1
        /\ ver + 1 \in Nat /\ ver <= ver /\ Len(items) <= Len(items)
    BY DEF IInv, Shape
  <1>2. /\ Len(items) <= MaxItems /\ seg \in {"working", "completed", "closed"}
        /\ wanted \in BOOLEAN /\ MaxItems \in Nat
    BY CapAssumption DEF Bounded
  <1>3. Len(Append(items, 0)) = Len(items) + 1
    BY <1>1
  <1>4. Len(items) <= Len(items) + 1 /\ Len(items) + 1 \in Nat
        /\ (Len(items) < MaxItems => Len(items) + 1 <= MaxItems)
    BY <1>1, <1>2
  <1>5. ASSUME ItemArrives PROVE Bounded' /\ ScreenMovesOn
    BY <1>1, <1>2, <1>3, <1>4, <1>5, GrowStep DEF ItemArrives
  <1>6. ASSUME TurnCompletes PROVE Bounded' /\ ScreenMovesOn
    <2>1. Len(items') \in Nat /\ Len(items) <= Len(items') /\ Len(items') <= MaxItems
      BY <1>1, <1>2, <1>3, <1>4, <1>6 DEF TurnCompletes
    <2>2. seg' = "completed" /\ ver' = ver + 1 /\ wanted' = TRUE
          /\ UNCHANGED <<pages, replies, screen, flight>>
      BY <1>6 DEF TurnCompletes
    <2> QED BY <1>1, <2>1, <2>2, GrowStep
  <1>7. ASSUME SegmentCloses PROVE Bounded' /\ ScreenMovesOn
    <2>1. seg' = "closed" /\ ver' = ver + 1 /\ wanted' = TRUE /\ items' = items
          /\ UNCHANGED <<pages, replies, screen, flight>>
      BY <1>7 DEF SegmentCloses
    <2> QED BY <1>1, <1>2, <2>1, GrowStep
  <1>8. ASSUME ActivityInvalidates PROVE Bounded' /\ ScreenMovesOn
    BY <1>8, ReopenIsBounded
  <1>9. ASSUME NEW i \in DOMAIN items, ItemChanges(i) PROVE Bounded' /\ ScreenMovesOn
    <2>1. ver' = ver + 1 /\ wanted' = TRUE /\ UNCHANGED <<seg, pages, replies, screen, flight>>
          /\ items' = [items EXCEPT ![i] = @ + 1]
      BY <1>9 DEF ItemChanges
    <2>2. items[i] + 1 \in Nat
      BY <1>1
    <2>3. Len(items') = Len(items)
      BY <1>1, <2>1, <2>2
    <2> QED BY <1>1, <1>2, <2>1, <2>3, GrowStep
  <1>10. ASSUME Flush \/ Scan PROVE Bounded' /\ ScreenMovesOn
    <2>1. convergeOnce /\ UNCHANGED <<items, seg, ver, screen, flight>> /\ wanted' \in BOOLEAN
      BY <1>2, <1>10 DEF Flush, Scan
    <2> QED BY <2>1, ConvergeIsBounded
  <1>11. ASSUME NEW k \in DOMAIN replies, Claim(k) \/ Retire(k) \/ ClaimExpires(k)
         PROVE  Bounded' /\ ScreenMovesOn
    BY <1>11, ClaimIsBounded, RetireIsBounded, ExpiryIsBounded
  <1>12. ASSUME GatewayAccepts PROVE Bounded' /\ ScreenMovesOn
    <2>1. flight.at = "sent" /\ screen' = Shown(flight.key) /\ UNCHANGED <<durable, wanted>>
          /\ flight' = [flight EXCEPT !.at = "ok"]
      BY <1>12 DEF GatewayAccepts
    <2>2. flight'.key = flight.key /\ flight'.at # "idle"
      BY <1>12 DEF GatewayAccepts, Bounded, ClaimIsHeld, IInv, Shape
    <2> QED BY <1>2, <2>1, <2>2, ScreenIsBounded
  <1>13. ASSUME Acknowledge \/ Fail PROVE Bounded' /\ ScreenMovesOn
    BY <1>13, AcknowledgeIsBounded, FailIsBounded
  <1>14. ASSUME NEW how \in {"rejected", "uncertain"}, GatewayFails(how)
         PROVE  Bounded' /\ ScreenMovesOn
    <2>1. flight.at = "sent" /\ UNCHANGED <<durable, wanted>>
      BY <1>14 DEF GatewayFails
    <2>2. screen' = screen \/ screen' = Shown(flight.key)
      BY <1>14 DEF GatewayFails
    <2>3. flight'.key = flight.key /\ flight'.at # "idle"
      BY <1>14 DEF GatewayFails, IInv, Shape
    <2> QED BY <1>2, <2>1, <2>2, <2>3, ScreenIsBounded
  <1>15. ASSUME Crash PROVE Bounded' /\ ScreenMovesOn
    <2>1. flight' = Idle /\ wanted' = FALSE /\ UNCHANGED durable
      BY <1>15 DEF Crash
    <2>2. CASE flight.at = "sent"
      <3>1. screen' = screen \/ screen' = Shown(flight.key)
        BY <1>15, <2>2 DEF Crash
      <3> QED BY <2>1, <2>2, <3>1, ScreenIsBounded
    <2>3. CASE flight.at # "sent"
      <3>1. screen' = screen
        BY <1>15, <2>3 DEF Crash
      <3>2. ClaimIsHeld'
        BY <2>1 DEF ClaimIsHeld
      <3>3. (\A p \in DOMAIN pages : PageIsBounded(p)') /\ (\A k \in DOMAIN replies : RowIsBounded(k)')
        BY <2>1, <3>1 DEF Bounded, PageIsBounded, RowIsBounded, Pending, durable
      <3>4. ScreenMovesOn
        <4>1. \A p \in DOMAIN screen : screen[p].ver \in Nat
          BY DEF IInv, Shape, Cards
        <4> QED BY <3>1, <4>1 DEF ScreenMovesOn
      <3> QED BY <2>1, <3>1, <3>2, <3>3, <3>4 DEF Bounded, durable
    <2> QED BY <2>2, <2>3
  <1>16. CASE UNCHANGED vars
    <2>1. UNCHANGED <<pages, replies, screen, flight, items, ver, seg, wanted>>
      BY <1>16 DEF vars, durable
    <2> QED BY <1>1, <1>2, <2>1, GrowStep
  <1> QED BY <1>5, <1>6, <1>7, <1>8, <1>9, <1>10, <1>11, <1>12, <1>13, <1>14, <1>15, <1>16
          DEF Next, Project, Converge, Deliver

\* The Human message starts within the bounds.
LEMMA InitIsBounded == Init => Bounded
  <1> SUFFICES ASSUME Init PROVE Bounded
    OBVIOUS
  <1> DEFINE key == <<1, "create", 0>>
             page == NewPage(0, 0, TRUE, key)
             card == [ver |-> 1, done |-> FALSE, shows |-> {<<1, 0>>}]
  <1>1. MaxItems \in Nat \ {0} /\ Attempts \in Nat \ {0}
    BY CapAssumption
  <1>2. card \in CardType /\ card.ver = 1
    BY <1>1 DEF CardType
  <1>3. /\ DOMAIN replies = {key} /\ replies[key].card = card /\ replies[key].rev = 1
        /\ replies[key].tries = 0 /\ PageOf(key) = 1
    BY DEF Init, PageOf
  <1>4. /\ DOMAIN pages = {1} /\ pages[1].base = 0 /\ pages[1].seq = 1 /\ pages[1].dseq = 0
        /\ pages[1].pend = key
    BY DEF Init, NewPage
  <1>5. Len(items) = 1 /\ ver = 1 /\ DOMAIN screen = {} /\ flight = Idle /\ wanted = TRUE
        /\ seg = "working"
    BY DEF Init
  <1> HIDE DEF key, card
  <1>6. PageIsBounded(1) /\ RowIsBounded(key)
    BY <1>1, <1>2, <1>3, <1>4, <1>5 DEF PageIsBounded, RowIsBounded
  <1>7. ClaimIsHeld
    BY <1>5 DEF ClaimIsHeld
  <1> QED BY <1>1, <1>3, <1>4, <1>5, <1>6, <1>7 DEF Bounded

\* Numbers, versions and claims stay within what the store reserved for them.
LEMMA BoundsHold == Spec => []Bounded
  BY InvariantHolds, InitIsBounded, StepKeepsBounds, PTL DEF Spec

\* Every reachable segment, page, reply and execution has its type: a card holds items of the
\* timeline only, a page confirms no sequence that it has not reserved, a reply is not tried
\* beyond its budget and the execution in progress holds its claim.
THEOREM TypeCorrect == Spec => []TypeOK
  <1>1. IInv /\ Bounded => TypeOK
    <2> SUFFICES ASSUME IInv, Bounded PROVE TypeOK
      OBVIOUS
    <2>1. items \in Seq(Nat) /\ ver \in Nat
      BY DEF IInv, Shape
    <2>2. ASSUME NEW p \in DOMAIN pages
          PROVE  /\ pages[p].st \in {"creating", "active", "frozen", "finished"}
                 /\ pages[p].msg \in BOOLEAN
      <3>1. pages[p] \in PageType
        BY DEF IInv, Shape
      <3> QED BY <3>1 DEF PageType
    <2>3. ASSUME NEW k \in DOMAIN replies
          PROVE  /\ PageOf(k) \in DOMAIN pages
                 /\ replies[k].st \in {"pending", "delivered", "dead_letter", "dismissed"}
      BY DEF IInv, Shape, ReplyType
    <2>4. flight # Idle => replies[flight.key].claimed
      BY DEF Bounded, ClaimIsHeld
    <2> QED BY <2>1, <2>2, <2>3, <2>4 DEF TypeOK, Bounded, PageIsBounded, RowIsBounded
  <1> QED BY <1>1, InvariantHolds, BoundsHold, PTL

\* A reader never sees a card go back: no late answer, retry, claim of a dead process or reopened
\* page replaces what a page shows by the card of an earlier version of the segment.
THEOREM ScreenNeverGoesBack == Spec => NeverBack
  <1>1. IInv /\ Bounded /\ [Next]_vars => [ScreenMovesOn]_screen
    BY StepKeepsBounds
  <1> QED BY <1>1, InvariantHolds, BoundsHold, PTL DEF Spec, NeverBack
=============================================================================
