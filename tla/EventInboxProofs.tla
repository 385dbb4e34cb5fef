-------------------------- MODULE EventInboxProofs --------------------------
(***************************************************************************)
(* What EventInbox guarantees for any number of events, any size of the    *)
(* tail and of the batches, and any scenario: the gap of a single event    *)
(* tells the truth about its item; and, as long as no frame fails to be    *)
(* stored, no event is skipped silently and the lane implements the        *)
(* ordered feed.                                                           *)
(***************************************************************************)
EXTENDS EventInbox, FiniteSetTheorems, SequenceTheorems, WellFoundedInduction, TLAPS

(* The items and their gaps. *)

Items == [ev : Nat, st : {"pending", "projected", "ignored", "quarantined"}, tries : Nat, rev : Nat]

\* The lane holds an event once.
EventsOnce == \A i, j \in DOMAIN lane : lane[i].ev = lane[j].ev => i = j

\* Gaps belong to items.  That of a quarantined item was opened by the reducer that failed;
\* an item that is tried again waits for a newer reducer than its gap was opened by.
GapsOfItems ==
  /\ DOMAIN itemGaps \subseteq LaneEvents
  /\ itemGaps \in [DOMAIN itemGaps -> Nat]
  /\ \A i \in DOMAIN lane :
       /\ lane[i].st = "quarantined" =>
            lane[i].ev \in DOMAIN itemGaps /\ itemGaps[lane[i].ev] = lane[i].rev
       /\ lane[i].st \in {"projected", "ignored"} => lane[i].ev \notin DOMAIN itemGaps
       /\ lane[i].st = "pending" /\ lane[i].ev \in DOMAIN itemGaps => itemGaps[lane[i].ev] < rev

\* The item the cursor holds was pending under the running reducer.
HeldIsItem ==
  held # NoEvent =>
    \E i \in DOMAIN lane : lane[i].ev = held /\ (lane[i].st = "quarantined" => lane[i].rev >= rev)

ItemInv == rev \in Nat /\ EventsOnce /\ GapsOfItems /\ HeldIsItem

-----------------------------------------------------------------------------
(* The way of the checkpoint. *)

Targets == [ring : Nat, after : Nat]
FrameWork == [kind : {"frame"}, scan : BOOLEAN, live : BOOLEAN, ring : Nat, from : Nat, to : Nat]
ReadWork == [kind : {"v2"}, scan : BOOLEAN]
Works == FrameWork \cup ReadWork
Positions == [pc : {"idle", "restore", "subscribing"}] \cup [pc : {"again"}, invalid : BOOLEAN]
             \cup [pc : {"transition", "read"}, ring : Nat, after : Nat, rebased : BOOLEAN,
                   invalid : BOOLEAN]
             \cup [pc : {"frame", "stale"}, target : Targets]
Feeds == {NoFeed} \cup [on : {TRUE}, ring : Nat, pos : Nat, mine : BOOLEAN, gapped : BOOLEAN]
Candidates == [ring : Nat, after : Nat, via : {"tail", "scan", "reconnect"}]
Subscribers == [feed : Feeds, cand : {None} \cup Candidates, wanted : BOOLEAN, timer : BOOLEAN]

Shape ==
  /\ core \in [origins : Seq(Nat), first : Nat, last : Nat]
  /\ ckpt \in {None} \cup Targets
  /\ lane \in Seq(Items)
  /\ \A g \in gaps : g.after \in Nat /\ g.resume \in Nat
  /\ tail \in Seq(Works) /\ at \in Positions
  /\ cur \in {None} \cup Targets /\ susp \in BOOLEAN /\ sub \in Subscribers

\* Core's rings begin at events that Core still held, and the first ring is the whole session.
\* Only forgotten events are declared lost, and Core wrote what the lane holds.
CoreOrder ==
  /\ 1 <= core.first /\ core.first <= core.last + 1 /\ core.last <= MaxEvents
  /\ Ring >= 1
  /\ \A r \in 1..Ring : 1 <= FirstOf(r) /\ FirstOf(r) <= core.first
  /\ ckpt = None => core.origins = <<1>> /\ \A g \in gaps : g.resume <= g.after
  /\ \A g \in gaps : g.resume <= core.first \/ g.resume <= g.after
  /\ LaneEvents \subseteq 1..core.last

\* The ring of the lane.  Nothing that comes from the subscription is ahead of it, or of Core.
LaneRing == IF ckpt = None THEN 1 ELSE ckpt.ring
Behind(r) == r \in 1..LaneRing
FrameBehind(f) ==
  f.kind = "frame" => Behind(f.ring) /\ 1 <= f.from /\ f.from <= f.to /\ f.to <= core.last

RingsBehind ==
  /\ ckpt # None => ckpt.ring \in 1..Ring /\ Pos(ckpt.ring, ckpt.after) <= core.last
  /\ cur # None => Behind(cur.ring)
  /\ sub.cand # None => Behind(sub.cand.ring) /\ Pos(sub.cand.ring, sub.cand.after) <= core.last
  /\ sub.feed.on => Behind(sub.feed.ring) /\ sub.feed.pos <= core.last
  /\ \A i \in DOMAIN tail : FrameBehind(tail[i])

\* The head of the tail is what 'at' says, and a read stands at the checkpoint.
HeadIsAt ==
  /\ at.pc # "idle" => tail # <<>>
  /\ at.pc \in {"again", "transition", "read", "restore"} => Head(tail).kind = "v2"
  /\ at.pc \in {"frame", "stale"} => Head(tail).kind = "frame" /\ at.target.ring = Head(tail).ring
  /\ at.pc = "transition" => ckpt # None /\ ckpt.ring < at.ring
  /\ at.pc = "read" => \/ ckpt = None /\ at.ring = 1 /\ at.after = Start
                       \/ ckpt = Target(at.ring, at.after)
  /\ at.pc = "stale" => ckpt = at.target
  /\ sub.cand # None /\ sub.cand.via = "tail" => at.pc = "subscribing"

Base == Shape /\ CoreOrder /\ RingsBehind /\ HeadIsAt

-----------------------------------------------------------------------------
(* No event is skipped. *)

\* The events that are in the lane or declared lost, and those that are only declared lost.
Dealt == {e \in Event : e \in LaneEvents \/ Covered(e)}
Lost == {e \in Event : Covered(e) /\ e \notin LaneEvents}
Prefix(p) == 1..p \subseteq Dealt
Fresh(p) == \A e \in Lost : e <= p

CkptPos == Pos(ckpt.ring, ckpt.after)
CurPos == Pos(cur.ring, cur.after)
CandPos == Pos(sub.cand.ring, sub.cand.after)
TargetPos == Pos(at.target.ring, at.target.after)

NoHoles == \A e \in Dealt : Prefix(e)

\* The checkpoint follows every lost event; a ring that the lane has yet to enter begins after them.
CheckpointIsDone ==
  ckpt # None => /\ Prefix(CkptPos) /\ Fresh(CkptPos)
                 /\ ckpt.ring # Ring => \A e \in Lost : e < FirstOf(Ring)

\* So does what is subscribed from.
TargetsAreDone == (cur # None => Prefix(CurPos)) /\ (sub.cand # None => Prefix(CandPos))

\* Frames of the lane's ring: those that may be stored yet, and the one that runs.
Running == at.pc = "frame"
IsFrame(i) == tail[i].kind = "frame" /\ tail[i].ring = LaneRing
LiveFrame(i) == IsFrame(i) /\ tail[i].live
Carries(i) == IsFrame(i) /\ (tail[i].live \/ (i = 1 /\ Running))
RunningFrame == Running /\ IsFrame(1)

\* What lies before p is dealt with, or will be once the first n pieces of work are.
Supported(n, p) == Prefix(p) \/ \E j \in 1..n : Carries(j) /\ tail[j].to >= p

\* The feed may still be stored.
Current == cur # None /\ cur.ring = LaneRing
MyFeed == sub.feed.on /\ sub.feed.mine /\ sub.feed.ring = LaneRing

\* Frames continue what is stored or the frames before them, and so does the feed.
Chained == \A i \in DOMAIN tail : LiveFrame(i) => Supported(i - 1, tail[i].from - 1)
FeedChained == Supported(Len(tail), sub.feed.pos)

FramesChain ==
  /\ ~susp /\ (Current \/ RunningFrame) => Chained
  /\ ~susp /\ Current /\ MyFeed => FeedChained
  /\ RunningFrame => Prefix(tail[1].from - 1)
  /\ ~susp /\ RunningFrame /\ MyFeed => Current
  /\ at.pc \in {"stale", "subscribing"} /\ Head(tail).kind = "frame" => susp \/ ~Head(tail).live

\* A target that follows every lost event has no frame before one of them.
FramesAreFresh ==
  /\ Current /\ Fresh(CurPos) => \A i \in DOMAIN tail : LiveFrame(i) => Fresh(tail[i].from - 1)
  /\ RunningFrame /\ Fresh(TargetPos) =>
       \A i \in DOMAIN tail : Carries(i) => Fresh(tail[i].from - 1)

\* No frame fails to be stored.
FramesAreStored == \A s \in Scenarios : s.frame = 0
NoFrameFails == "frame" \in DOMAIN left /\ left.frame = 0

WayInv == NoFrameFails /\ NoHoles /\ CheckpointIsDone /\ TargetsAreDone /\ FramesChain /\ FramesAreFresh

-----------------------------------------------------------------------------
(* A batch in Core's order. *)

Ascending(s, S) ==
  /\ s \in [1..Cardinality(S) -> S]
  /\ \A e \in S : \E i \in DOMAIN s : s[i] = e
  /\ \A i, j \in DOMAIN s : i < j => s[i] < s[j]

\* A bounded set of event numbers can be put in order.
LEMMA CanBeSorted ==
    ASSUME NEW b \in Nat, NEW S \in SUBSET (0..(b - 1))
    PROVE  IsFiniteSet(S) /\ \E s : Ascending(s, S)
  <1> DEFINE Below(k) == {e \in S : e < k}
             Bad == {k \in Nat : ~(\E s : Ascending(s, Below(k)))}
  <1>0. \A e \in S : e \in Nat /\ e < b
    OBVIOUS
  <1>1. IsFiniteSet(S)
    <2>1. IsFiniteSet(0..(b - 1))
      BY FS_Interval
    <2> QED BY <2>1, FS_Subset
  <1>2. Below(b) = S
    BY <1>0
  <1>3. SUFFICES ASSUME Bad # {} PROVE FALSE
    BY <1>1, <1>2
  <1>4. PICK k \in Bad : \A j \in Bad : ~(j < k)
    <2>1. PICK k \in Bad : \A j \in Bad : <<j, k>> \notin OpToRel(<, Nat)
      BY <1>3, NatLessThanWellFounded, WFMin
    <2> QED BY <2>1 DEF OpToRel
  <1>5. k \in Nat /\ \A s : ~Ascending(s, Below(k))
    BY <1>4
  <1> HIDE DEF Bad
  <1>6. CASE k = 0
    <2>1. Below(k) = {}
      <3>1. \A e \in S : ~(e < k)
        BY <1>0, <1>6
      <3> QED BY <3>1
    <2>2. Cardinality({}) = 0 /\ 1..0 = {}
      BY FS_EmptySet
    <2>3. Ascending([i \in {} |-> 0], {})
      BY <2>2 DEF Ascending
    <2> QED BY <2>1, <2>3, <1>5
  <1>7. CASE k > 0
    <2>1. k - 1 \in Nat /\ k - 1 < k
      BY <1>7, <1>5
    <2>2. PICK s : Ascending(s, Below(k - 1))
      BY <2>1, <1>4 DEF Bad
    <2>3. CASE k - 1 \notin S
      <3>1. \A e \in S : e < k <=> e < k - 1
        BY <2>3, <1>0, <1>5
      <3>2. Below(k) = Below(k - 1)
        BY <3>1
      <3> QED BY <3>2, <2>2, <1>5
    <2>4. CASE k - 1 \in S
      <3> DEFINE n == Cardinality(Below(k - 1))
                 t == [i \in 1..(n + 1) |-> IF i = n + 1 THEN k - 1 ELSE s[i]]
      <3>1. Below(k) = Below(k - 1) \cup {k - 1} /\ k - 1 \notin Below(k - 1)
        <4>1. \A e \in S : e < k <=> (e < k - 1 \/ e = k - 1)
          BY <1>0, <1>5
        <4>2. ~(k - 1 < k - 1)
          BY <1>5
        <4> QED BY <4>1, <4>2, <2>4
      <3>2. IsFiniteSet(Below(k - 1))
        BY <1>1, FS_Subset
      <3>3. n \in Nat /\ Cardinality(Below(k)) = n + 1
        BY <3>1, <3>2, FS_AddElement, FS_CardinalityType
      <3>4. s \in [1..n -> Below(k - 1)] /\ (\A e \in Below(k - 1) : \E i \in 1..n : s[i] = e)
            /\ (\A i, j \in 1..n : i < j => s[i] < s[j])
        BY <2>2 DEF Ascending
      <3> HIDE DEF n
      <3>5. t \in [1..(n + 1) -> Below(k)]
        BY <3>1, <3>3, <3>4
      <3>6. \A e \in Below(k) : \E i \in 1..(n + 1) : t[i] = e
        <4> SUFFICES ASSUME NEW e \in Below(k) PROVE \E i \in 1..(n + 1) : t[i] = e
          OBVIOUS
        <4>1. CASE e = k - 1
          <5>1. n + 1 \in 1..(n + 1) /\ t[n + 1] = e
            BY <4>1, <3>3
          <5> QED BY <5>1
        <4>2. CASE e \in Below(k - 1)
          <5>1. PICK i \in 1..n : s[i] = e
            BY <4>2, <3>4
          <5>2. i \in 1..(n + 1) /\ t[i] = e
            BY <5>1, <3>3
          <5> QED BY <5>2
        <4> QED BY <4>1, <4>2, <3>1
      <3>7. \A i, j \in 1..(n + 1) : i < j => t[i] < t[j]
        <4> SUFFICES ASSUME NEW i \in 1..(n + 1), NEW j \in 1..(n + 1), i < j PROVE t[i] < t[j]
          OBVIOUS
        <4>1. i \in 1..n /\ t[i] = s[i] /\ s[i] < k - 1 /\ s[i] \in Nat
          <5>1. i \in 1..n /\ i # n + 1
            BY <3>3
          <5>2. s[i] \in Below(k - 1)
            BY <5>1, <3>4
          <5> QED BY <5>1, <5>2, <1>0, <3>3
        <4>2. CASE j = n + 1
          BY <4>1, <4>2
        <4>3. CASE j # n + 1
          BY <4>1, <4>3, <3>3, <3>4
        <4> QED BY <4>2, <4>3
      <3>8. Ascending(t, Below(k))
        BY <3>3, <3>5, <3>6, <3>7 DEF Ascending
      <3> QED BY <3>8, <1>5
    <2> QED BY <2>3, <2>4
  <1> QED BY <1>5, <1>6, <1>7

\* The unseen events of a batch are in Core's order.
LEMMA UnseenInOrder ==
    ASSUME NEW from \in Nat, NEW to \in Nat
    PROVE  Ascending(Unseen(from, to), (from..to) \ LaneEvents)
  <1> DEFINE S == (from..to) \ LaneEvents
  <1>1. S \in SUBSET (0..((to + 1) - 1)) /\ to + 1 \in Nat
    OBVIOUS
  <1>2. \E s : Ascending(s, S)
    BY <1>1, CanBeSorted
  <1> QED BY <1>2 DEF Unseen, Ascending

\* Consecutive events have one order.
LEMMA RowInOrder ==
    ASSUME NEW a \in Nat, NEW b \in Nat, a <= b, NEW s, Ascending(s, (a + 1)..b)
    PROVE  s = [i \in 1..(b - a) |-> a + i]
  <1> DEFINE n == b - a
             Bad == {i \in 1..n : s[i] # a + i}
  <1>1. Cardinality((a + 1)..b) = n /\ n \in Nat
    <2>1. \A x, y \in Int : Cardinality(x..y) = IF x > y THEN 0 ELSE y - x + 1
      BY FS_Interval
    <2>2. a + 1 \in Int /\ b \in Int
      OBVIOUS
    <2>3. Cardinality((a + 1)..b) = IF a + 1 > b THEN 0 ELSE b - (a + 1) + 1
      BY <2>1, <2>2
    <2> QED BY <2>3
  <1>2. /\ s \in [1..n -> (a + 1)..b]
        /\ \A e \in (a + 1)..b : \E i \in 1..n : s[i] = e
        /\ \A i, j \in 1..n : i < j => s[i] < s[j]
    BY <1>1 DEF Ascending
  <1>3. SUFFICES ASSUME Bad # {} PROVE FALSE
    BY <1>2
  <1>4. PICK i \in Bad : \A j \in Bad : ~(j < i)
    <2>1. PICK i \in Bad : \A j \in Bad : <<j, i>> \notin OpToRel(<, Nat)
      <3>1. Bad \subseteq Nat
        BY <1>1
      <3> QED BY <3>1, <1>3, NatLessThanWellFounded, WFMin
    <2>2. \A j \in Bad : j \in Nat
      BY <1>1
    <2> HIDE DEF Bad
    <2> QED BY <2>1, <2>2 DEF OpToRel
  <1> HIDE DEF n
  <1>5. i \in 1..n /\ i \in Nat /\ s[i] # a + i /\ s[i] \in (a + 1)..b
    BY <1>1, <1>2, <1>4
  <1>6. \A j \in 1..n : j < i => s[j] = a + j
    BY <1>4
  <1>7. s[i] > a + i
    <2>1. CASE i = 1
      BY <2>1, <1>5
    <2>2. CASE i > 1
      <3>1. i - 1 \in 1..n /\ i - 1 < i
        BY <2>2, <1>5, <1>1
      <3>2. s[i - 1] < s[i] /\ s[i - 1] = a + (i - 1)
        BY <3>1, <1>2, <1>5, <1>6
      <3> QED BY <3>2, <1>5
    <2> QED BY <2>1, <2>2, <1>5
  <1>8. a + i \in (a + 1)..b
    BY <1>5, <1>1 DEF n
  <1>9. PICK j \in 1..n : s[j] = a + i
    BY <1>8, <1>2
  <1>10. j < i \/ j = i \/ i < j
    BY <1>1, <1>5
  <1>11. CASE j < i
    BY <1>11, <1>6, <1>9, <1>1, <1>5
  <1>12. CASE j = i
    BY <1>12, <1>9, <1>5
  <1>13. CASE i < j
    <2>1. s[i] < s[j]
      BY <1>13, <1>2, <1>5
    <2> QED BY <2>1, <1>7, <1>9, <1>5
  <1> QED BY <1>10, <1>11, <1>12, <1>13

\* What a batch does to the lane.
NewItem(i) == /\ lane'[i] \in Items /\ lane'[i].st \in {"pending", "ignored"} /\ lane'[i].tries = 0
              /\ lane'[i].ev \notin LaneEvents

\* A batch adds the events that the lane does not hold, and leaves its items alone.
LEMMA BatchIsStored ==
    ASSUME lane \in Seq(Items), NEW r, NEW from \in Nat, NEW to \in Nat, ingestBatch(r, from, to)
    PROVE  /\ lane' \in Seq(Items) /\ Len(lane') >= Len(lane)
           /\ \A i \in DOMAIN lane : i \in DOMAIN lane' /\ lane'[i] = lane[i]
           /\ \A i \in DOMAIN lane' : i \in DOMAIN lane \/ NewItem(i)
           /\ LaneEvents' = LaneEvents \cup (from..to)
           /\ EventsOnce => EventsOnce'
  <1> DEFINE S == (from..to) \ LaneEvents
             u == Unseen(from, to)
             n == Cardinality(S)
             m == Len(lane)
  <1>1. Ascending(u, S)
    BY UnseenInOrder
  <1>2. n \in Nat
    <2>1. IsFiniteSet(from..to)
      BY FS_Interval
    <2>2. IsFiniteSet(S)
      BY <2>1, FS_Subset
    <2> QED BY <2>2, FS_CardinalityType
  <1>3. u \in [1..n -> S] /\ (\A e \in S : \E i \in 1..n : u[i] = e)
        /\ (\A i, j \in 1..n : i < j => u[i] < u[j])
    BY <1>1 DEF Ascending
  <1>4. Len(u) = n
    <2> HIDE DEF u, n, S
    <2> QED BY <1>2, <1>3
  <1>5. lane' = lane \o [i \in 1..Len(u) |-> laneItem(u[i])]
    BY DEF ingestBatch
  <1> DEFINE v == [i \in 1..n |-> laneItem(u[i])]
  <1>6. \A e \in Nat : laneItem(e) \in Items /\ laneItem(e).ev = e
                       /\ laneItem(e).st \in {"pending", "ignored"} /\ laneItem(e).tries = 0
    BY DEF laneItem, Items
  <1>7. S \subseteq Nat
    OBVIOUS
  <1> HIDE DEF S, u, n
  <1>8. \A i \in 1..n : u[i] \in S /\ v[i] = laneItem(u[i]) /\ v[i] \in Items
    BY <1>3, <1>6, <1>7
  <1>9. v \in Seq(Items) /\ Len(v) = n
    BY <1>2, <1>8
  <1>10. lane' = lane \o v
    BY <1>4, <1>5
  <1> HIDE DEF v
  <1>11. lane' \in Seq(Items) /\ Len(lane') = m + n /\ m \in Nat
    <2>1. m \in Nat
      OBVIOUS
    <2>2. lane \o v \in Seq(Items)
      BY <1>9
    <2>3. Len(lane \o v) = Len(lane) + Len(v)
      BY <1>9
    <2> QED BY <2>1, <2>2, <2>3, <1>9, <1>10
  <1>12. \A i \in 1..m : lane'[i] = lane[i]
    BY <1>10, <1>9, <1>2
  <1>13. \A i \in 1..n : lane'[m + i] = v[i]
    BY <1>10, <1>9, <1>2
  <1>14. DOMAIN lane = 1..m /\ DOMAIN lane' = 1..(m + n)
    BY <1>11
  <1>15. \A i \in DOMAIN lane' : i \in DOMAIN lane \/ (i - m \in 1..n /\ lane'[i] = v[i - m])
    <2> SUFFICES ASSUME NEW i \in 1..(m + n), i \notin 1..m
                 PROVE  i - m \in 1..n /\ lane'[i] = v[i - m]
      BY <1>14
    <2>1. i - m \in 1..n /\ i = m + (i - m)
      BY <1>2, <1>11
    <2> QED BY <2>1, <1>13
  <1>16. \A i \in DOMAIN lane' : i \in DOMAIN lane \/ NewItem(i)
    <2> SUFFICES ASSUME NEW i \in DOMAIN lane', i \notin DOMAIN lane PROVE NewItem(i)
      OBVIOUS
    <2>1. i - m \in 1..n /\ lane'[i] = v[i - m]
      BY <1>15
    <2>2. v[i - m] = laneItem(u[i - m]) /\ u[i - m] \in S /\ v[i - m] \in Items
      BY <2>1, <1>8
    <2>3. u[i - m] \notin LaneEvents /\ u[i - m] \in Nat
      BY <2>2, <1>7 DEF S
    <2> QED BY <2>1, <2>2, <2>3, <1>6 DEF NewItem
  <1>17. LaneEvents' = LaneEvents \cup (from..to)
    <2>1. ASSUME NEW e \in LaneEvents' PROVE e \in LaneEvents \cup (from..to)
      <3>1. PICK i \in DOMAIN lane' : lane'[i].ev = e
        BY <2>1 DEF LaneEvents
      <3>2. CASE i \in DOMAIN lane
        BY <3>1, <3>2, <1>12, <1>14 DEF LaneEvents
      <3>3. CASE i \notin DOMAIN lane
        <4>1. i - m \in 1..n /\ lane'[i] = v[i - m]
          BY <1>15, <3>3
        <4>2. v[i - m].ev = u[i - m] /\ u[i - m] \in S
          BY <4>1, <1>8, <1>6, <1>7
        <4> QED BY <4>1, <4>2, <3>1 DEF S
      <3> QED BY <3>2, <3>3
    <2>2. ASSUME NEW e \in LaneEvents PROVE e \in LaneEvents'
      BY <2>2, <1>12, <1>14, <1>2, <1>11 DEF LaneEvents
    <2>3. ASSUME NEW e \in S PROVE e \in LaneEvents'
      <3>1. PICK i \in 1..n : u[i] = e
        BY <2>3, <1>3
      <3>2. m + i \in DOMAIN lane' /\ lane'[m + i] = v[i] /\ v[i].ev = e
        BY <3>1, <1>13, <1>14, <1>11, <1>2, <1>8, <1>6, <1>7
      <3> QED BY <3>2 DEF LaneEvents
    <2> QED BY <2>1, <2>2, <2>3 DEF S
  <1>18. ASSUME EventsOnce PROVE EventsOnce'
    <2> SUFFICES ASSUME NEW i \in DOMAIN lane', NEW j \in DOMAIN lane', lane'[i].ev = lane'[j].ev
                 PROVE  i = j
      BY DEF EventsOnce
    <2>1. CASE i \in DOMAIN lane /\ j \in DOMAIN lane
      BY <2>1, <1>18, <1>12, <1>14 DEF EventsOnce
    <2>2. CASE i \in DOMAIN lane /\ j \notin DOMAIN lane
      BY <2>2, <1>12, <1>14, <1>16 DEF LaneEvents, NewItem
    <2>3. CASE i \notin DOMAIN lane /\ j \in DOMAIN lane
      BY <2>3, <1>12, <1>14, <1>16 DEF LaneEvents, NewItem
    <2>4. CASE i \notin DOMAIN lane /\ j \notin DOMAIN lane
      <3>1. i - m \in 1..n /\ lane'[i] = v[i - m] /\ j - m \in 1..n /\ lane'[j] = v[j - m]
        BY <2>4, <1>15
      <3>2. u[i - m] = u[j - m] /\ u[i - m] \in Nat
        <4>1. v[i - m] = laneItem(u[i - m]) /\ v[j - m] = laneItem(u[j - m])
              /\ u[i - m] \in S /\ u[j - m] \in S
          BY <3>1, <1>8
        <4>2. u[i - m] \in Nat /\ u[j - m] \in Nat
          BY <4>1, <1>7
        <4>3. v[i - m].ev = u[i - m] /\ v[j - m].ev = u[j - m]
          BY <4>1, <4>2, <1>6
        <4>4. v[i - m].ev = v[j - m].ev
          BY <3>1
        <4> QED BY <4>2, <4>3, <4>4
      <3>3. i - m = j - m
        BY <3>1, <3>2, <1>3, <1>2
      <3> QED BY <3>3, <1>11, <1>14, <1>2
    <2> QED BY <2>1, <2>2, <2>3, <2>4
  <1> QED BY <1>11, <1>12, <1>14, <1>16, <1>17, <1>18, <1>2

-----------------------------------------------------------------------------
(* The kinds of values. *)

\* None is neither a target nor a candidate.
LEMMA NoneIsNothing ==
    /\ \A t \in Targets : t # None
    /\ \A c \in Candidates : c # None
  <1>1. "none" \in DOMAIN None
    BY DEF None
  <1>2. \A t \in Targets : "none" \notin DOMAIN t
    BY DEF Targets
  <1>3. \A c \in Candidates : "none" \notin DOMAIN c
    BY DEF Candidates
  <1> QED BY <1>1, <1>2, <1>3

\* A target keeps its ring and its cursor.
LEMMA TargetType ==
    ASSUME NEW r \in Nat, NEW c \in Nat
    PROVE  Target(r, c) \in Targets /\ Target(r, c).ring = r /\ Target(r, c).after = c
           /\ Target(r, c) # None
  BY NoneIsNothing DEF Target, Targets

\* What is known of 'at' by its pc.
LEMMA PositionTypes ==
    /\ Idle \in Positions
    /\ \A p \in Positions :
         /\ p.pc \in {"transition", "read"} =>
              p \in [pc : {"transition", "read"}, ring : Nat, after : Nat, rebased : BOOLEAN,
                     invalid : BOOLEAN]
         /\ p.pc \in {"frame", "stale"} => p \in [pc : {"frame", "stale"}, target : Targets]
         /\ p.pc = "again" => p \in [pc : {"again"}, invalid : BOOLEAN]
  BY DEF Idle, Positions

\* Work is a frame or a read.
LEMMA WorkTypes ==
    /\ \A w \in Works : w.kind = "frame" => w \in FrameWork
    /\ \A w \in Works : w.kind = "v2" => w \in ReadWork
    /\ \A w \in Works : w.kind \in {"frame", "v2"}
  BY DEF Works, FrameWork, ReadWork

\* A feed that is on has a ring and a position.
LEMMA FeedTypes ==
    /\ \A f \in Feeds : f.on \in BOOLEAN
    /\ \A f \in Feeds : f.on => f \in [on : {TRUE}, ring : Nat, pos : Nat, mine : BOOLEAN,
                                       gapped : BOOLEAN]
    /\ NoFeed \in Feeds /\ ~NoFeed.on
  <1>1. NoFeed.on = FALSE
    BY DEF NoFeed
  <1>2. \A f \in Feeds : f = NoFeed \/ f \in [on : {TRUE}, ring : Nat, pos : Nat, mine : BOOLEAN,
                                             gapped : BOOLEAN]
    BY DEF Feeds
  <1>3. NoFeed \in Feeds
    BY DEF Feeds
  <1> HIDE DEF NoFeed
  <1> QED BY <1>1, <1>2, <1>3

\* A cursor stands before the first event of its ring, or at an event.
LEMMA PosType ==
    ASSUME Shape, CoreOrder, NEW r \in 1..Ring, NEW c \in Nat
    PROVE  r \in Nat /\ Pos(r, c) \in Nat /\ FirstOf(r) \in Nat
           /\ (c = Start => Pos(r, c) = FirstOf(r) - 1) /\ (c # Start => Pos(r, c) = c)
  <1>1. core.origins \in Seq(Nat) /\ Ring = Len(core.origins)
    BY DEF Shape, Ring
  <1>2. FirstOf(r) \in Nat /\ FirstOf(r) >= 1 /\ r \in Nat
    BY <1>1 DEF CoreOrder, FirstOf
  <1> QED BY <1>2 DEF Pos, Start

\* Core serves its latest ring.
LEMMA RingType == ASSUME Shape, CoreOrder PROVE Ring \in Nat /\ Ring >= 1 /\ Ring \in 1..Ring
  BY DEF Shape, CoreOrder, Ring

\* Taking the head off the tail, and adding to it.
LEMMA Popped ==
    ASSUME NEW q \in Seq(Works), q # <<>>
    PROVE  /\ Tail(q) \in Seq(Works) /\ Len(q) \in Nat /\ Len(q) >= 1
           /\ DOMAIN q = 1..Len(q) /\ Len(Tail(q)) = Len(q) - 1
           /\ Head(q) = q[1] /\ Head(q) \in Works
           /\ DOMAIN Tail(q) = 1..(Len(q) - 1)
           /\ \A i \in DOMAIN Tail(q) : i + 1 \in DOMAIN q /\ Tail(q)[i] = q[i + 1]
  OBVIOUS

\* Adding to the tail keeps what is there.
LEMMA Appended ==
    ASSUME NEW q \in Seq(Works), NEW w \in Works
    PROVE  /\ Append(q, w) \in Seq(Works) /\ Len(q) \in Nat
           /\ Len(Append(q, w)) = Len(q) + 1
           /\ DOMAIN Append(q, w) = 1..(Len(q) + 1) /\ DOMAIN q = 1..Len(q)
           /\ Append(q, w)[Len(q) + 1] = w
           /\ \A i \in DOMAIN q : Append(q, w)[i] = q[i]
           /\ q # <<>> => Head(Append(q, w)) = Head(q)
           /\ Append(q, w) # <<>>
  <1>1. Append(q, w) \in Seq(Works) /\ Len(q) \in Nat /\ Len(Append(q, w)) = Len(q) + 1
    OBVIOUS
  <1>2. DOMAIN Append(q, w) = 1..(Len(q) + 1) /\ DOMAIN q = 1..Len(q)
    BY <1>1
  <1>3. Append(q, w)[Len(q) + 1] = w
    OBVIOUS
  <1>4. \A i \in DOMAIN q : Append(q, w)[i] = q[i]
    OBVIOUS
  <1>5. Append(q, w) # <<>>
    BY <1>1
  <1>6. ASSUME q # <<>> PROVE Head(Append(q, w)) = Head(q)
    <2>1. 1 \in DOMAIN q /\ Head(q) = q[1]
      BY <1>6
    <2>2. Head(Append(q, w)) = Append(q, w)[1]
      BY <1>1, <1>5
    <2> QED BY <2>1, <2>2, <1>4
  <1> QED BY <1>1, <1>2, <1>3, <1>4, <1>5, <1>6

\* Outdating the frames only takes their life.
LEMMA OutdatedTail ==
    ASSUME NEW q \in Seq(Works)
    PROVE  /\ Outdated(q) \in Seq(Works) /\ DOMAIN Outdated(q) = DOMAIN q
           /\ Len(Outdated(q)) = Len(q)
           /\ \A i \in DOMAIN q : Outdated(q)[i].kind = q[i].kind
           /\ \A i \in DOMAIN q : q[i].kind = "frame" =>
                /\ ~Outdated(q)[i].live /\ Outdated(q)[i].ring = q[i].ring
                /\ Outdated(q)[i].from = q[i].from /\ Outdated(q)[i].to = q[i].to
  <1>1. DOMAIN q = 1..Len(q) /\ Len(q) \in Nat /\ \A i \in DOMAIN q : q[i] \in Works
    OBVIOUS
  <1>2. DOMAIN Outdated(q) = 1..Len(q)
    BY <1>1 DEF Outdated
  <1>3. ASSUME NEW i \in 1..Len(q)
        PROVE  /\ Outdated(q)[i] \in Works /\ Outdated(q)[i].kind = q[i].kind
               /\ q[i].kind = "frame" =>
                    /\ ~Outdated(q)[i].live /\ Outdated(q)[i].ring = q[i].ring
                    /\ Outdated(q)[i].from = q[i].from /\ Outdated(q)[i].to = q[i].to
    <2>1. CASE q[i].kind = "frame"
      <3>1. q[i] \in FrameWork
        BY <2>1, <1>1, <1>3, WorkTypes
      <3>2. Outdated(q)[i] = [q[i] EXCEPT !.live = FALSE]
        BY <2>1, <1>1, <1>3 DEF Outdated
      <3> QED BY <3>1, <3>2 DEF FrameWork, Works
    <2>2. CASE q[i].kind # "frame"
      <3>2. Outdated(q)[i] = q[i]
        BY <2>2, <1>1, <1>3 DEF Outdated
      <3> QED BY <3>2, <2>2, <1>1, <1>3
    <2> QED BY <2>1, <2>2
  <1>4. Outdated(q) \in [1..Len(q) -> Works]
    BY <1>2, <1>3 DEF Outdated
  <1> QED BY <1>1, <1>2, <1>3, <1>4

-----------------------------------------------------------------------------
(* The rings, the tail and the subscription, whatever fails. *)

\* The lane's ring is one of Core's.
LEMMA LaneRingType == ASSUME Base PROVE LaneRing \in Nat /\ LaneRing \in 1..Ring
  BY RingType DEF Base, LaneRing, RingsBehind

\* So is what is behind it.
LEMMA BehindIsRing == ASSUME Base, NEW r, Behind(r) PROVE r \in 1..Ring /\ r \in Nat
  BY LaneRingType, RingType DEF Base, Behind

\* A step that leaves Core and the lane alone.
LEMMA LaneStands ==
    ASSUME Base, UNCHANGED <<core, ckpt>>, lane' \in Seq(Items), LaneEvents' = LaneEvents,
           \A g \in gaps' : g \in gaps \/ (g.after \in Nat /\ g.resume = g.after),
           tail' \in Seq(Works), at' \in Positions, cur' \in {None} \cup Targets,
           susp' \in BOOLEAN, sub' \in Subscribers,
           cur' # None => Behind(cur'.ring),
           sub'.cand # None =>
             Behind(sub'.cand.ring) /\ Pos(sub'.cand.ring, sub'.cand.after) <= core.last,
           sub'.feed.on => Behind(sub'.feed.ring) /\ sub'.feed.pos <= core.last,
           \A i \in DOMAIN tail' : FrameBehind(tail'[i]),
           HeadIsAt'
    PROVE  Base'
  <1>1. Shape'
    BY DEF Base, Shape
  <1>2. CoreOrder'
    BY DEF Base, CoreOrder, Ring, FirstOf
  <1>3. RingsBehind'
    BY DEF Base, RingsBehind, Ring, Pos, FirstOf, Behind, LaneRing, FrameBehind
  <1> QED BY <1>1, <1>2, <1>3 DEF Base

\* Without its head the tail keeps its frames behind the lane.
LEMMA PoppedFrames ==
    ASSUME Base, tail # <<>>
    PROVE  Tail(tail) \in Seq(Works) /\ \A i \in DOMAIN Tail(tail) : FrameBehind(Tail(tail)[i])
  <1>1. tail \in Seq(Works)
    BY DEF Base, Shape
  <1>2. \A i \in DOMAIN tail : FrameBehind(tail[i])
    BY DEF Base, RingsBehind
  <1> QED BY <1>1, <1>2, Popped

\* With one more piece of work too.
LEMMA AppendedFrames ==
    ASSUME Base, NEW w \in Works, FrameBehind(w)
    PROVE  /\ Append(tail, w) \in Seq(Works)
           /\ \A i \in DOMAIN Append(tail, w) : FrameBehind(Append(tail, w)[i])
  <1>1. tail \in Seq(Works)
    BY DEF Base, Shape
  <1>2. \A i \in DOMAIN tail : FrameBehind(tail[i])
    BY DEF Base, RingsBehind
  <1> QED BY <1>1, <1>2, Appended

\* The work at the head is done, and nobody subscribes for it.
LEMMA WorkEnds ==
    ASSUME Base, tail # <<>>, at.pc # "subscribing", tail' = Tail(tail), at' = Idle,
           UNCHANGED <<core, ckpt, lane, gaps, cur, susp, sub>>
    PROVE  Base'
  <1>1. tail' \in Seq(Works) /\ \A i \in DOMAIN tail' : FrameBehind(tail'[i])
    BY PoppedFrames
  <1>2. HeadIsAt'
    BY DEF Base, HeadIsAt, Idle
  <1> QED BY <1>1, <1>2, PositionTypes, LaneStands DEF Base, Shape, RingsBehind, LaneEvents

\* A step that only concerns what the invariant does not speak of.
LEMMA NothingMoves ==
    ASSUME Base, UNCHANGED <<core, ckpt, gaps, tail, at, cur, susp, sub>>,
           lane' \in Seq(Items), LaneEvents' = LaneEvents
    PROVE  Base'
  <1>1. HeadIsAt'
    BY DEF Base, HeadIsAt
  <1> QED BY <1>1, LaneStands DEF Base, Shape, RingsBehind

\* Another read is queued; the subscription may have been left.
LEMMA ReadIsQueued ==
    ASSUME Base, NEW w \in ReadWork, tail' = Append(tail, w),
           UNCHANGED <<core, ckpt, lane, gaps, at>>,
           cur' \in {cur, None}, susp' \in BOOLEAN, sub' \in Subscribers,
           sub'.cand = sub.cand,
           sub'.feed.on => sub.feed.on /\ sub'.feed.ring = sub.feed.ring /\ sub'.feed.pos = sub.feed.pos
    PROVE  Base'
  <1>0. w \in Works /\ w.kind = "v2"
    BY DEF Works, ReadWork
  <1>1. tail' \in Seq(Works) /\ \A i \in DOMAIN tail' : FrameBehind(tail'[i])
    BY <1>0, AppendedFrames DEF FrameBehind
  <1>2. tail \in Seq(Works)
    BY DEF Base, Shape
  <1>3. tail # <<>> => Head(tail') = Head(tail) /\ tail' # <<>>
    BY <1>0, <1>2, Appended
  <1>4. HeadIsAt'
    BY <1>3 DEF Base, HeadIsAt
  <1> QED BY <1>1, <1>4, LaneStands DEF Base, Shape, RingsBehind, LaneEvents

\* A target that is prepared stands at the checkpoint, or at the start of the first ring.
LEMMA PreparedTarget ==
    ASSUME Base, prepareMultiplexTarget # None
    PROVE  /\ prepareMultiplexTarget \in Targets /\ Behind(prepareMultiplexTarget.ring)
           /\ Pos(prepareMultiplexTarget.ring, prepareMultiplexTarget.after) <= core.last
           /\ \/ ckpt # None /\ prepareMultiplexTarget = ckpt
              \/ ckpt = None /\ Pos(prepareMultiplexTarget.ring, prepareMultiplexTarget.after) = 0
  <1>1. CASE ckpt = None
    <2>1. core.origins = <<1>> /\ Ring = 1 /\ FirstOf(1) = 1
      <3>1. core.origins = <<1>>
        BY <1>1 DEF Base, CoreOrder
      <3> QED BY <3>1 DEF Ring, FirstOf
    <2>2. prepareMultiplexTarget = Target(1, 0)
      BY <1>1, <2>1 DEF prepareMultiplexTarget, attach, Start
    <2>3. Pos(1, 0) = 0 /\ core.last \in Nat
      BY <2>1 DEF Pos, Start, Base, Shape
    <2> QED BY <1>1, <2>2, <2>3, TargetType DEF Behind, LaneRing
  <1>2. CASE ckpt # None
    <2>1. ckpt \in Targets
      BY <1>2 DEF Base, Shape
    <2>2. ckpt.ring = Ring /\ prepareMultiplexTarget = Target(Ring, ckpt.after)
      BY <1>2 DEF prepareMultiplexTarget, attach
    <2>3. prepareMultiplexTarget = ckpt
      BY <2>1, <2>2 DEF Target, Targets
    <2>4. Behind(ckpt.ring)
      BY <1>2, LaneRingType DEF Behind, LaneRing
    <2>5. Pos(ckpt.ring, ckpt.after) <= core.last
      BY <1>2 DEF Base, RingsBehind
    <2> QED BY <1>2, <2>1, <2>3, <2>4, <2>5
  <1> QED BY <1>1, <1>2

\* Core goes on.
LEMMA CoreKeepsBase ==
    ASSUME Base, CoreWrite \/ CoreForget \/ CoreNewRing
    PROVE  Base'
  <1>1. UNCHANGED <<ckpt, lane, gaps, tail, at, cur, susp, sub>>
    BY DEF CoreWrite, CoreForget, CoreNewRing, store, multiplex
  <1>2. core \in [origins : Seq(Nat), first : Nat, last : Nat] /\ core.origins \in Seq(Nat)
        /\ core.first \in Nat /\ core.last \in Nat
    BY DEF Base, Shape
  <1>3. /\ core' \in [origins : Seq(Nat), first : Nat, last : Nat]
        /\ core'.last >= core.last /\ core'.first >= core.first
        /\ core'.first <= core'.last + 1 /\ core'.last <= MaxEvents
        /\ Len(core'.origins) >= Len(core.origins)
        /\ \A r \in 1..Len(core.origins) : core'.origins[r] = core.origins[r]
        /\ \A r \in 1..Len(core'.origins) :
             r \in 1..Len(core.origins) \/ (core.first <= core'.origins[r] /\ core'.origins[r] <= core'.first)
        /\ ckpt = None => core'.origins = core.origins
    <2>1. CASE CoreWrite
      BY <2>1, <1>2, EventInboxAssumption DEF CoreWrite, Base, CoreOrder
    <2>2. CASE CoreForget
      BY <2>2, <1>2, EventInboxAssumption DEF CoreForget, Base, CoreOrder
    <2>3. CASE CoreNewRing
      <3>1. PICK o \in core.first .. core.last + 1 :
              core' = [core EXCEPT !.origins = Append(@, o), !.first = o]
        BY <2>3 DEF CoreNewRing
      <3>2. o \in Nat /\ core.first <= o /\ o <= core.last + 1
        BY <3>1, <1>2
      <3>3. core'.origins = Append(core.origins, o) /\ core'.first = o /\ core'.last = core.last
        BY <3>1, <1>2
      <3>4. core' \in [origins : Seq(Nat), first : Nat, last : Nat]
        <4>1. Append(core.origins, o) \in Seq(Nat)
          BY <3>2, <1>2
        <4> QED BY <4>1, <3>1, <3>2, <1>2
      <3>5. Len(core'.origins) = Len(core.origins) + 1 /\ Len(core.origins) \in Nat
            /\ (\A r \in 1..Len(core.origins) : core'.origins[r] = core.origins[r])
            /\ core'.origins[Len(core.origins) + 1] = o
        BY <3>2, <3>3, <1>2
      <3>6. ckpt # None
        BY <2>3 DEF CoreNewRing
      <3> HIDE DEF CoreNewRing
      <3>7. \A r \in 1..(Len(core.origins) + 1) :
              r \in 1..Len(core.origins) \/ r = Len(core.origins) + 1
        BY <3>5
      <3>8. core.last <= MaxEvents
        BY DEF Base, CoreOrder
      <3> QED BY <3>2, <3>3, <3>4, <3>5, <3>6, <3>7, <3>8, <1>2
    <2> QED BY <2>1, <2>2, <2>3
  <1>4. core'.first \in Nat /\ core'.last \in Nat /\ core'.origins \in Seq(Nat)
    BY <1>3
  <1>5. Shape'
    BY <1>1, <1>3 DEF Base, Shape
  <1>6. CoreOrder'
    <2>1. 1 <= core'.first /\ Len(core'.origins) >= 1 /\ Len(core.origins) \in Nat
          /\ Len(core'.origins) \in Nat
      BY <1>2, <1>3, <1>4 DEF Base, CoreOrder, Ring
    <2>2. \A r \in 1..Len(core.origins) : 1 <= core.origins[r] /\ core.origins[r] <= core.first
      BY DEF Base, CoreOrder, Ring, FirstOf
    <2>3. \A r \in 1..Len(core'.origins) : core'.origins[r] \in Nat
      BY <1>4
    <2>4. \A r \in 1..Len(core'.origins) : 1 <= core'.origins[r] /\ core'.origins[r] <= core'.first
      <3>1. 1 <= core.first
        BY DEF Base, CoreOrder
      <3> SUFFICES ASSUME NEW r \in 1..Len(core'.origins)
                   PROVE  1 <= core'.origins[r] /\ core'.origins[r] <= core'.first
        OBVIOUS
      <3>2. core'.origins[r] \in Nat
        BY <2>3
      <3>3. CASE r \in 1..Len(core.origins)
        BY SMTT(20), <3>3, <2>2, <1>2, <1>3, <1>4, <3>2
      <3>4. CASE r \notin 1..Len(core.origins)
        BY <3>1, <3>2, <3>4, <1>2, <1>3, <1>4
      <3> QED BY <3>3, <3>4
    <2>5. \A g \in gaps' : g.resume <= core'.first \/ g.resume <= g.after
      <3>1. \A g \in gaps : g.resume \in Nat /\ g.after \in Nat
        BY DEF Base, Shape
      <3>2. \A g \in gaps : g.resume <= core.first \/ g.resume <= g.after
        BY DEF Base, CoreOrder
      <3> QED BY <3>1, <3>2, <1>1, <1>2, <1>3, <1>4
    <2>6. LaneEvents' \subseteq 1..core'.last
      <3>1. LaneEvents' = LaneEvents /\ LaneEvents \subseteq 1..core.last
        BY <1>1 DEF Base, CoreOrder, LaneEvents
      <3>2. 1..core.last \subseteq 1..core'.last
        BY <1>2, <1>3, <1>4
      <3> QED BY <3>1, <3>2
    <2>7. ckpt' = None => core'.origins = <<1>> /\ \A g \in gaps' : g.resume <= g.after
      BY <1>1, <1>3 DEF Base, CoreOrder
    <2> QED BY <1>3, <2>1, <2>4, <2>5, <2>6, <2>7 DEF CoreOrder, Ring, FirstOf
  <1>7. RingsBehind'
    <2>1. LaneRing' = LaneRing /\ LaneRing \in Nat /\ LaneRing \in 1..Len(core.origins)
      BY <1>1, LaneRingType DEF LaneRing, Ring
    <2>2. \A r \in 1..LaneRing : core'.origins[r] = core.origins[r] /\ core.origins[r] \in Nat
      <3>1. Len(core.origins) \in Nat
        BY <1>2
      <3>2. \A r \in 1..LaneRing : r \in 1..Len(core.origins)
        BY <3>1, <2>1
      <3> QED BY SMTT(20), <3>2, <1>2, <1>3
    <2>3. (ckpt # None => ckpt.ring \in 1..Ring /\ Pos(ckpt.ring, ckpt.after) <= core.last)'
      <3> SUFFICES ASSUME ckpt # None
                   PROVE  (ckpt.ring \in 1..Ring /\ Pos(ckpt.ring, ckpt.after) <= core.last)'
        BY <1>1
      <3>1. ckpt.ring \in 1..Ring /\ Pos(ckpt.ring, ckpt.after) <= core.last /\ ckpt.ring \in 1..LaneRing
            /\ ckpt.after \in Nat
        BY LaneRingType DEF Base, RingsBehind, LaneRing, Shape, Targets
      <3>2. Pos(ckpt.ring, ckpt.after) \in Nat
        BY <3>1, PosType DEF Base
      <3>3. Pos(ckpt.ring, ckpt.after)' = Pos(ckpt.ring, ckpt.after)
        BY <3>1, <2>2, <1>1 DEF Pos, FirstOf
      <3>4. (ckpt.ring \in 1..Ring)'
        BY <3>1, <1>1, <1>2, <1>3, <1>4 DEF Ring
      <3> QED BY <3>1, <3>2, <3>3, <3>4, <1>2, <1>3, <1>4
    <2>4. (sub.cand # None =>
             Behind(sub.cand.ring) /\ Pos(sub.cand.ring, sub.cand.after) <= core.last)'
      <3> SUFFICES ASSUME sub.cand # None
                   PROVE  (Behind(sub.cand.ring) /\ Pos(sub.cand.ring, sub.cand.after) <= core.last)'
        BY <1>1
      <3>1. Behind(sub.cand.ring) /\ Pos(sub.cand.ring, sub.cand.after) <= core.last
            /\ sub.cand.after \in Nat
        BY DEF Base, RingsBehind, Shape, Subscribers, Candidates
      <3>2. Pos(sub.cand.ring, sub.cand.after) \in Nat
        BY <3>1, PosType, BehindIsRing DEF Base
      <3>3. Pos(sub.cand.ring, sub.cand.after)' = Pos(sub.cand.ring, sub.cand.after)
        BY <3>1, <2>2, <1>1 DEF Pos, FirstOf, Behind
      <3> QED BY <3>1, <3>2, <3>3, <2>1, <1>1, <1>2, <1>3, <1>4 DEF Behind
    <2>5. (sub.feed.on => Behind(sub.feed.ring) /\ sub.feed.pos <= core.last)'
      <3> SUFFICES ASSUME sub.feed.on PROVE (Behind(sub.feed.ring) /\ sub.feed.pos <= core.last)'
        BY <1>1
      <3>1. sub.feed.pos \in Nat
        BY FeedTypes DEF Base, Shape, Subscribers
      <3>2. Behind(sub.feed.ring) /\ sub.feed.pos <= core.last
        BY DEF Base, RingsBehind
      <3>3. sub' = sub
        BY <1>1
      <3>4. sub.feed.pos <= core'.last
        BY <3>1, <3>2, <1>2, <1>3, <1>4
      <3>5. Behind(sub.feed.ring)'
        BY <3>2, <3>3, <2>1 DEF Behind
      <3> QED BY <3>3, <3>4, <3>5
    <2>6. (\A i \in DOMAIN tail : FrameBehind(tail[i]))'
      <3> SUFFICES ASSUME NEW i \in DOMAIN tail, tail[i].kind = "frame"
                   PROVE  FrameBehind(tail[i])'
        BY <1>1 DEF FrameBehind
      <3>1. tail[i] \in FrameWork
        BY WorkTypes DEF Base, Shape
      <3>2. tail[i].to \in Nat /\ FrameBehind(tail[i])
        BY <3>1 DEF FrameWork, Base, RingsBehind
      <3> QED BY SMTT(20), <3>2, <2>1, <1>1, <1>2, <1>3, <1>4 DEF FrameBehind, Behind
    <2>7. (cur # None => Behind(cur.ring))'
      BY <1>1, <2>1 DEF Base, RingsBehind, Behind
    <2> QED BY <2>3, <2>4, <2>5, <2>6, <2>7 DEF RingsBehind
  <1>8. HeadIsAt'
    BY <1>1 DEF Base, HeadIsAt
  <1> QED BY <1>5, <1>6, <1>7, <1>8 DEF Base

\* The subscription is replaced, cleared or lost; what follows it has work to do or not.
LEMMA SubscriptionMoves ==
    ASSUME Base, UNCHANGED <<core, ckpt, lane, gaps>>, susp' \in BOOLEAN, sub' \in Subscribers,
           cur' \in {cur, None},
           sub'.cand # None =>
             \/ sub'.cand = sub.cand
             \/ Behind(sub'.cand.ring) /\ Pos(sub'.cand.ring, sub'.cand.after) <= core.last,
           sub'.feed.on => sub.feed.on /\ sub'.feed.ring = sub.feed.ring /\ sub'.feed.pos = sub.feed.pos,
           sub'.cand # None /\ sub'.cand.via = "tail" => at'.pc = "subscribing",
           \/ UNCHANGED <<tail, at>>
           \/ tail # <<>> /\ tail' = tail /\ at' = [pc |-> "subscribing"]
           \/ tail # <<>> /\ tail' = Tail(tail) /\ at' = Idle
    PROVE  Base'
  <1>1. tail' \in Seq(Works) /\ (\A i \in DOMAIN tail' : FrameBehind(tail'[i])) /\ at' \in Positions
    <2>1. CASE tail' = tail
      BY <2>1, PositionTypes DEF Base, Shape, RingsBehind, Positions
    <2>2. CASE tail # <<>> /\ tail' = Tail(tail) /\ at' = Idle
      BY <2>2, PoppedFrames, PositionTypes
    <2> QED BY <2>1, <2>2
  <1>2. HeadIsAt'
    <2>1. CASE UNCHANGED <<tail, at>>
      BY <2>1 DEF Base, HeadIsAt
    <2>2. CASE tail # <<>> /\ tail' = tail /\ at' = [pc |-> "subscribing"]
      BY <2>2 DEF HeadIsAt
    <2>3. CASE tail # <<>> /\ tail' = Tail(tail) /\ at' = Idle
      BY <2>3 DEF HeadIsAt, Idle
    <2> QED BY <2>1, <2>2, <2>3
  <1>3. sub'.cand # None =>
          Behind(sub'.cand.ring) /\ Pos(sub'.cand.ring, sub'.cand.after) <= core.last
    BY DEF Base, RingsBehind
  <1> QED BY <1>1, <1>2, <1>3, LaneStands DEF Base, Shape, RingsBehind, LaneEvents

\* Candidates and the cleared subscription have their types.
LEMMA CandidateType ==
    ASSUME Base, NEW t \in Targets, NEW via \in {"tail", "scan", "reconnect"}
    PROVE  LET c == [ring |-> t.ring, after |-> t.after, via |-> via]
           IN /\ c \in Candidates /\ c # None /\ c.ring = t.ring /\ c.after = t.after /\ c.via = via
              /\ \A w, x \in BOOLEAN :
                   [sub EXCEPT !.cand = c, !.wanted = w, !.timer = x] \in Subscribers
              /\ \A x \in BOOLEAN : [sub EXCEPT !.timer = x, !.cand = c] \in Subscribers
  <1>1. [ring |-> t.ring, after |-> t.after, via |-> via] \in Candidates
    BY DEF Candidates, Targets
  <1> QED BY <1>1, NoneIsNothing DEF Base, Shape, Subscribers

NoSubscription == [feed |-> NoFeed, cand |-> None, wanted |-> FALSE, timer |-> FALSE]
\* The subscription of a cleared owner.
LEMMA ClearedType == NoSubscription \in Subscribers /\ NoSubscription.cand = None
                     /\ ~NoSubscription.feed.on
  BY FeedTypes DEF NoSubscription, Subscribers

\* replaceSelected and clearTargets, as steps of the subscription.
LEMMA ReplacedSubscription ==
    ASSUME Base, NEW t \in Targets, Behind(t.ring), Pos(t.ring, t.after) <= core.last,
           NEW via \in {"tail", "scan", "reconnect"}, replaceSelected(t, via)
    PROVE  /\ sub' \in Subscribers /\ cur' = cur /\ sub'.feed = sub.feed
           /\ \/ cur = t /\ sub' = sub
              \/ /\ cur # t /\ sub'.cand # None /\ sub'.cand.via = via
                 /\ sub'.cand.ring = t.ring /\ sub'.cand.after = t.after
  <1>1. sub \in Subscribers
    BY DEF Base, Shape
  <1>2. CASE cur = t
    BY <1>1, <1>2 DEF replaceSelected
  <1>3. CASE cur # t
    <2> DEFINE c == [ring |-> t.ring, after |-> t.after, via |-> via]
    <2>1. sub' = [sub EXCEPT !.cand = c, !.wanted = TRUE, !.timer = FALSE] /\ cur' = cur
      BY <1>3 DEF replaceSelected
    <2>2. c \in Candidates /\ c # None /\ c.ring = t.ring /\ c.after = t.after /\ c.via = via
          /\ sub' \in Subscribers
      BY <2>1, CandidateType
    <2> HIDE DEF c
    <2>3. sub'.cand = c /\ sub'.feed = sub.feed
      BY <2>1, <1>1 DEF Subscribers
    <2> QED BY <2>1, <2>2, <2>3, <1>3
  <1> QED BY <1>2, <1>3

\* Clearing the targets leaves nothing of the feed.
LEMMA ClearedSubscription ==
    ASSUME Base, clearTargets
    PROVE  /\ sub' \in Subscribers /\ cur' = None
           /\ sub'.cand \in {None, sub.cand} /\ ~sub'.feed.on
  BY ClearedType, FeedTypes DEF clearTargets, NoSubscription, Base, Shape, Subscribers

\* The checkpoint moves, in its ring or to a later one.
LEMMA CheckpointMoves ==
    ASSUME Base, UNCHANGED <<core, sub>>, ckpt' \in Targets,
           LaneRing <= ckpt'.ring, ckpt'.ring <= Ring, Pos(ckpt'.ring, ckpt'.after) <= core.last,
           lane' \in Seq(Items), LaneEvents' \subseteq 1..core.last,
           \A g \in gaps' :
             g \in gaps \/ (g.after \in Nat /\ g.resume \in Nat /\ g.resume <= core.first),
           tail' \in Seq(Works), \A i \in DOMAIN tail' : FrameBehind(tail'[i]), at' \in Positions,
           cur' = cur \/ (cur' \in Targets /\ cur'.ring = ckpt'.ring), susp' \in BOOLEAN,
           HeadIsAt'
    PROVE  Base'
  <1> DEFINE r == ckpt'.ring
             c == ckpt'.after
  <1>0. LaneRing \in Nat /\ Ring \in Nat /\ r \in Nat /\ r \in 1..Ring /\ LaneRing <= r
    BY LaneRingType, RingType DEF Base, Targets
  <1>1. ckpt' \in Targets /\ ckpt'.ring = r /\ ckpt'.after = c /\ ckpt' # None
    BY <1>0, NoneIsNothing
  <1>2. Shape'
    BY <1>1 DEF Base, Shape
  <1>3. CoreOrder'
    BY <1>1 DEF Base, CoreOrder, Ring, FirstOf
  <1>4. LaneRing' = r /\ \A x : Behind(x) => Behind(x)'
    <2>1. LaneRing' = r
      BY <1>1 DEF LaneRing
    <2> QED BY <2>1, <1>0 DEF Behind
  <1>5. RingsBehind'
    <2>1. (ckpt # None => ckpt.ring \in 1..Ring /\ Pos(ckpt.ring, ckpt.after) <= core.last)'
      BY <1>0, <1>1 DEF Ring, Pos, FirstOf
    <2>2. (cur # None => Behind(cur.ring))'
      BY <1>0, <1>4 DEF Base, RingsBehind, Behind
    <2>3. (sub.cand # None =>
             Behind(sub.cand.ring) /\ Pos(sub.cand.ring, sub.cand.after) <= core.last)'
      BY <1>4 DEF Base, RingsBehind, Pos, FirstOf
    <2>4. (sub.feed.on => Behind(sub.feed.ring) /\ sub.feed.pos <= core.last)'
      BY <1>4 DEF Base, RingsBehind
    <2>5. (\A i \in DOMAIN tail : FrameBehind(tail[i]))'
      BY <1>4 DEF FrameBehind
    <2> QED BY <2>1, <2>2, <2>3, <2>4, <2>5 DEF RingsBehind
  <1> QED BY <1>2, <1>3, <1>5 DEF Base

\* Where a read or a frame ends.
LEMMA ReadStands ==
    ASSUME Base, at.pc \in {"read", "transition"}
    PROVE  /\ at \in [pc : {"transition", "read"}, ring : Nat, after : Nat, rebased : BOOLEAN,
                      invalid : BOOLEAN]
           /\ tail # <<>> /\ Head(tail).kind = "v2"
           /\ at.pc = "read" => /\ at.ring \in 1..Ring /\ at.ring = LaneRing /\ at.after \in Nat
                                /\ ReadPos \in Nat /\ ReadPos <= core.last
                                /\ ckpt = None => ReadPos = 0
                                /\ ckpt # None => ReadPos = Pos(ckpt.ring, ckpt.after)
  <1>1. /\ at \in [pc : {"transition", "read"}, ring : Nat, after : Nat, rebased : BOOLEAN,
                   invalid : BOOLEAN]
        /\ tail # <<>> /\ Head(tail).kind = "v2"
    BY PositionTypes DEF Base, Shape, HeadIsAt
  <1>2. ASSUME at.pc = "read"
        PROVE  /\ at.ring \in 1..Ring /\ at.ring = LaneRing /\ at.after \in Nat
               /\ ReadPos \in Nat /\ ReadPos <= core.last
               /\ ckpt = None => ReadPos = 0
               /\ ckpt # None => ReadPos = Pos(ckpt.ring, ckpt.after)
    <2>1. at.ring \in Nat /\ at.after \in Nat /\ core.last \in Nat
      BY <1>1 DEF Base, Shape
    <2>2. CASE ckpt = None /\ at.ring = 1 /\ at.after = Start
      <3>1. core.origins = <<1>>
        BY <2>2 DEF Base, CoreOrder
      <3>2. Ring = 1 /\ FirstOf(1) = 1
        BY <3>1 DEF Ring, FirstOf
      <3>3. ReadPos = 0
        BY <2>2, <3>2 DEF ReadPos, Pos
      <3> QED BY <2>1, <2>2, <3>2, <3>3 DEF LaneRing
    <2>3. CASE ckpt = Target(at.ring, at.after)
      <3>1. ckpt # None /\ ckpt.ring = at.ring /\ ckpt.after = at.after
        BY <2>1, <2>3, TargetType
      <3>2. ckpt.ring \in 1..Ring /\ Pos(ckpt.ring, ckpt.after) <= core.last
        BY <3>1 DEF Base, RingsBehind
      <3>3. ReadPos = Pos(ckpt.ring, ckpt.after)
        BY <3>1 DEF ReadPos
      <3>4. ReadPos \in Nat
        BY <3>1, <3>2, <3>3, <2>1, PosType DEF Base
      <3> QED BY <2>1, <3>1, <3>2, <3>3, <3>4 DEF LaneRing
    <2> QED BY <1>2, <2>2, <2>3 DEF Base, HeadIsAt
  <1> QED BY <1>1, <1>2

\* A frame that runs is the head of the tail.
LEMMA FrameStands ==
    ASSUME Base, at.pc = "frame"
    PROVE  /\ tail # <<>> /\ Frame = tail[1] /\ Frame \in FrameWork /\ 1 \in DOMAIN tail
           /\ FrameBehind(Frame) /\ Frame.kind = "frame"
           /\ at.target \in Targets /\ at.target.ring = Frame.ring
  <1>1. tail # <<>> /\ Head(tail).kind = "frame" /\ at.target.ring = Head(tail).ring
    BY DEF Base, HeadIsAt
  <1>2. tail \in Seq(Works)
    BY DEF Base, Shape
  <1>3. Head(tail) = tail[1] /\ Head(tail) \in Works /\ 1 \in DOMAIN tail
    BY <1>1, <1>2, Popped
  <1>4. FrameBehind(tail[1])
    BY <1>3 DEF Base, RingsBehind
  <1>5. at.target \in Targets
    BY PositionTypes DEF Base, Shape
  <1> QED BY <1>1, <1>3, <1>4, <1>5, WorkTypes DEF Frame

\* A batch ends inside what Core has written.
BatchEnd == IF core.last < ReadPos + BatchSize THEN core.last ELSE ReadPos + BatchSize
\* A batch ends between its start and Core's last event.
LEMMA BatchEndType ==
    ASSUME Base, at.pc = "read"
    PROVE  BatchEnd \in Nat /\ ReadPos <= BatchEnd /\ BatchEnd <= core.last
           /\ (BatchEnd # ReadPos => ReadPos < BatchEnd /\ BatchEnd > 0)
  <1>1. ReadPos \in Nat /\ ReadPos <= core.last
    BY ReadStands
  <1>2. core.last \in Nat /\ BatchSize \in Nat
    BY EventInboxAssumption DEF Base, Shape
  <1> HIDE DEF ReadPos
  <1> QED BY <1>1, <1>2 DEF BatchEnd

-----------------------------------------------------------------------------
(* What the actions do to the tail and the subscription. *)

Failures == \/ V2AttachFails \/ V2TransitionRefused \/ V2ReadFails \/ V2ExpiredAgain
            \/ V2BatchRolledBack \/ FrameFails

Ends == tail # <<>> /\ at.pc # "subscribing" /\ tail' = Tail(tail) /\ at' = Idle

\* Failing work leaves the tail and nothing else.
LEMMA FailuresEnd ==
    ASSUME Base, Failures
    PROVE  Ends /\ UNCHANGED <<core, ckpt, lane, gaps, cur, susp, sub>>
           /\ at.pc \in {"idle", "again", "transition", "read", "frame"}
           /\ (at.pc # "frame" => Head(tail).kind = "v2")
           /\ (at.pc = "frame" => FrameFails)
  <1>1. CASE V2AttachFails
    BY <1>1 DEF V2AttachFails, Finish, Ends, store, multiplex
  <1>2. CASE V2TransitionRefused
    BY <1>2 DEF V2TransitionRefused, Finish, Ends, store, multiplex, Base, HeadIsAt
  <1>3. CASE V2ReadFails
    BY <1>3 DEF V2ReadFails, Finish, Ends, store, multiplex, Base, HeadIsAt
  <1>4. CASE V2ExpiredAgain
    BY <1>4 DEF V2ExpiredAgain, Finish, Ends, store, multiplex, Base, HeadIsAt
  <1>5. CASE V2BatchRolledBack
    BY <1>5 DEF V2BatchRolledBack, Finish, Ends, store, multiplex, Base, HeadIsAt
  <1>6. CASE FrameFails
    BY <1>6 DEF FrameFails, Finish, Ends, store, multiplex, Base, HeadIsAt
  <1> QED BY <1>1, <1>2, <1>3, <1>4, <1>5, <1>6 DEF Failures

\* What the two verdicts write.
LEMMA ProjectedItem ==
    ASSUME lane \in Seq(Items), rev \in Nat, NEW i, acknowledgeProjected(i)
    PROVE  /\ DOMAIN lane' = DOMAIN lane /\ lane' \in [DOMAIN lane -> Items]
           /\ \A k \in DOMAIN lane : k # i \/ ~Pending(i) => lane'[k] = lane[k]
           /\ i \in DOMAIN lane /\ Pending(i) =>
                lane'[i].ev = lane[i].ev /\ lane'[i].st = "projected"
  <1>1. CASE ~Pending(i)
    BY <1>1 DEF acknowledgeProjected
  <1>2. CASE Pending(i)
    <2>1. lane' = [lane EXCEPT ![i].st = "projected", ![i].rev = rev]
      BY <1>2 DEF acknowledgeProjected
    <2>2. ASSUME NEW k \in DOMAIN lane, k # i PROVE lane'[k] = lane[k] /\ lane[k] \in Items
      BY <2>1, <2>2
    <2>3. ASSUME i \in DOMAIN lane
          PROVE  lane'[i] \in Items /\ lane'[i].ev = lane[i].ev /\ lane'[i].st = "projected"
      <3>1. lane[i] \in Items
        BY <2>3
      <3>2. lane'[i] = [lane[i] EXCEPT !.st = "projected", !.rev = rev]
        BY <2>1, <2>3
      <3> QED BY <3>1, <3>2 DEF Items
    <2>4. DOMAIN lane' = DOMAIN lane /\ lane' \in [DOMAIN lane -> Items]
      BY <2>1, <2>2, <2>3
    <2> QED BY <2>2, <2>3, <2>4, <1>2
  <1> QED BY <1>1, <1>2

\* A failed projection counts an attempt, or quarantines the item and opens its gap.
LEMMA FailedItem ==
    ASSUME lane \in Seq(Items), rev \in Nat, NEW i, acknowledgeQuarantined(i), Pending(i)
    PROVE  /\ DOMAIN lane' = DOMAIN lane /\ lane' \in [DOMAIN lane -> Items]
           /\ \A k \in DOMAIN lane : k # i => lane'[k] = lane[k]
           /\ i \in DOMAIN lane =>
                /\ lane'[i].ev = lane[i].ev /\ lane'[i].rev = rev
                /\ \/ lane'[i].st = "quarantined" /\ itemGaps' = openGap(lane[i].ev)
                   \/ lane'[i].st = "pending" /\ itemGaps' = itemGaps
  <1> DEFINE tries == (IF lane[i].rev = rev THEN lane[i].tries ELSE 0) + 1
             out == tries >= Attempts
             st == IF out THEN "quarantined" ELSE "pending"
  <1>1. /\ lane' = [lane EXCEPT ![i].st = st, ![i].tries = tries, ![i].rev = rev]
        /\ itemGaps' = IF out THEN openGap(lane[i].ev) ELSE itemGaps
    BY DEF acknowledgeQuarantined
  <1>2. ASSUME i \in DOMAIN lane PROVE tries \in Nat
    <2>1. lane[i] \in Items
      BY <1>2
    <2> QED BY <2>1 DEF Items
  <1>3. st \in {"quarantined", "pending"}
        /\ (st = "quarantined" => itemGaps' = openGap(lane[i].ev))
        /\ (st = "pending" => itemGaps' = itemGaps)
    BY <1>1
  <1> HIDE DEF st, tries
  <1>4. ASSUME NEW k \in DOMAIN lane, k # i PROVE lane'[k] = lane[k] /\ lane[k] \in Items
    BY <1>1, <1>4
  <1>5. ASSUME i \in DOMAIN lane
        PROVE  lane'[i] \in Items /\ lane'[i].ev = lane[i].ev /\ lane'[i].rev = rev /\ lane'[i].st = st
    <2>1. lane[i] \in Items
      BY <1>5
    <2>2. lane'[i] = [lane[i] EXCEPT !.st = st, !.tries = tries, !.rev = rev]
      BY <1>1, <1>5
    <2> QED BY <2>1, <2>2, <1>2, <1>3, <1>5 DEF Items
  <1>6. DOMAIN lane' = DOMAIN lane /\ lane' \in [DOMAIN lane -> Items]
    BY <1>1, <1>4, <1>5
  <1> QED BY <1>3, <1>4, <1>5, <1>6

\* The settlers change no event of the lane.
LEMMA SettlersKeepEvents ==
    ASSUME lane \in Seq(Items), rev \in Nat, Settle
    PROVE  /\ lane' \in Seq(Items) /\ LaneEvents' = LaneEvents
           /\ DOMAIN lane' = DOMAIN lane /\ \A i \in DOMAIN lane : lane'[i].ev = lane[i].ev
           /\ UNCHANGED <<core, ckpt, gaps, tail, at, cur, susp, sub>>
  <1>0. DOMAIN lane = 1..Len(lane) /\ Len(lane) \in Nat
    OBVIOUS
  <1>1. SUFFICES /\ lane' \in [DOMAIN lane -> Items] /\ \A i \in DOMAIN lane : lane'[i].ev = lane[i].ev
                 /\ UNCHANGED <<core, ckpt, gaps, tail, at, cur, susp, sub>>
    BY <1>0 DEF LaneEvents
  <1>2. UNCHANGED <<core, ckpt, gaps, tail, at, cur, susp, sub>>
    BY DEF Settle, loadPending, CursorAcknowledge, reprojectHistoricalCandidate, multiplex
  <1>3. \A i \in DOMAIN lane : lane[i] \in Items
    OBVIOUS
  <1>4. ASSUME NEW i, acknowledgeProjected(i)
        PROVE  lane' \in [DOMAIN lane -> Items] /\ \A k \in DOMAIN lane : lane'[k].ev = lane[k].ev
    BY <1>4, ProjectedItem
  <1>5. ASSUME NEW i, acknowledgeQuarantined(i)
        PROVE  lane' \in [DOMAIN lane -> Items] /\ \A k \in DOMAIN lane : lane'[k].ev = lane[k].ev
    <2>1. CASE Pending(i)
      BY <1>5, <2>1, FailedItem
    <2>2. CASE ~Pending(i)
      BY <1>5, <2>2 DEF acknowledgeQuarantined
    <2> QED BY <2>1, <2>2
  <1>6. CASE loadPending
    BY <1>2, <1>3, <1>6 DEF loadPending, Items
  <1>7. CASE CursorAcknowledge
    BY <1>2, <1>4, <1>5, <1>7 DEF CursorAcknowledge
  <1>8. CASE reprojectHistoricalCandidate
    BY <1>2, <1>4, <1>5, <1>8 DEF reprojectHistoricalCandidate
  <1> QED BY <1>6, <1>7, <1>8 DEF Settle

\* A batch that is read moves the checkpoint to its end.
LEMMA BatchRead ==
    ASSUME Base, V2Batch
    PROVE  /\ \E c \in Nat : /\ ckpt' = Target(at.ring, c) /\ Pos(at.ring, c) = BatchEnd /\ gaps' = gaps
                             /\ lane' \in Seq(Items)
                             /\ LaneEvents' = LaneEvents \cup ((ReadPos + 1)..BatchEnd)
                             /\ LaneEvents' \subseteq 1..core.last
                             /\ BatchEnd < core.last => c = BatchEnd
           /\ \/ /\ BatchEnd < core.last /\ UNCHANGED <<tail, susp>>
                 /\ \/ at' = [at EXCEPT !.after = BatchEnd]
                    \/ at' = [pc |-> "again", invalid |-> FALSE]
              \/ BatchEnd = core.last /\ susp' = FALSE /\ at' = [pc |-> "restore"] /\ tail' = tail
              \/ BatchEnd = core.last /\ susp' = FALSE /\ Finish
  <1>0. lane \in Seq(Items) /\ core.last \in Nat /\ LaneEvents \subseteq 1..core.last
    BY DEF Base, Shape, CoreOrder
  <1>1. at.pc = "read"
    BY DEF V2Batch
  <1>2. at.after \in Nat /\ at.ring \in Nat /\ ReadPos \in Nat /\ ReadPos <= core.last
    BY <1>1, ReadStands, RingType DEF Base
  <1>3. BatchEnd \in Nat /\ ReadPos <= BatchEnd /\ BatchEnd <= core.last
        /\ (BatchEnd # ReadPos => ReadPos < BatchEnd /\ BatchEnd > 0)
    BY <1>1, BatchEndType
  <1>4. /\ IF BatchEnd = ReadPos THEN ckpt' = Target(at.ring, at.after) /\ UNCHANGED <<lane, gaps>>
           ELSE ingestBatch(at.ring, ReadPos + 1, BatchEnd)
        /\ \/ /\ BatchEnd < core.last /\ UNCHANGED <<tail, susp>>
              /\ \/ at' = [at EXCEPT !.after = BatchEnd]
                 \/ at' = [pc |-> "again", invalid |-> FALSE]
           \/ ~(BatchEnd < core.last) /\ susp' = FALSE /\ at' = [pc |-> "restore"] /\ tail' = tail
           \/ ~(BatchEnd < core.last) /\ susp' = FALSE /\ Finish
    BY DEF V2Batch, BatchEnd
  <1>5. ~(BatchEnd < core.last) => BatchEnd = core.last
    BY <1>0, <1>3
  <1>6. CASE BatchEnd = ReadPos
    <2>1. ckpt' = Target(at.ring, at.after) /\ UNCHANGED <<lane, gaps>>
      BY <1>4, <1>6
    <2>2. LaneEvents' = LaneEvents /\ (ReadPos + 1)..BatchEnd = {}
      BY <2>1, <1>2, <1>6 DEF LaneEvents
    <2>3. ~(BatchEnd < core.last)
      <3>1. BatchSize \in Nat /\ BatchSize > 0
        BY EventInboxAssumption
      <3> HIDE DEF ReadPos
      <3> QED BY <3>1, <1>6, <1>2, <1>0 DEF BatchEnd
    <2>4. Pos(at.ring, at.after) = BatchEnd
      BY <1>6 DEF ReadPos
    <2> QED BY <2>1, <2>2, <2>3, <2>4, <1>0, <1>2, <1>4, <1>5
  <1>7. CASE BatchEnd # ReadPos
    <2>1. ingestBatch(at.ring, ReadPos + 1, BatchEnd) /\ ReadPos + 1 \in Nat
      BY <1>2, <1>4, <1>7
    <2>2. lane' \in Seq(Items) /\ LaneEvents' = LaneEvents \cup ((ReadPos + 1)..BatchEnd)
      BY <2>1, <1>0, <1>3, BatchIsStored
    <2>3. ckpt' = Target(at.ring, BatchEnd) /\ gaps' = gaps
      BY <2>1 DEF ingestBatch
    <2>4. Pos(at.ring, BatchEnd) = BatchEnd
      BY <1>3, <1>7 DEF Pos, Start
    <2>5. (ReadPos + 1)..BatchEnd \subseteq 1..core.last
      BY <1>0, <1>2, <1>3
    <2> HIDE DEF BatchEnd
    <2> QED BY <2>2, <2>3, <2>4, <2>5, <1>0, <1>3, <1>4, <1>5
  <1> QED BY <1>6, <1>7

\* V2 reads.
LEMMA ReadsKeepBase ==
    ASSUME Base, V2Attach \/ V2Transition \/ V2Expired \/ V2Invalid \/ V2Batch
    PROVE  Base'
  <1>0. /\ core.first \in Nat /\ core.last \in Nat /\ core.first >= 1 /\ core.first <= core.last + 1
        /\ tail \in Seq(Works) /\ (\A i \in DOMAIN tail : FrameBehind(tail[i]))
        /\ sub \in Subscribers /\ cur \in {None} \cup Targets /\ susp \in BOOLEAN
        /\ lane \in Seq(Items) /\ LaneEvents \subseteq 1..core.last
    BY DEF Base, Shape, CoreOrder, RingsBehind
  <1>1. CASE V2Attach
    <2>1. tail # <<>> /\ Head(tail).kind = "v2" /\ at.pc \in {"idle", "again"}
          /\ UNCHANGED <<core, ckpt, lane, gaps, tail, cur, susp, sub>>
      BY <1>1 DEF V2Attach, store, multiplex
    <2>2. PICK b \in BOOLEAN :
            at' = [pc |-> IF ckpt # None /\ ckpt.ring # Ring THEN "transition" ELSE "read",
                   ring |-> Ring, after |-> IF ckpt = None THEN Start ELSE ckpt.after,
                   rebased |-> FALSE, invalid |-> b]
      <3>1. at.pc = "again" => at.invalid \in BOOLEAN
        BY PositionTypes DEF Base, Shape
      <3>2. (at.pc = "again" /\ at.invalid) \in BOOLEAN
        OBVIOUS
      <3> QED BY <1>1, <3>2 DEF V2Attach, attach
    <2>3. Ring \in Nat /\ (ckpt # None => ckpt \in Targets /\ ckpt.after \in Nat /\ ckpt.ring \in Nat
                                           /\ ckpt.ring \in 1..Ring)
      BY RingType DEF Base, Shape, Targets, RingsBehind
    <2>4. at' \in Positions
      BY <2>2, <2>3 DEF Positions, Start
    <2>5. HeadIsAt'
      <3>1. sub.cand # None => sub.cand.via # "tail"
        BY <2>1 DEF Base, HeadIsAt
      <3>2. at'.pc = "transition" => ckpt # None /\ ckpt.ring < at'.ring
        BY <2>2, <2>3
      <3>3. at'.pc = "read" => \/ ckpt = None /\ at'.ring = 1 /\ at'.after = Start
                               \/ ckpt = Target(at'.ring, at'.after)
        <4>1. CASE ckpt = None
          <5>1. core.origins = <<1>>
            BY <4>1 DEF Base, CoreOrder
          <5> QED BY <2>2, <4>1, <5>1 DEF Ring
        <4>2. CASE ckpt # None /\ ckpt.ring = Ring
          BY <2>2, <2>3, <4>2 DEF Target, Targets
        <4>3. CASE ckpt # None /\ ckpt.ring # Ring
          BY <2>2, <4>3
        <4> QED BY <4>1, <4>2, <4>3
      <3>4. at'.pc \in {"transition", "read"}
        BY <2>2
      <3> QED BY <2>1, <3>1, <3>2, <3>3, <3>4 DEF HeadIsAt
    <2> QED BY <2>1, <2>4, <2>5, <1>0, LaneStands DEF Base, RingsBehind, LaneEvents
  <1>2. CASE V2Transition
    <2>1. at.pc = "transition" /\ Ring = at.ring /\ UNCHANGED <<core, lane, tail, cur, susp, sub>>
      BY <1>2 DEF V2Transition, multiplex, rebaseEpochTransition, transitionSource
    <2>2. at \in [pc : {"transition", "read"}, ring : Nat, after : Nat, rebased : BOOLEAN,
                  invalid : BOOLEAN] /\ tail # <<>> /\ Head(tail).kind = "v2"
      BY <2>1, ReadStands
    <2>3. ckpt # None /\ ckpt \in Targets /\ ckpt.ring < at.ring /\ LaneRing = ckpt.ring
          /\ ckpt.ring \in 1..Ring /\ ckpt.after \in Nat
      BY <2>1 DEF Base, HeadIsAt, Shape, LaneRing, RingsBehind, Targets
    <2>4. Ring \in LaneRing..Ring /\ Ring \in Nat /\ Ring \in 1..Ring
      BY <2>3, RingType, LaneRingType DEF Base
    <2>5. FirstOf(Ring) \in Nat /\ 1 <= FirstOf(Ring) /\ FirstOf(Ring) <= core.first
          /\ Pos(Ring, Start) = FirstOf(Ring) - 1 /\ Pos(ckpt.ring, ckpt.after) \in Nat
      BY <2>3, <2>4, PosType DEF Base, CoreOrder, Start
    <2>6. \E k : gaps' = gaps \cup {[kind |-> k, after |-> Pos(ckpt.ring, ckpt.after),
                                                resume |-> FirstOf(Ring)]}
      BY <1>2, <2>1 DEF V2Transition, rebaseEpochTransition, transitionSource, declareGap
    <2>7. ckpt' = Target(Ring, Start) /\ at' = [at EXCEPT !.pc = "read", !.after = Start]
      BY <1>2, <2>1 DEF V2Transition, rebaseEpochTransition, transitionSource
    <2>8. at' \in Positions /\ at'.pc = "read" /\ at'.ring = Ring /\ at'.after = Start
      BY <2>1, <2>2, <2>7 DEF Positions, Start
    <2>9. HeadIsAt'
      <3>1. sub.cand # None => sub.cand.via # "tail"
        BY <2>1 DEF Base, HeadIsAt
      <3> QED BY <2>1, <2>2, <2>7, <2>8, <3>1 DEF HeadIsAt
    <2>10. \A g \in gaps' :
             g \in gaps \/ (g.after \in Nat /\ g.resume \in Nat /\ g.resume <= core.first)
      BY <2>5, <2>6, <1>0
    <2>11. Pos(Ring, Start) <= core.last /\ Start \in Nat
      BY <2>5, <1>0 DEF Start
    <2>12. LaneEvents' = LaneEvents
      BY <2>1 DEF LaneEvents
    <2>13. /\ UNCHANGED <<core, sub>> /\ lane' \in Seq(Items) /\ LaneEvents' \subseteq 1..core.last
           /\ tail' \in Seq(Works) /\ (\A i \in DOMAIN tail' : FrameBehind(tail'[i]))
           /\ cur' = cur /\ susp' \in BOOLEAN
      BY <2>1, <2>12, <1>0
    <2>14. ckpt' \in Targets /\ LaneRing <= ckpt'.ring /\ ckpt'.ring <= Ring
           /\ Pos(ckpt'.ring, ckpt'.after) <= core.last
      BY <2>4, <2>7, <2>11, TargetType
    <2> QED BY <2>8, <2>9, <2>10, <2>13, <2>14, CheckpointMoves
  <1>3. CASE V2Expired
    <2>1. at.pc = "read" /\ Expired(at.ring, ReadPos) /\ UNCHANGED <<core, lane, tail, cur, susp, sub>>
      BY <1>3 DEF V2Expired, multiplex, rebaseExpiredCheckpoint, bootstrapExpiredLane
    <2>2. /\ at \in [pc : {"transition", "read"}, ring : Nat, after : Nat, rebased : BOOLEAN,
                     invalid : BOOLEAN] /\ tail # <<>> /\ Head(tail).kind = "v2"
          /\ at.ring \in 1..Ring /\ at.ring = LaneRing /\ ReadPos \in Nat
      BY <2>1, ReadStands
    <2>3. core.first - 1 \in Nat /\ core.first - 1 # Start /\ at.ring \in LaneRing..Ring /\ at.ring \in Nat
      BY <2>1, <2>2, <1>0, LaneRingType, RingType DEF Expired, Start, Base
    <2>4. Pos(at.ring, core.first - 1) = core.first - 1
      BY <2>3 DEF Pos
    <2>5. PICK a \in Nat : gaps' = gaps \cup {[kind |-> "cursor_expired", after |-> a,
                                              resume |-> core.first]}
      <3>1. ckpt # None => Pos(at.ring, ckpt.after) \in Nat
        BY <2>2, PosType DEF Base, Shape, Targets
      <3>2. FirstOf(at.ring) - 1 \in Nat
        BY <2>2, PosType DEF Base, CoreOrder, Start
      <3> QED BY <1>3, <3>1, <3>2 DEF V2Expired, rebaseExpiredCheckpoint, bootstrapExpiredLane,
                 declareGap
    <2>6. ckpt' = Target(at.ring, core.first - 1)
      BY <1>3 DEF V2Expired, rebaseExpiredCheckpoint, bootstrapExpiredLane
    <2>7. at' = [at EXCEPT !.after = core.first - 1, !.rebased = TRUE]
      BY <1>3 DEF V2Expired
    <2>8. at' \in Positions /\ at'.pc = "read" /\ at'.ring = at.ring /\ at'.after = core.first - 1
      BY <2>1, <2>2, <2>3, <2>7 DEF Positions
    <2>9. HeadIsAt'
      <3>1. sub.cand # None => sub.cand.via # "tail"
        BY <2>1 DEF Base, HeadIsAt
      <3> QED BY <2>1, <2>2, <2>6, <2>8, <3>1 DEF HeadIsAt
    <2>10. \A g \in gaps' :
             g \in gaps \/ (g.after \in Nat /\ g.resume \in Nat /\ g.resume <= core.first)
      BY <2>5, <1>0
    <2>11. Pos(at.ring, core.first - 1) <= core.last
      BY <2>4, <1>0
    <2>12. LaneEvents' = LaneEvents
      BY <2>1 DEF LaneEvents
    <2>13. /\ UNCHANGED <<core, sub>> /\ lane' \in Seq(Items) /\ LaneEvents' \subseteq 1..core.last
           /\ tail' \in Seq(Works) /\ (\A i \in DOMAIN tail' : FrameBehind(tail'[i]))
           /\ cur' = cur /\ susp' \in BOOLEAN
      BY <2>1, <2>12, <1>0
    <2>14. ckpt' \in Targets /\ LaneRing <= ckpt'.ring /\ ckpt'.ring <= Ring
           /\ Pos(ckpt'.ring, ckpt'.after) <= core.last
      BY <2>3, <2>6, <2>11, TargetType
    <2> QED BY <2>8, <2>9, <2>10, <2>13, <2>14, CheckpointMoves
  <1>4. CASE V2Invalid
    <2>1. at.pc = "read" /\ UNCHANGED <<core, cur, susp, sub>>
      BY <1>4 DEF V2Invalid, multiplex
    <2>2. tail # <<>> /\ Head(tail).kind = "v2" /\ at.after \in Nat
          /\ (sub.cand # None => sub.cand.via # "tail")
      BY <2>1, ReadStands DEF Base, HeadIsAt
    <2>3. CASE at' = [pc |-> "again", invalid |-> TRUE] /\ UNCHANGED <<store, tail>>
      <3>1. at' \in Positions /\ at'.pc = "again" /\ UNCHANGED <<ckpt, lane, gaps, tail>>
        BY <2>3 DEF Positions, store
      <3>2. HeadIsAt'
        BY <2>1, <2>2, <3>1 DEF HeadIsAt
      <3> QED BY <2>1, <3>1, <3>2, <1>0, LaneStands DEF Base, RingsBehind, LaneEvents
    <2>4. CASE recordInvalidCursorGap /\ Finish
      <3>1. UNCHANGED <<ckpt, lane>> /\ tail' = Tail(tail) /\ at' = Idle
            /\ gaps' = gaps \cup {[kind |-> "invalid_cursor", after |-> at.after, resume |-> at.after]}
        BY <2>4 DEF recordInvalidCursorGap, declareGap, Finish
      <3>2. tail' \in Seq(Works) /\ (\A i \in DOMAIN tail' : FrameBehind(tail'[i])) /\ at' \in Positions
        BY <2>2, <3>1, PoppedFrames, PositionTypes
      <3>3. HeadIsAt'
        BY <2>1, <2>2, <3>1 DEF HeadIsAt, Idle
      <3>4. \A g \in gaps' : g \in gaps \/ (g.after \in Nat /\ g.resume = g.after)
        BY <2>2, <3>1
      <3> QED BY <2>1, <3>1, <3>2, <3>3, <3>4, <1>0, LaneStands DEF Base, RingsBehind, LaneEvents
    <2> QED BY <1>4, <2>3, <2>4 DEF V2Invalid
  <1>5. CASE V2Batch
    <2>1. at.pc = "read" /\ UNCHANGED <<core, cur, sub>>
      BY <1>5 DEF V2Batch
    <2>2. /\ at \in [pc : {"transition", "read"}, ring : Nat, after : Nat, rebased : BOOLEAN,
                     invalid : BOOLEAN]
          /\ tail # <<>> /\ Head(tail).kind = "v2" /\ at.after \in Nat /\ at.ring \in 1..Ring
          /\ at.ring \in Nat /\ at.ring = LaneRing /\ ReadPos \in Nat /\ ReadPos <= core.last
          /\ (sub.cand # None => sub.cand.via # "tail")
      BY <2>1, ReadStands DEF Base, HeadIsAt
    <2>3. BatchEnd \in Nat /\ ReadPos <= BatchEnd /\ BatchEnd <= core.last
          /\ (BatchEnd # ReadPos => ReadPos < BatchEnd /\ BatchEnd > 0)
      BY <2>1, BatchEndType
    <2>4. \/ /\ BatchEnd < core.last /\ UNCHANGED <<tail, susp>>
             /\ \/ at' = [at EXCEPT !.after = BatchEnd]
                \/ at' = [pc |-> "again", invalid |-> FALSE]
          \/ BatchEnd = core.last /\ susp' = FALSE /\ at' = [pc |-> "restore"] /\ tail' = tail
          \/ BatchEnd = core.last /\ susp' = FALSE /\ Finish
      BY <1>5, BatchRead
    <2>5. PICK c \in Nat : /\ ckpt' = Target(at.ring, c) /\ Pos(at.ring, c) = BatchEnd /\ gaps' = gaps
                           /\ lane' \in Seq(Items)
                           /\ LaneEvents' = LaneEvents \cup ((ReadPos + 1)..BatchEnd)
                           /\ LaneEvents' \subseteq 1..core.last
                           /\ BatchEnd < core.last => c = BatchEnd
      BY <1>5, BatchRead
    <2>6. ckpt' \in Targets /\ ckpt'.ring = at.ring /\ ckpt'.after = c
      BY <2>2, <2>5, TargetType
    <2>7. /\ tail' \in Seq(Works) /\ \A i \in DOMAIN tail' : FrameBehind(tail'[i])
          /\ at' \in Positions /\ susp' \in BOOLEAN /\ HeadIsAt'
      <3>1. CASE at' = [at EXCEPT !.after = BatchEnd] /\ tail' = tail /\ BatchEnd < core.last
                 /\ susp' = susp
        <4>1. at' \in Positions /\ at'.pc = "read" /\ at'.ring = at.ring /\ at'.after = BatchEnd
          BY <3>1, <2>1, <2>2, <2>3 DEF Positions
        <4>2. ckpt' = Target(at'.ring, at'.after)
          BY <4>1, <2>5, <3>1
        <4>3. HeadIsAt'
          BY <2>1, <2>2, <4>1, <4>2, <3>1 DEF HeadIsAt
        <4> QED BY <4>1, <4>3, <3>1, <1>0
      <3>2. CASE at' = [pc |-> "again", invalid |-> FALSE] /\ tail' = tail /\ susp' = susp
        <4>1. at' \in Positions /\ at'.pc = "again"
          BY <3>2 DEF Positions
        <4>2. HeadIsAt'
          BY <2>1, <2>2, <4>1, <3>2 DEF HeadIsAt
        <4> QED BY <4>1, <4>2, <3>2, <1>0
      <3>3. CASE susp' = FALSE /\ at' = [pc |-> "restore"] /\ tail' = tail
        <4>1. at' \in Positions /\ at'.pc = "restore"
          BY <3>3 DEF Positions
        <4>2. HeadIsAt'
          BY <2>1, <2>2, <4>1, <3>3 DEF HeadIsAt
        <4> QED BY <4>1, <4>2, <3>3, <1>0
      <3>4. CASE susp' = FALSE /\ Finish
        <4>1. tail' = Tail(tail) /\ at' = Idle
          BY <3>4 DEF Finish
        <4>2. HeadIsAt'
          BY <2>1, <2>2, <4>1 DEF HeadIsAt, Idle
        <4> QED BY <4>1, <4>2, <2>2, <3>4, PoppedFrames, PositionTypes
      <3> QED BY <2>4, <3>1, <3>2, <3>3, <3>4
    <2>8. LaneRing <= ckpt'.ring /\ ckpt'.ring <= Ring /\ Pos(ckpt'.ring, ckpt'.after) <= core.last
      BY <2>2, <2>3, <2>5, <2>6, RingType DEF Base
    <2> QED BY <2>1, <2>5, <2>6, <2>7, <2>8, CheckpointMoves
  <1> QED BY <1>1, <1>2, <1>3, <1>4, <1>5

\* Frames.
LEMMA FramesKeepBase ==
    ASSUME Base, FrameStart \/ FrameAccepted \/ FrameStale \/ StaleReplace
    PROVE  Base'
  <1>0. /\ core.first \in Nat /\ core.last \in Nat
        /\ tail \in Seq(Works) /\ (\A i \in DOMAIN tail : FrameBehind(tail[i]))
        /\ sub \in Subscribers /\ cur \in {None} \cup Targets /\ susp \in BOOLEAN
        /\ lane \in Seq(Items) /\ LaneEvents \subseteq 1..core.last
    BY DEF Base, Shape, CoreOrder, RingsBehind
  <1>1. CASE FrameStart
    <2>1. tail # <<>> /\ Head(tail).kind = "frame" /\ at.pc = "idle"
          /\ UNCHANGED <<core, ckpt, lane, gaps, cur, susp, sub>>
      BY <1>1 DEF FrameStart, Frame, store, multiplex
    <2>2. CASE cur # None /\ cur.ring = Head(tail).ring /\ at' = [pc |-> "frame", target |-> cur]
               /\ tail' = tail
      <3>1. at' \in Positions /\ at'.pc = "frame" /\ at'.target = cur
        BY <2>2, <1>0 DEF Positions
      <3>2. HeadIsAt'
        BY <2>1, <2>2, <3>1 DEF Base, HeadIsAt
      <3> QED BY <2>1, <2>2, <3>1, <3>2, <1>0, LaneStands DEF Base, RingsBehind, LaneEvents
    <2>3. CASE Finish
      BY <2>1, <2>3, WorkEnds DEF Finish
    <2> QED BY <1>1, <2>2, <2>3 DEF FrameStart, Frame
  <1>2. CASE FrameAccepted
    <2>1. at.pc = "frame" /\ UNCHANGED <<core, susp, sub>>
          /\ (ckpt # None => ckpt.ring = Frame.ring) /\ ingestBatch(Frame.ring, Frame.from, Frame.to)
          /\ cur' = Target(Frame.ring, Frame.to) /\ tail' = Tail(tail) /\ at' = Idle
      BY <1>2 DEF FrameAccepted, Finish
    <2>2. /\ tail # <<>> /\ Frame \in FrameWork /\ FrameBehind(Frame) /\ Frame.kind = "frame"
          /\ (sub.cand # None => sub.cand.via # "tail")
      BY <2>1, FrameStands DEF Base, HeadIsAt
    <2>3. Frame.from \in Nat /\ Frame.to \in Nat /\ Frame.ring \in Nat /\ 1 <= Frame.from
          /\ Frame.from <= Frame.to /\ Frame.to <= core.last /\ Frame.ring \in 1..LaneRing
      BY <2>2 DEF FrameWork, FrameBehind, Behind
    <2>4. lane' \in Seq(Items) /\ LaneEvents' = LaneEvents \cup (Frame.from..Frame.to)
          /\ ckpt' = Target(Frame.ring, Frame.to) /\ gaps' = gaps
      BY <2>1, <2>3, <1>0, BatchIsStored DEF ingestBatch
    <2>5. LaneEvents' \subseteq 1..core.last
      <3>1. Frame.from..Frame.to \subseteq 1..core.last
        BY <2>3, <1>0
      <3> QED BY <3>1, <2>4, <1>0
    <2>6. ckpt' \in Targets /\ ckpt'.ring = Frame.ring /\ ckpt'.after = Frame.to /\ cur' = ckpt'
      BY <2>1, <2>3, <2>4, TargetType
    <2>7. LaneRing <= Frame.ring /\ Frame.ring <= Ring
      <3>1. LaneRing \in Nat /\ LaneRing \in 1..Ring /\ Ring \in Nat
        BY LaneRingType, RingType DEF Base
      <3> QED BY <2>1, <2>3, <3>1 DEF LaneRing
    <2>8. Pos(ckpt'.ring, ckpt'.after) <= core.last
      BY <2>3, <2>6 DEF Pos, Start
    <2>9. HeadIsAt'
      BY <2>1, <2>2 DEF HeadIsAt, Idle
    <2>10. tail' \in Seq(Works) /\ (\A i \in DOMAIN tail' : FrameBehind(tail'[i])) /\ at' \in Positions
      BY <2>1, <2>2, PoppedFrames, PositionTypes
    <2> QED BY <2>1, <2>4, <2>5, <2>6, <2>7, <2>8, <2>9, <2>10, <1>0, CheckpointMoves
  <1>3. CASE FrameStale
    <2>1. at.pc = "frame" /\ ckpt # None /\ ckpt.ring = Frame.ring /\ susp' = TRUE /\ cur' = None
          /\ at' = [pc |-> "stale", target |-> Target(Frame.ring, ckpt.after)]
          /\ UNCHANGED <<core, ckpt, lane, gaps, tail, sub>>
      BY <1>3 DEF FrameStale, store
    <2>2. ckpt \in Targets
      BY <2>1 DEF Base, Shape
    <2>3. Target(Frame.ring, ckpt.after) = ckpt
      BY <2>1, <2>2 DEF Target, Targets
    <2>4. at' \in Positions /\ at'.pc = "stale" /\ at'.target = ckpt
      BY <2>1, <2>2, <2>3 DEF Positions
    <2>5. tail # <<>> /\ Head(tail).kind = "frame" /\ Frame = Head(tail)
          /\ (sub.cand # None => sub.cand.via # "tail")
      BY <2>1 DEF Base, HeadIsAt, Frame
    <2>6. HeadIsAt'
      BY <2>1, <2>4, <2>5 DEF HeadIsAt
    <2> QED BY <2>1, <2>4, <2>6, <1>0, LaneStands DEF Base, RingsBehind, LaneEvents
  <1>4. CASE StaleReplace
    <2> DEFINE t == IF prepareMultiplexTarget = None THEN at.target ELSE prepareMultiplexTarget
    <2>1. at.pc = "stale" /\ replaceSelected(t, "tail")
          /\ (IF cur = t THEN Finish ELSE at' = [pc |-> "subscribing"] /\ UNCHANGED <<tail, scan>>)
          /\ UNCHANGED <<core, ckpt, lane, gaps, susp>>
      BY <1>4 DEF StaleReplace, store
    <2>2. at.target \in Targets /\ ckpt = at.target /\ tail # <<>>
          /\ (sub.cand # None => sub.cand.via # "tail")
      BY <2>1, PositionTypes DEF Base, HeadIsAt, Shape
    <2>3. at.target # None /\ Behind(at.target.ring) /\ Pos(at.target.ring, at.target.after) <= core.last
      BY <2>2, NoneIsNothing, LaneRingType DEF Base, RingsBehind, Behind, LaneRing
    <2>4. t \in Targets /\ Behind(t.ring) /\ Pos(t.ring, t.after) <= core.last
      BY <2>2, <2>3, PreparedTarget
    <2> HIDE DEF t
    <2>5. /\ sub' \in Subscribers /\ cur' = cur /\ sub'.feed = sub.feed
          /\ \/ cur = t /\ sub' = sub
             \/ /\ cur # t /\ sub'.cand # None /\ sub'.cand.via = "tail"
                /\ sub'.cand.ring = t.ring /\ sub'.cand.after = t.after
      BY <2>1, <2>4, ReplacedSubscription
    <2>6. \/ cur # t /\ tail # <<>> /\ tail' = tail /\ at' = [pc |-> "subscribing"]
          \/ cur = t /\ tail # <<>> /\ tail' = Tail(tail) /\ at' = Idle
      BY <2>1, <2>2 DEF Finish
    <2> QED BY <2>1, <2>2, <2>4, <2>5, <2>6, <1>0, SubscriptionMoves
  <1> QED BY <1>1, <1>2, <1>3, <1>4

\* The subscription.
LEMMA SubscriptionKeepsBase ==
    ASSUME Base, \/ restoreMultiplexRoute \/ collectMultiplexCandidate
                 \/ EstablishFails \/ Reconnect
    PROVE  Base'
  <1>0. sub \in Subscribers /\ cur \in {None} \cup Targets /\ susp \in BOOLEAN
    BY DEF Base, Shape
  <1>1. CASE restoreMultiplexRoute
    <2>1. at.pc = "restore" /\ UNCHANGED <<core, ckpt, lane, gaps, susp>> /\ tail # <<>>
          /\ (sub.cand # None => sub.cand.via # "tail")
      BY <1>1 DEF restoreMultiplexRoute, store, Base, HeadIsAt
    <2>2. CASE Finish /\ UNCHANGED <<cur, sub>>
      BY <2>1, <2>2, WorkEnds DEF Finish
    <2>3. CASE clearTargets /\ Finish
      BY <2>1, <2>3, <1>0, ClearedSubscription, SubscriptionMoves DEF Finish
    <2>4. CASE /\ prepareMultiplexTarget # None /\ replaceSelected(prepareMultiplexTarget, "tail")
               /\ IF cur = prepareMultiplexTarget THEN Finish
                  ELSE at' = [pc |-> "subscribing"] /\ UNCHANGED <<tail, scan>>
      <3> DEFINE t == prepareMultiplexTarget
      <3>1. t \in Targets /\ Behind(t.ring) /\ Pos(t.ring, t.after) <= core.last
        BY <2>4, PreparedTarget
      <3>2. replaceSelected(t, "tail")
            /\ (IF cur = t THEN Finish ELSE at' = [pc |-> "subscribing"] /\ UNCHANGED <<tail, scan>>)
        BY <2>4
      <3> HIDE DEF t
      <3>3. /\ sub' \in Subscribers /\ cur' = cur /\ sub'.feed = sub.feed
            /\ \/ cur = t /\ sub' = sub
               \/ /\ cur # t /\ sub'.cand # None /\ sub'.cand.via = "tail"
                  /\ sub'.cand.ring = t.ring /\ sub'.cand.after = t.after
        BY <3>1, <3>2, ReplacedSubscription
      <3>4. \/ cur # t /\ tail # <<>> /\ tail' = tail /\ at' = [pc |-> "subscribing"]
            \/ cur = t /\ tail # <<>> /\ tail' = Tail(tail) /\ at' = Idle
        BY <2>1, <3>2 DEF Finish
      <3> QED BY <2>1, <3>1, <3>3, <3>4, <1>0, SubscriptionMoves
    <2> QED BY <1>1, <2>2, <2>3, <2>4 DEF restoreMultiplexRoute
  <1>2. CASE collectMultiplexCandidate
    <2> DEFINE t == IF ~left.mux \/ retry # "none" \/ cooldown \/ susp THEN None
                    ELSE IF prepareMultiplexTarget # None THEN prepareMultiplexTarget ELSE cur
    <2>1. UNCHANGED <<core, ckpt, lane, gaps, susp, tail, at>>
          /\ (sub.cand # None => sub.cand.via = "reconnect")
          /\ IF t = None THEN clearTargets ELSE replaceSelected(t, "scan")
      BY <1>2 DEF collectMultiplexCandidate, store, CanReplace
    <2>2. CASE t = None
      BY <2>1, <2>2, <1>0, ClearedSubscription, SubscriptionMoves
    <2>3. CASE t # None
      <3>1. t = cur \/ (t = prepareMultiplexTarget /\ prepareMultiplexTarget # None)
        BY <2>3
      <3>2. replaceSelected(t, "scan")
        BY <2>1, <2>3
      <3>3. CASE t = cur
        <4> HIDE DEF t
        <4>1. sub' = sub /\ cur' = cur
          BY <3>2, <3>3 DEF replaceSelected
        <4> QED BY <4>1, <2>1, NothingMoves DEF Base, Shape, LaneEvents
      <3>4. CASE t = prepareMultiplexTarget /\ prepareMultiplexTarget # None
        <4>1. t \in Targets /\ Behind(t.ring) /\ Pos(t.ring, t.after) <= core.last
          BY <3>4, PreparedTarget
        <4> HIDE DEF t
        <4>2. /\ sub' \in Subscribers /\ cur' = cur /\ sub'.feed = sub.feed
              /\ \/ cur = t /\ sub' = sub
                 \/ /\ cur # t /\ sub'.cand # None /\ sub'.cand.via = "scan"
                    /\ sub'.cand.ring = t.ring /\ sub'.cand.after = t.after
          BY <3>2, <4>1, ReplacedSubscription
        <4> QED BY <2>1, <4>1, <4>2, <1>0, SubscriptionMoves
      <3> QED BY <3>1, <3>3, <3>4
    <2> QED BY <2>2, <2>3
  <1>3. CASE EstablishFails
    <2>1. sub' = [sub EXCEPT !.cand = None, !.timer = TRUE] /\ sub.cand # None
          /\ tail' = (IF sub.cand.via = "tail" THEN Tail(tail) ELSE tail)
          /\ at' = (IF sub.cand.via = "tail" THEN Idle ELSE at)
          /\ UNCHANGED <<core, ckpt, lane, gaps, cur, susp>>
      BY <1>3 DEF EstablishFails, Settled, store
    <2>2. sub' \in Subscribers /\ sub'.cand = None /\ sub'.feed = sub.feed
      BY <2>1, <1>0 DEF Subscribers
    <2>3. sub.cand.via = "tail" => tail # <<>>
      BY <2>1 DEF Base, HeadIsAt
    <2> QED BY <2>1, <2>2, <2>3, <1>0, SubscriptionMoves
  <1>4. CASE Reconnect
    <2> DEFINE t == prepareMultiplexTarget
               c == [ring |-> t.ring, after |-> t.after, via |-> "reconnect"]
    <2>1. UNCHANGED <<core, ckpt, lane, gaps, susp, tail, at, cur>> /\ sub.cand = None
      BY <1>4 DEF Reconnect, store
    <2>2. CASE sub' = sub
      BY <2>1, <2>2, NothingMoves DEF Base, Shape, LaneEvents
    <2>3. CASE t # None /\ sub' = [sub EXCEPT !.timer = FALSE, !.cand = c]
      <3>1. t \in Targets /\ Behind(t.ring) /\ Pos(t.ring, t.after) <= core.last
        BY <2>3, PreparedTarget
      <3> HIDE DEF t
      <3>2. c \in Candidates /\ c # None /\ c.ring = t.ring /\ c.after = t.after /\ c.via = "reconnect"
            /\ sub' \in Subscribers
        BY <2>3, <3>1, CandidateType
      <3> HIDE DEF c
      <3>3. sub'.cand = c /\ sub'.feed = sub.feed
        BY <2>3, <1>0 DEF Subscribers
      <3> QED BY <2>1, <3>1, <3>2, <3>3, <1>0, SubscriptionMoves
    <2> QED BY <1>4, <2>2, <2>3 DEF Reconnect
  <1> QED BY <1>1, <1>2, <1>3, <1>4

\* The subscription is acknowledged.
LEMMA ActivationKeepsBase ==
    ASSUME Base, activateMultiplexTargets
    PROVE  Base'
  <1> DEFINE c == sub.cand
             q == IF c.via = "tail" THEN Tail(tail) ELSE tail
             wanted == c.via # "reconnect" \/ (des # None /\ des.ring = c.ring)
             f == [on |-> TRUE, ring |-> c.ring, pos |-> Pos(c.ring, c.after), mine |-> wanted,
                   gapped |-> FALSE]
  <1>1. /\ c # None /\ sub' = [sub EXCEPT !.cand = None, !.wanted = TRUE, !.feed = f]
        /\ \/ cur' = Target(c.ring, c.after) /\ susp' = FALSE /\ tail' = Outdated(q)
           \/ tail' = q /\ UNCHANGED <<cur, susp>>
        /\ at' = (IF c.via = "tail" THEN Idle ELSE at)
        /\ UNCHANGED <<core, ckpt, lane, gaps>>
    BY DEF activateMultiplexTargets, Settled, store
  <1>2. sub \in Subscribers /\ cur \in {None} \cup Targets /\ susp \in BOOLEAN /\ tail \in Seq(Works)
        /\ at \in Positions /\ c \in Candidates /\ (\A i \in DOMAIN tail : FrameBehind(tail[i]))
    BY <1>1 DEF Base, Shape, Subscribers, RingsBehind
  <1>3. c.ring \in Nat /\ c.after \in Nat /\ Behind(c.ring) /\ Pos(c.ring, c.after) <= core.last
    BY <1>1, <1>2 DEF Base, RingsBehind, Candidates
  <1>4. Pos(c.ring, c.after) \in Nat
    BY <1>3, BehindIsRing, PosType DEF Base
  <1>5. f \in Feeds /\ f.on /\ f.ring = c.ring /\ f.pos = Pos(c.ring, c.after)
    <2>1. wanted \in BOOLEAN
      OBVIOUS
    <2> HIDE DEF c, wanted
    <2> QED BY <2>1, <1>3, <1>4 DEF Feeds
  <1> HIDE DEF f
  <1>6. sub' \in Subscribers /\ sub'.cand = None /\ sub'.feed = f
    BY <1>1, <1>2, <1>5 DEF Subscribers
  <1>7. Target(c.ring, c.after) \in Targets /\ Target(c.ring, c.after).ring = c.ring
    BY <1>3, TargetType
  <1>8. q \in Seq(Works) /\ (\A i \in DOMAIN q : FrameBehind(q[i]))
        /\ (c.via = "tail" => tail # <<>>)
    <2>1. c.via = "tail" => tail # <<>>
      BY <1>1 DEF Base, HeadIsAt
    <2> QED BY <2>1, <1>2, PoppedFrames
  <1>9. c.via # "tail" => q = tail
    OBVIOUS
  <1> HIDE DEF c, q
  <1>10. /\ tail' \in Seq(Works) /\ Len(tail') = Len(q) /\ DOMAIN tail' = DOMAIN q
         /\ \A i \in DOMAIN q : tail'[i].kind = q[i].kind
         /\ \A i \in DOMAIN q : q[i].kind = "frame" =>
              tail'[i].ring = q[i].ring /\ tail'[i].from = q[i].from /\ tail'[i].to = q[i].to
    BY <1>1, <1>8, OutdatedTail
  <1>11. \A i \in DOMAIN tail' : FrameBehind(tail'[i])
    BY <1>8, <1>10 DEF FrameBehind
  <1>12. at' \in Positions
    BY <1>1, <1>2, PositionTypes
  <1>13. HeadIsAt'
    <2>1. CASE c.via = "tail"
      BY <2>1, <1>1, <1>6 DEF HeadIsAt, Idle
    <2>2. CASE c.via # "tail"
      <3>1. at' = at /\ q = tail
        BY <2>2, <1>1, <1>9
      <3>2. ASSUME tail # <<>>
            PROVE  tail' # <<>> /\ Head(tail').kind = Head(tail).kind
                   /\ (Head(tail).kind = "frame" => Head(tail').ring = Head(tail).ring)
        <4>1. 1 \in DOMAIN tail /\ Head(tail) = tail[1] /\ Len(tail) > 0
          BY <3>2, <1>2
        <4>2. tail' # <<>> /\ Head(tail') = tail'[1]
          BY <4>1, <3>1, <1>10
        <4> QED BY <4>1, <4>2, <3>1, <1>10
      <3> QED BY <3>1, <3>2, <1>1, <1>6 DEF Base, HeadIsAt
    <2> QED BY <2>1, <2>2
  <1>14. cur' \in {None} \cup Targets /\ (cur' # None => Behind(cur'.ring)) /\ susp' \in BOOLEAN
    BY <1>1, <1>2, <1>3, <1>7 DEF Base, RingsBehind
  <1> QED BY <1>1, <1>3, <1>5, <1>6, <1>10, <1>11, <1>12, <1>13, <1>14, LaneStands
          DEF Base, Shape, LaneEvents

\* What is queued, and frames that arrive.
LEMMA WorkKeepsBase ==
    ASSUME Base, \/ Disconnect \/ handleMultiplexFrame \/ handleGapFrame
                 \/ reconcileOnce \/ notifySources
    PROVE  Base'
  <1>0. /\ sub \in Subscribers /\ cur \in {None} \cup Targets /\ susp \in BOOLEAN /\ tail \in Seq(Works)
        /\ lane \in Seq(Items) /\ sub.feed \in Feeds /\ core.last \in Nat
    BY DEF Base, Shape, Subscribers
  <1>1. Work("v2") \in ReadWork /\ [Work("v2") EXCEPT !.scan = TRUE] \in ReadWork
    BY DEF Work, ReadWork
  <1> HIDE DEF Work
  <1>2. CASE Disconnect
    <2>1. sub' = [sub EXCEPT !.feed = NoFeed, !.timer = TRUE] /\ cur' = None
          /\ UNCHANGED <<core, ckpt, lane, gaps, at>>
          /\ \/ susp' = TRUE /\ tail' = Append(tail, Work("v2"))
             \/ UNCHANGED <<susp, tail>>
      BY <1>2 DEF Disconnect, store, enqueue
    <2>2. sub' \in Subscribers /\ sub'.cand = sub.cand /\ ~sub'.feed.on
      BY <2>1, <1>0, FeedTypes DEF Subscribers
    <2>3. CASE susp' = TRUE /\ tail' = Append(tail, Work("v2"))
      BY <2>1, <2>2, <2>3, <1>1, ReadIsQueued
    <2>4. CASE UNCHANGED <<susp, tail>>
      BY <2>1, <2>2, <2>4, <1>0, SubscriptionMoves DEF Base, HeadIsAt
    <2> QED BY <2>1, <2>3, <2>4
  <1>3. CASE handleMultiplexFrame
    <2> DEFINE to == IF core.last < sub.feed.pos + BatchSize THEN core.last ELSE sub.feed.pos + BatchSize
               w == [kind |-> "frame", scan |-> FALSE, live |-> TRUE,
                     ring |-> Ring, from |-> sub.feed.pos + 1, to |-> to]
    <2>1. /\ sub.feed.on /\ sub.feed.ring = Ring /\ sub.feed.pos < core.last
          /\ sub' = [sub EXCEPT !.feed.pos = to] /\ tail' \in {tail, Append(tail, w)}
          /\ UNCHANGED <<core, ckpt, lane, gaps, at, cur, susp>>
      BY <1>3 DEF handleMultiplexFrame, store, enqueue
    <2>2. sub.feed \in [on : {TRUE}, ring : Nat, pos : Nat, mine : BOOLEAN, gapped : BOOLEAN]
          /\ Behind(sub.feed.ring) /\ sub.feed.pos \in Nat
      BY <2>1, <1>0, FeedTypes DEF Base, RingsBehind
    <2>3. to \in Nat /\ sub.feed.pos + 1 <= to /\ to <= core.last /\ sub.feed.pos + 1 \in Nat
      <3>1. sub.feed.pos \in Nat /\ BatchSize \in Nat /\ BatchSize > 0
        BY <2>2, EventInboxAssumption
      <3> QED BY <3>1, <2>1, <1>0
    <2>4. w \in Works /\ FrameBehind(w) /\ w.kind = "frame"
      <3>1. Ring \in Nat
        BY RingType DEF Base
      <3>2. w \in FrameWork
        BY <3>1, <2>3 DEF FrameWork
      <3> HIDE DEF to
      <3>3. w.ring = sub.feed.ring /\ w.from = sub.feed.pos + 1 /\ w.to = to /\ w.kind = "frame"
        BY <2>1
      <3>4. 1 <= sub.feed.pos + 1
        BY <2>2
      <3> HIDE DEF w
      <3> QED BY <3>2, <3>3, <3>4, <2>2, <2>3 DEF Works, FrameBehind
    <2> HIDE DEF to, w
    <2>5. sub' \in Subscribers /\ sub'.cand = sub.cand /\ sub'.feed.ring = sub.feed.ring
          /\ sub'.feed.pos = to
      <3>1. sub' = [sub EXCEPT !.feed = [sub.feed EXCEPT !.pos = to]]
        BY <2>1, <1>0 DEF Subscribers
      <3>2. [sub.feed EXCEPT !.pos = to] \in Feeds /\ [sub.feed EXCEPT !.pos = to].pos = to
            /\ [sub.feed EXCEPT !.pos = to].ring = sub.feed.ring
        BY <2>2, <2>3 DEF Feeds
      <3> QED BY <3>1, <3>2, <1>0 DEF Subscribers
    <2>6. tail' \in Seq(Works) /\ (\A i \in DOMAIN tail' : FrameBehind(tail'[i]))
      BY <2>1, <2>4, <1>0, AppendedFrames DEF Base, RingsBehind
    <2>7. tail # <<>> => tail' # <<>> /\ Head(tail') = Head(tail)
      BY <2>1, <2>4, <1>0, Appended
    <2>8. HeadIsAt'
      BY <2>1, <2>5, <2>7 DEF Base, HeadIsAt
    <2> QED BY <2>1, <2>2, <2>3, <2>5, <2>6, <2>8, <1>0, LaneStands DEF Base, Shape, RingsBehind,
               LaneEvents
  <1>4. CASE handleGapFrame
    <2>1. /\ sub.feed.on /\ sub' = [sub EXCEPT !.feed.gapped = TRUE]
          /\ UNCHANGED <<core, ckpt, lane, gaps, at>>
          /\ \/ susp' = TRUE /\ cur' = None /\ tail' = Append(tail, Work("v2"))
             \/ UNCHANGED <<susp, tail, cur>>
      BY <1>4 DEF handleGapFrame, store, enqueue
    <2>2. sub.feed \in [on : {TRUE}, ring : Nat, pos : Nat, mine : BOOLEAN, gapped : BOOLEAN]
      BY <2>1, <1>0, FeedTypes
    <2>3. sub' \in Subscribers /\ sub'.cand = sub.cand /\ sub'.feed.ring = sub.feed.ring
          /\ sub'.feed.pos = sub.feed.pos
      <3>1. sub' = [sub EXCEPT !.feed = [sub.feed EXCEPT !.gapped = TRUE]]
        BY <2>1, <1>0 DEF Subscribers
      <3>2. [sub.feed EXCEPT !.gapped = TRUE] \in Feeds
            /\ [sub.feed EXCEPT !.gapped = TRUE].pos = sub.feed.pos
            /\ [sub.feed EXCEPT !.gapped = TRUE].ring = sub.feed.ring
        BY <2>2 DEF Feeds
      <3> QED BY <3>1, <3>2, <1>0 DEF Subscribers
    <2>4. CASE susp' = TRUE /\ cur' = None /\ tail' = Append(tail, Work("v2"))
      BY <2>1, <2>3, <2>4, <1>1, ReadIsQueued
    <2>5. CASE UNCHANGED <<susp, tail, cur>>
      BY <2>1, <2>3, <2>5, <1>0, SubscriptionMoves DEF Base, HeadIsAt
    <2> QED BY <2>1, <2>4, <2>5
  <1>5. CASE reconcileOnce
    <2>1. UNCHANGED <<core, ckpt, lane, gaps, at, cur, susp, sub>>
          /\ (tail' = tail \/ tail' = Append(tail, [Work("v2") EXCEPT !.scan = TRUE]))
      BY <1>5 DEF reconcileOnce, store, multiplex, enqueue
    <2>2. CASE tail' = tail
      BY <2>1, <2>2, <1>0, NothingMoves DEF LaneEvents
    <2>3. CASE tail' = Append(tail, [Work("v2") EXCEPT !.scan = TRUE])
      BY <2>1, <2>3, <1>0, <1>1, ReadIsQueued
    <2> QED BY <2>1, <2>2, <2>3
  <1>6. CASE notifySources
    <2>1. UNCHANGED <<core, ckpt, lane, gaps, at, cur, susp, sub>> /\ tail' = Append(tail, Work("v2"))
      BY <1>6 DEF notifySources, store, multiplex, enqueue
    <2> QED BY <2>1, <1>0, <1>1, ReadIsQueued
  <1> QED BY <1>2, <1>3, <1>4, <1>5, <1>6

\* The process dies.
LEMMA RestartKeepsBase == ASSUME Base, Restart PROVE Base'
  <1>1. UNCHANGED <<core, ckpt, lane, gaps>> /\ tail' = <<>> /\ at' = Idle /\ cur' = None
        /\ susp' = FALSE /\ sub' = NoSubscription
    BY DEF Restart, store, NoSubscription
  <1>2. HeadIsAt'
    BY <1>1, ClearedType DEF HeadIsAt, Idle
  <1>3. tail' \in Seq(Works) /\ DOMAIN tail' = {}
    BY <1>1
  <1> QED BY ZenonT(40), <1>1, <1>2, <1>3, ClearedType, PositionTypes, LaneStands DEF Base, Shape, LaneEvents

\* Every step keeps the shape, the rings and the tail in order.
LEMMA BaseStep == ASSUME Base, rev \in Nat, [Next]_vars PROVE Base'
  <1>0. lane \in Seq(Items)
    BY DEF Base, Shape
  <1>1. CASE UNCHANGED vars
    BY <1>0, <1>1, NothingMoves DEF vars, store, multiplex, LaneEvents
  <1>2. CASE CoreWrite \/ CoreForget \/ CoreNewRing
    BY <1>2, CoreKeepsBase
  <1>3. CASE Failures
    BY <1>3, FailuresEnd, WorkEnds DEF Ends
  <1>4. CASE V2Attach \/ V2Transition \/ V2Expired \/ V2Invalid \/ V2Batch
    BY <1>4, ReadsKeepBase
  <1>5. CASE FrameStart \/ FrameAccepted \/ FrameStale \/ StaleReplace
    BY <1>5, FramesKeepBase
  <1>6. CASE restoreMultiplexRoute \/ collectMultiplexCandidate \/ EstablishFails \/ Reconnect
    BY <1>6, SubscriptionKeepsBase
  <1>7. CASE activateMultiplexTargets
    BY <1>7, ActivationKeepsBase
  <1>8. CASE \/ Disconnect \/ handleMultiplexFrame \/ handleGapFrame
             \/ reconcileOnce \/ notifySources
    BY <1>8, WorkKeepsBase
  <1>9. CASE Restart
    BY <1>9, RestartKeepsBase
  <1>10. CASE Settle
    BY <1>0, <1>10, SettlersKeepEvents, NothingMoves
  <1>11. CASE retryDue
    BY <1>0, <1>11, NothingMoves DEF retryDue, store, multiplex, LaneEvents
  <1>12. CASE ingestCanonicalSnapshotEvidence
    BY <1>0, <1>12, NothingMoves DEF ingestCanonicalSnapshotEvidence, multiplex, LaneEvents
  <1> QED
    BY <1>1, <1>2, <1>3, <1>4, <1>5, <1>6, <1>7, <1>8, <1>9, <1>10, <1>11, <1>12
       DEF Next, Environment, V2, Frames, Socket, Scan, Failures

\* They are in order at first.
LEMMA InitBase == ASSUME Init PROVE Base
  <1>1. PICK s \in Scenarios : core = [origins |-> <<1>>, first |-> 1, last |-> s.before]
    BY DEF Init
  <1>2. s.before \in Nat /\ s.before <= MaxEvents
    BY EventInboxAssumption DEF Scenario
  <1>3. ckpt = None /\ lane = <<>> /\ gaps = {} /\ tail = <<>> /\ at = Idle /\ cur = None
        /\ susp = FALSE /\ sub = NoSubscription
    BY DEF Init, NoSubscription
  <1>4. core.origins = <<1>> /\ core.first = 1 /\ core.last = s.before /\ Ring = 1 /\ FirstOf(1) = 1
    BY <1>1 DEF Ring, FirstOf
  <1>5. LaneEvents = {}
    BY <1>3 DEF LaneEvents
  <1>6. Shape
    <2>1. core \in [origins : Seq(Nat), first : Nat, last : Nat]
      BY <1>1, <1>2
    <2>2. lane \in Seq(Items) /\ tail \in Seq(Works)
      BY <1>3
    <2> QED BY <2>1, <2>2, <1>3, ClearedType, PositionTypes DEF Shape
  <1>7. CoreOrder
    BY <1>2, <1>3, <1>4, <1>5 DEF CoreOrder
  <1>8. RingsBehind
    BY <1>3, ClearedType DEF RingsBehind
  <1>9. HeadIsAt
    BY <1>3, ClearedType DEF HeadIsAt, Idle
  <1> QED BY <1>6, <1>7, <1>8, <1>9 DEF Base

-----------------------------------------------------------------------------
(* The gaps of single events. *)

\* The fields of an item.
LEMMA ItemTypes ==
    ASSUME lane \in Seq(Items), NEW k \in DOMAIN lane
    PROVE  /\ lane[k] \in Items /\ lane[k].rev \in Nat
           /\ lane[k].st \in {"pending", "projected", "ignored", "quarantined"}
  <1>1. lane[k] \in Items
    OBVIOUS
  <1> QED BY <1>1 DEF Items

\* Compensation closes no gap but that of its event, and only an older reducer's.
LEMMA Compensated ==
    ASSUME itemGaps \in [DOMAIN itemGaps -> Nat], NEW e, itemGaps' = compensateProjectionEvent(e)
    PROVE  /\ DOMAIN itemGaps' \subseteq DOMAIN itemGaps
           /\ itemGaps' \in [DOMAIN itemGaps' -> Nat]
           /\ \A f \in DOMAIN itemGaps' : itemGaps'[f] = itemGaps[f]
           /\ \A f \in DOMAIN itemGaps : f # e => f \in DOMAIN itemGaps'
           /\ e \in DOMAIN itemGaps /\ itemGaps[e] >= rev => e \in DOMAIN itemGaps'
           /\ e \in DOMAIN itemGaps /\ ~(itemGaps[e] >= rev) => e \notin DOMAIN itemGaps'
  BY DEF compensateProjectionEvent

\* Opening a gap changes no other.
LEMMA Opened ==
    ASSUME itemGaps \in [DOMAIN itemGaps -> Nat], rev \in Nat, NEW e, itemGaps' = openGap(e)
    PROVE  /\ DOMAIN itemGaps' = DOMAIN itemGaps \cup {e}
           /\ itemGaps' \in [DOMAIN itemGaps' -> Nat]
           /\ itemGaps'[e] = rev
           /\ \A f \in DOMAIN itemGaps : f # e => itemGaps'[f] = itemGaps[f]
  BY DEF openGap

\* A verdict on an item that is pending, or that no older reducer quarantined.
LEMMA VerdictKeepsGaps ==
    ASSUME lane \in Seq(Items), rev \in Nat, rev' = rev, EventsOnce, GapsOfItems,
           NEW i \in DOMAIN lane, lane[i].st = "quarantined" => lane[i].rev >= rev,
           acknowledgeProjected(i) \/ acknowledgeQuarantined(i)
    PROVE  EventsOnce' /\ GapsOfItems' /\ DOMAIN lane' = DOMAIN lane
           /\ \A k \in DOMAIN lane :
                /\ lane'[k].ev = lane[k].ev
                /\ \/ lane'[k].st = lane[k].st /\ lane'[k].rev = lane[k].rev
                   \/ lane'[k].st # "quarantined" \/ lane'[k].rev >= rev
  <1> DEFINE e == lane[i].ev
  <1>1. /\ DOMAIN itemGaps \subseteq LaneEvents /\ itemGaps \in [DOMAIN itemGaps -> Nat]
        /\ \A k \in DOMAIN lane :
             /\ lane[k].st = "quarantined" =>
                  lane[k].ev \in DOMAIN itemGaps /\ itemGaps[lane[k].ev] = lane[k].rev
             /\ lane[k].st \in {"projected", "ignored"} => lane[k].ev \notin DOMAIN itemGaps
             /\ lane[k].st = "pending" /\ lane[k].ev \in DOMAIN itemGaps => itemGaps[lane[k].ev] < rev
    BY DEF GapsOfItems
  <1>2. \A k \in DOMAIN lane : lane[k] \in Items /\ lane[k].rev \in Nat
                               /\ lane[k].st \in {"pending", "projected", "ignored", "quarantined"}
    BY ItemTypes
  <1>3. \A k \in DOMAIN lane : k # i => lane[k].ev # e
    BY DEF EventsOnce
  <1>4. SUFFICES /\ DOMAIN lane' = DOMAIN lane
                 /\ \A k \in DOMAIN lane :
                      /\ lane'[k].ev = lane[k].ev
                      /\ \/ lane'[k].st = lane[k].st /\ lane'[k].rev = lane[k].rev
                         \/ lane'[k].st # "quarantined" \/ lane'[k].rev >= rev
                 /\ DOMAIN itemGaps' \subseteq LaneEvents /\ itemGaps' \in [DOMAIN itemGaps' -> Nat]
                 /\ \A k \in DOMAIN lane :
                      /\ lane'[k].st = "quarantined" =>
                           lane'[k].ev \in DOMAIN itemGaps' /\ itemGaps'[lane'[k].ev] = lane'[k].rev
                      /\ lane'[k].st \in {"projected", "ignored"} => lane'[k].ev \notin DOMAIN itemGaps'
                      /\ lane'[k].st = "pending" /\ lane'[k].ev \in DOMAIN itemGaps' =>
                           itemGaps'[lane'[k].ev] < rev
    <2>1. LaneEvents' = LaneEvents
      BY <1>4 DEF LaneEvents
    <2>2. EventsOnce'
      BY <1>4 DEF EventsOnce
    <2>3. GapsOfItems'
      BY <2>1, <1>4 DEF GapsOfItems
    <2> QED BY <2>2, <2>3, <1>4
  <1>5. CASE acknowledgeProjected(i)
    <2>1. itemGaps' = compensateProjectionEvent(e)
      BY <1>5 DEF acknowledgeProjected
    <2>2. /\ DOMAIN itemGaps' \subseteq DOMAIN itemGaps
          /\ itemGaps' \in [DOMAIN itemGaps' -> Nat]
          /\ \A f \in DOMAIN itemGaps' : itemGaps'[f] = itemGaps[f]
          /\ \A f \in DOMAIN itemGaps : f # e => f \in DOMAIN itemGaps'
          /\ e \in DOMAIN itemGaps /\ itemGaps[e] >= rev => e \in DOMAIN itemGaps'
          /\ e \in DOMAIN itemGaps /\ ~(itemGaps[e] >= rev) => e \notin DOMAIN itemGaps'
      BY <2>1, <1>1, Compensated
    <2>3. /\ DOMAIN lane' = DOMAIN lane
          /\ \A k \in DOMAIN lane : k # i \/ ~Pending(i) => lane'[k] = lane[k]
          /\ Pending(i) => lane'[i].ev = e /\ lane'[i].st = "projected"
      BY <1>5, ProjectedItem
    <2>4. Pending(i) => e \notin DOMAIN itemGaps'
      <3>1. Pending(i) /\ e \in DOMAIN itemGaps => itemGaps[e] < rev /\ itemGaps[e] \in Nat
        BY <1>1 DEF Pending
      <3> QED BY <3>1, <2>2
    <2>5. lane[i].st = "quarantined" => e \in DOMAIN itemGaps' /\ itemGaps'[e] = lane[i].rev
      BY <1>1, <1>2, <2>2
    <2>6. ASSUME NEW k \in DOMAIN lane
          PROVE  /\ lane'[k].ev = lane[k].ev
                 /\ lane'[k] = lane[k] \/ lane'[k].st = "projected"
                 /\ lane'[k].st = "quarantined" =>
                      lane'[k].ev \in DOMAIN itemGaps' /\ itemGaps'[lane'[k].ev] = lane'[k].rev
                 /\ lane'[k].st \in {"projected", "ignored"} => lane'[k].ev \notin DOMAIN itemGaps'
                 /\ lane'[k].st = "pending" /\ lane'[k].ev \in DOMAIN itemGaps' =>
                      itemGaps'[lane'[k].ev] < rev
      <3>1. CASE k # i
        <4>1. lane'[k] = lane[k] /\ lane[k].ev # e
          BY <3>1, <2>3, <1>3
        <4> HIDE DEF e
        <4> QED BY <4>1, <1>1, <2>2
      <3>2. CASE k = i /\ Pending(i)
        BY <3>2, <2>3, <2>4
      <3>3. CASE k = i /\ ~Pending(i)
        <4>1. lane'[i] = lane[i] /\ lane[i].st # "pending"
          BY <3>3, <2>3 DEF Pending
        <4> QED BY <4>1, <3>3, <2>2, <2>5, <1>1
      <3> QED BY <3>1, <3>2, <3>3
    <2> HIDE DEF e
    <2> QED BY <2>2, <2>3, <2>6, <1>1
  <1>6. CASE acknowledgeQuarantined(i) /\ ~Pending(i)
    BY <1>1, <1>6 DEF acknowledgeQuarantined
  <1>7. CASE acknowledgeQuarantined(i) /\ Pending(i)
    <2>1. /\ DOMAIN lane' = DOMAIN lane
          /\ \A k \in DOMAIN lane : k # i => lane'[k] = lane[k]
          /\ lane'[i].ev = e /\ lane'[i].rev = rev
          /\ \/ lane'[i].st = "quarantined" /\ itemGaps' = openGap(e)
             \/ lane'[i].st = "pending" /\ itemGaps' = itemGaps
      BY <1>7, FailedItem
    <2>2. e \in LaneEvents
      BY DEF LaneEvents
    <2>3. CASE lane'[i].st = "pending" /\ itemGaps' = itemGaps
      <3>1. lane[i].st = "pending"
        BY <1>7 DEF Pending
      <3> QED BY <2>1, <2>3, <3>1, <1>1
    <2>4. CASE lane'[i].st = "quarantined" /\ itemGaps' = openGap(e)
      <3>1. /\ DOMAIN itemGaps' = DOMAIN itemGaps \cup {e}
            /\ itemGaps' \in [DOMAIN itemGaps' -> Nat]
            /\ itemGaps'[e] = rev
            /\ \A f \in DOMAIN itemGaps : f # e => itemGaps'[f] = itemGaps[f]
        BY <2>4, <1>1, Opened
      <3> HIDE DEF e
      <3>2. ASSUME NEW k \in DOMAIN lane
            PROVE  /\ lane'[k].ev = lane[k].ev
                   /\ lane'[k] = lane[k] \/ lane'[k].rev >= rev
                   /\ lane'[k].st = "quarantined" =>
                        lane'[k].ev \in DOMAIN itemGaps' /\ itemGaps'[lane'[k].ev] = lane'[k].rev
                   /\ lane'[k].st \in {"projected", "ignored"} => lane'[k].ev \notin DOMAIN itemGaps'
                   /\ lane'[k].st = "pending" /\ lane'[k].ev \in DOMAIN itemGaps' =>
                        itemGaps'[lane'[k].ev] < rev
        <4>1. CASE k # i
          <5>1. lane'[k] = lane[k] /\ lane[k].ev # e
            BY <4>1, <2>1, <1>3
          <5> QED BY <5>1, <1>1, <3>1
        <4>2. CASE k = i
          BY <4>2, <2>1, <2>4, <3>1 DEF e
        <4> QED BY <4>1, <4>2
      <3> QED BY <2>1, <2>2, <3>1, <3>2, <1>1
    <2> QED BY <2>1, <2>3, <2>4
  <1> QED BY <1>5, <1>6, <1>7

\* Who changes the items, their gaps, the release or what the cursor holds.
ItemActions == V2Batch \/ FrameAccepted \/ Settle \/ Restart

\* All other steps leave items and gaps alone.
LEMMA OthersLeaveItems ==
    ASSUME [Next]_vars, ~ItemActions
    PROVE  UNCHANGED <<lane, itemGaps, rev, held>>
  BY DEF ItemActions, Next, Environment, V2, Frames, Socket, Scan, vars, store, multiplex,
         CoreWrite, CoreForget, CoreNewRing, Disconnect, EstablishFails, notifySources,
         ingestCanonicalSnapshotEvidence, V2Attach, V2AttachFails, V2Transition,
         rebaseEpochTransition, transitionSource, V2TransitionRefused, V2ReadFails, V2Expired,
         rebaseExpiredCheckpoint, bootstrapExpiredLane, V2ExpiredAgain, V2Invalid,
         recordInvalidCursorGap, V2BatchRolledBack, restoreMultiplexRoute, FrameStart, FrameStale,
         StaleReplace, FrameFails, activateMultiplexTargets, Reconnect, handleMultiplexFrame,
         handleGapFrame, reconcileOnce, collectMultiplexCandidate, retryDue

\* New items have no gap.
LEMMA BatchKeepsItems ==
    ASSUME lane \in Seq(Items), ItemInv, UNCHANGED <<itemGaps, rev, held>>,
           NEW r, NEW from \in Nat, NEW to \in Nat, ingestBatch(r, from, to)
    PROVE  ItemInv'
  <1>1. /\ lane' \in Seq(Items)
        /\ \A i \in DOMAIN lane : i \in DOMAIN lane' /\ lane'[i] = lane[i]
        /\ \A i \in DOMAIN lane' : i \in DOMAIN lane \/ NewItem(i)
        /\ LaneEvents' = LaneEvents \cup (from..to)
        /\ EventsOnce'
    BY BatchIsStored DEF ItemInv
  <1>2. HeldIsItem'
    BY <1>1 DEF ItemInv, HeldIsItem
  <1>3. GapsOfItems'
    <2>1. DOMAIN itemGaps' \subseteq LaneEvents' /\ itemGaps' \in [DOMAIN itemGaps' -> Nat]
      BY <1>1 DEF ItemInv, GapsOfItems
    <2>2. ASSUME NEW i \in DOMAIN lane'
          PROVE  /\ lane'[i].st = "quarantined" =>
                      lane'[i].ev \in DOMAIN itemGaps /\ itemGaps[lane'[i].ev] = lane'[i].rev
                 /\ lane'[i].st \in {"projected", "ignored"} => lane'[i].ev \notin DOMAIN itemGaps
                 /\ lane'[i].st = "pending" /\ lane'[i].ev \in DOMAIN itemGaps =>
                      itemGaps[lane'[i].ev] < rev
      <3>1. CASE i \in DOMAIN lane
        BY <3>1, <1>1 DEF ItemInv, GapsOfItems
      <3>2. CASE NewItem(i)
        BY <3>2 DEF NewItem, ItemInv, GapsOfItems
      <3> QED BY <3>1, <3>2, <1>1
    <2> QED BY <2>1, <2>2 DEF GapsOfItems
  <1> QED BY <1>1, <1>2, <1>3 DEF ItemInv

\* The cursor releases what an older reducer quarantined.
LEMMA LoadKeepsItems ==
    ASSUME lane \in Seq(Items), ItemInv, loadPending
    PROVE  ItemInv'
  <1> DEFINE fresh == [i \in DOMAIN lane |->
                         IF lane[i].st = "quarantined" /\ lane[i].rev < rev
                           THEN [lane[i] EXCEPT !.st = "pending", !.tries = 0, !.rev = rev]
                           ELSE lane[i]]
             heads == {i \in DOMAIN lane : /\ fresh[i].st = "pending"
                                           /\ \A j \in 1..(i - 1) : fresh[j].st # "pending"}
  <1>1. heads # {} /\ lane' = fresh /\ held' = lane[CHOOSE i \in heads : TRUE].ev
        /\ UNCHANGED <<itemGaps, rev>>
    BY DEF loadPending
  <1>2. \A i \in DOMAIN lane : lane[i] \in Items /\ lane[i].rev \in Nat
    BY ItemTypes
  <1>3. \A i \in DOMAIN lane :
          /\ fresh[i].ev = lane[i].ev
          /\ \/ fresh[i] = lane[i] /\ ~(lane[i].st = "quarantined" /\ lane[i].rev < rev)
             \/ fresh[i].st = "pending" /\ lane[i].st = "quarantined" /\ lane[i].rev < rev
    BY <1>2 DEF Items
  <1>4. DOMAIN fresh = DOMAIN lane
    OBVIOUS
  <1>5. PICK h \in DOMAIN lane : held' = lane[h].ev /\ fresh[h].st = "pending"
    BY <1>1
  <1> HIDE DEF fresh, heads
  <1>6. LaneEvents' = LaneEvents
    BY <1>1, <1>3, <1>4 DEF LaneEvents
  <1>7. EventsOnce'
    BY <1>1, <1>3, <1>4 DEF ItemInv, EventsOnce
  <1>8. GapsOfItems'
    <2>1. rev' = rev /\ itemGaps' = itemGaps
      BY <1>1
    <2>2. ASSUME NEW i \in DOMAIN lane
          PROVE  /\ fresh[i].st = "quarantined" =>
                      fresh[i].ev \in DOMAIN itemGaps /\ itemGaps[fresh[i].ev] = fresh[i].rev
                 /\ fresh[i].st \in {"projected", "ignored"} => fresh[i].ev \notin DOMAIN itemGaps
                 /\ fresh[i].st = "pending" /\ fresh[i].ev \in DOMAIN itemGaps =>
                      itemGaps[fresh[i].ev] < rev
      BY <1>3 DEF ItemInv, GapsOfItems
    <2>3. DOMAIN itemGaps \subseteq LaneEvents /\ itemGaps \in [DOMAIN itemGaps -> Nat]
      BY DEF ItemInv, GapsOfItems
    <2> QED BY <2>1, <2>2, <2>3, <1>1, <1>4, <1>6 DEF GapsOfItems
  <1>9. HeldIsItem'
    BY <1>1, <1>3, <1>4, <1>5 DEF HeldIsItem
  <1> QED BY <1>1, <1>7, <1>8, <1>9 DEF ItemInv

\* Every step keeps items and gaps in agreement.
LEMMA ItemStep == ASSUME Base, ItemInv, [Next]_vars PROVE ItemInv'
  <1>0. lane \in Seq(Items) /\ rev \in Nat
    BY DEF Base, Shape, ItemInv
  <1>1. CASE UNCHANGED <<lane, itemGaps, rev, held>>
    BY <1>1 DEF ItemInv, EventsOnce, GapsOfItems, HeldIsItem, LaneEvents
  <1>2. CASE V2Batch
    <2>1. at.pc = "read" /\ UNCHANGED <<rev, held>> /\ itemGaps' = itemGaps
          /\ (lane' = lane \/ ingestBatch(at.ring, ReadPos + 1, BatchEnd))
      BY <1>2 DEF V2Batch, BatchEnd, ingestBatch
    <2>2. ReadPos + 1 \in Nat /\ BatchEnd \in Nat
      BY <2>1, ReadStands, BatchEndType
    <2> QED BY <2>1, <2>2, <1>0, <1>1, BatchKeepsItems
  <1>3. CASE FrameAccepted
    <2>1. at.pc = "frame" /\ UNCHANGED <<rev, held>> /\ itemGaps' = itemGaps
          /\ ingestBatch(Frame.ring, Frame.from, Frame.to)
      BY <1>3 DEF FrameAccepted, ingestBatch
    <2>2. Frame.from \in Nat /\ Frame.to \in Nat
      BY <2>1, FrameStands DEF FrameWork
    <2> QED BY <2>1, <2>2, <1>0, BatchKeepsItems
  <1>4. CASE loadPending
    BY <1>0, <1>4, LoadKeepsItems
  <1>5. CASE CursorAcknowledge
    <2>1. held # NoEvent /\ held' = NoEvent /\ rev' = rev
          /\ (acknowledgeProjected(Item(held)) \/ acknowledgeQuarantined(Item(held)))
      BY <1>5 DEF CursorAcknowledge
    <2>2. PICK i \in DOMAIN lane : lane[i].ev = held /\ (lane[i].st = "quarantined" => lane[i].rev >= rev)
      BY <2>1 DEF ItemInv, HeldIsItem
    <2>3. Item(held) = i
      BY <2>2 DEF Item, ItemInv, EventsOnce
    <2>4. EventsOnce' /\ GapsOfItems'
      BY <2>1, <2>2, <2>3, <1>0, VerdictKeepsGaps DEF ItemInv
    <2> QED BY <2>1, <2>4, <1>0 DEF ItemInv, HeldIsItem
  <1>6. CASE reprojectHistoricalCandidate
    <2>1. PICK i \in DOMAIN lane :
            HeadPending(i) /\ (acknowledgeProjected(i) \/ acknowledgeQuarantined(i))
      BY <1>6 DEF reprojectHistoricalCandidate
    <2>2. rev' = rev /\ held' = held /\ lane[i].st = "pending"
      BY <1>6, <2>1 DEF reprojectHistoricalCandidate, HeadPending, Pending
    <2>3. EventsOnce' /\ GapsOfItems' /\ DOMAIN lane' = DOMAIN lane
          /\ \A k \in DOMAIN lane :
               /\ lane'[k].ev = lane[k].ev
               /\ \/ lane'[k].st = lane[k].st /\ lane'[k].rev = lane[k].rev
                  \/ lane'[k].st # "quarantined" \/ lane'[k].rev >= rev
      BY <2>1, <2>2, <1>0, VerdictKeepsGaps DEF ItemInv
    <2>4. HeldIsItem'
      BY <2>2, <2>3 DEF ItemInv, HeldIsItem
    <2> QED BY <2>2, <2>3, <2>4, <1>0 DEF ItemInv
  <1>7. CASE Restart
    <2>1. UNCHANGED <<lane, itemGaps>> /\ rev' \in {rev, rev + 1} /\ held' = NoEvent
      BY <1>7 DEF Restart, store
    <2>2. EventsOnce' /\ HeldIsItem' /\ rev' \in Nat /\ rev <= rev'
      BY <2>1, <1>0 DEF ItemInv, EventsOnce, HeldIsItem
    <2>3. GapsOfItems'
      <3>1. \A f \in DOMAIN itemGaps : itemGaps[f] \in Nat
        BY DEF ItemInv, GapsOfItems
      <3>2. \A n \in Nat : n < rev => n < rev'
        BY <2>2, <1>0
      <3> QED BY <2>1, <3>1, <3>2 DEF ItemInv, GapsOfItems, LaneEvents
    <2> QED BY <2>2, <2>3 DEF ItemInv
  <1> QED BY <1>1, <1>2, <1>3, <1>4, <1>5, <1>6, <1>7, OthersLeaveItems DEF ItemActions, Settle

\* A quarantined item has its gap and a projected one has none, whichever settler comes first
\* and whatever release runs.
THEOREM GapsTellTheTruth == Spec => []QuarantineIsVisible
  <1>1. Init => Base /\ ItemInv
    <2>1. Init => ItemInv
      BY DEF Init, ItemInv, EventsOnce, GapsOfItems, HeldIsItem, LaneEvents
    <2> QED BY <2>1, InitBase
  <1>2. Base /\ ItemInv /\ [Next]_vars => (Base /\ ItemInv)'
    BY BaseStep, ItemStep DEF ItemInv
  <1>3. Base /\ ItemInv => QuarantineIsVisible
    BY DEF ItemInv, GapsOfItems, QuarantineIsVisible
  <1> QED BY <1>1, <1>2, <1>3, PTL DEF Spec

-----------------------------------------------------------------------------
(* What is dealt with. *)

\* Only what Core has forgotten is lost, and nothing before the lane begins.
LEMMA LostIsForgotten ==
    ASSUME Base
    PROVE  (\A e \in Lost : e \in Nat /\ e < core.first) /\ (ckpt = None => Lost = {})
  <1>1. core.first \in Nat /\ \A g \in gaps : g.after \in Nat /\ g.resume \in Nat
    BY DEF Base, Shape
  <1>2. ASSUME NEW e \in Lost
        PROVE  e \in Nat /\ \E g \in gaps : e < g.resume /\ ~(g.resume <= g.after)
    <2>1. e \in Nat /\ \E g \in gaps : g.after < e /\ e < g.resume
      BY EventInboxAssumption DEF Lost, Event, Covered
    <2> QED BY <2>1, <1>1
  <1>3. \A g \in gaps : g.resume <= core.first \/ g.resume <= g.after
    BY DEF Base, CoreOrder
  <1>4. ckpt = None => \A g \in gaps : g.resume <= g.after
    BY DEF Base, CoreOrder
  <1> QED BY <1>1, <1>2, <1>3, <1>4

\* The positions that are compared.
LEMMA PositionsAreNumbers ==
    ASSUME Base
    PROVE  /\ core.first \in Nat /\ core.last \in Nat /\ core.last <= MaxEvents /\ MaxEvents \in Nat
           /\ ckpt # None => CkptPos \in Nat /\ CkptPos <= core.last
           /\ cur # None => CurPos \in Nat
           /\ sub.cand # None => CandPos \in Nat /\ CandPos <= core.last
           /\ at.pc = "frame" => TargetPos \in Nat
  <1>1. core.first \in Nat /\ core.last \in Nat /\ core.last <= MaxEvents /\ MaxEvents \in Nat
    BY EventInboxAssumption DEF Base, Shape, CoreOrder
  <1>2. ASSUME ckpt # None PROVE CkptPos \in Nat /\ CkptPos <= core.last
    BY <1>2, PosType DEF Base, Shape, RingsBehind, CkptPos, Targets
  <1>3. ASSUME cur # None PROVE CurPos \in Nat
    BY <1>3, PosType, BehindIsRing DEF Base, Shape, RingsBehind, CurPos, Targets
  <1>4. ASSUME sub.cand # None PROVE CandPos \in Nat /\ CandPos <= core.last
    BY <1>4, PosType, BehindIsRing DEF Base, Shape, RingsBehind, CandPos, Subscribers, Candidates
  <1>5. ASSUME at.pc = "frame" PROVE TargetPos \in Nat
    <2>1. at.target \in Targets /\ at.target.ring = Frame.ring /\ FrameBehind(Frame) /\ Frame.kind = "frame"
      BY <1>5, FrameStands
    <2>2. at.target.ring \in 1..Ring /\ at.target.after \in Nat
      BY <2>1, BehindIsRing DEF FrameBehind, Targets
    <2> QED BY <2>2, PosType DEF Base, TargetPos
  <1> QED BY <1>1, <1>2, <1>3, <1>4, <1>5

\* A position moves with its target only.
LEMMA SamePositions ==
    ASSUME UNCHANGED core
    PROVE  /\ ckpt' = ckpt => CkptPos' = CkptPos
           /\ cur' = cur => CurPos' = CurPos
           /\ sub'.cand = sub.cand => CandPos' = CandPos
           /\ at' = at => TargetPos' = TargetPos
  BY DEF CkptPos, CurPos, CandPos, TargetPos, Pos, FirstOf

\* A gap that names no event changes nothing.
LEMMA SameEvents ==
    ASSUME LaneEvents' = LaneEvents, gaps \subseteq gaps',
           \A g \in gaps' : g \in gaps \/ (g.after \in Nat /\ g.resume = g.after)
    PROVE  Dealt' = Dealt /\ Lost' = Lost
  <1>1. ASSUME NEW e \in Event PROVE Covered(e)' <=> Covered(e)
    <2>1. e \in Nat
      BY EventInboxAssumption DEF Event
    <2>2. \A g \in gaps' : g.after < e /\ e < g.resume => g \in gaps
      BY <2>1
    <2> QED BY <2>2 DEF Covered
  <1> QED BY <1>1 DEF Dealt, Lost

\* What is dealt with up to p is so up to any position before p.
LEMMA PrefixTo ==
    ASSUME NEW p \in Nat, NEW q \in Nat, q <= p, Prefix(p)
    PROVE  Prefix(q)
  BY DEF Prefix

\* The fields of a frame.
LEMMA FrameTypes ==
    ASSUME Base, NEW i \in DOMAIN tail, tail[i].kind = "frame"
    PROVE  /\ tail[i] \in FrameWork /\ tail[i].live \in BOOLEAN
           /\ tail[i].from \in Nat /\ tail[i].to \in Nat /\ tail[i].ring \in Nat
           /\ 1 <= tail[i].from /\ tail[i].from <= tail[i].to /\ tail[i].to <= core.last
  <1>1. tail[i] \in FrameWork
    BY WorkTypes DEF Base, Shape
  <1>2. FrameBehind(tail[i])
    BY DEF Base, RingsBehind
  <1> QED BY <1>1, <1>2 DEF FrameBehind, FrameWork

\* The tail is a sequence of work.
LEMMA TailType ==
    ASSUME Base
    PROVE  tail \in Seq(Works) /\ Len(tail) \in Nat /\ DOMAIN tail = 1..Len(tail)
  BY DEF Base, Shape

-----------------------------------------------------------------------------
(* The chain of the frames, while the tail stands, loses its head or grows. *)

\* The tail stands.
LEMMA ChainStays ==
    ASSUME Base, tail' = tail, LaneRing' = LaneRing, Dealt \subseteq Dealt', Running => Running'
    PROVE  /\ Chained => Chained'
           /\ \A p \in Nat : Supported(Len(tail), p) => Supported(Len(tail), p)'
           /\ \A i \in DOMAIN tail' : LiveFrame(i)' => LiveFrame(i)
  <1>1. \A n, p : Supported(n, p) => Supported(n, p)'
    BY DEF Supported, Prefix, Carries, IsFrame
  <1>2. \A i : LiveFrame(i)' <=> LiveFrame(i)
    BY DEF LiveFrame, IsFrame
  <1>3. Chained => Chained'
    <2> SUFFICES ASSUME Chained, NEW i \in DOMAIN tail, LiveFrame(i)
                 PROVE  Supported(i - 1, tail[i].from - 1)'
      BY <1>2 DEF Chained
    <2>1. Supported(i - 1, tail[i].from - 1)
      BY DEF Chained
    <2> QED BY <2>1 DEF Supported, Prefix, Carries, IsFrame
  <1>4. ASSUME NEW p \in Nat, Supported(Len(tail), p) PROVE Supported(Len(tail), p)'
    BY <1>4 DEF Supported, Prefix, Carries, IsFrame
  <1> QED BY <1>2, <1>3, <1>4

\* Work is added: a frame must continue what is before it.
LEMMA ChainGrows ==
    ASSUME Base, NEW w \in Works, tail' = Append(tail, w), LaneRing' = LaneRing,
           Dealt \subseteq Dealt', Running => Running'
    PROVE  /\ w.kind # "frame" /\ Chained => Chained'
           /\ Chained /\ Supported(Len(tail), w.from - 1) => Chained'
           /\ \A p \in Nat : Supported(Len(tail), p) => Supported(Len(tail), p)'
           /\ \A i \in DOMAIN tail' :
                LiveFrame(i)' => \/ i \in DOMAIN tail /\ LiveFrame(i) /\ tail'[i] = tail[i]
                                 \/ tail'[i] = w /\ w.kind = "frame" /\ i = Len(tail) + 1
           /\ tail # <<>> => tail'[1] = tail[1]
  <1>1. /\ tail \in Seq(Works) /\ Len(tail) \in Nat /\ DOMAIN tail = 1..Len(tail)
        /\ Len(tail') = Len(tail) + 1 /\ DOMAIN tail' = 1..(Len(tail) + 1)
        /\ tail'[Len(tail) + 1] = w /\ \A i \in 1..Len(tail) : tail'[i] = tail[i]
    BY TailType, Appended
  <1>2. ASSUME NEW n \in Nat, n <= Len(tail), NEW p, Supported(n, p)
        PROVE  Supported(n, p)'
    <2>1. CASE Prefix(p)
      BY <2>1 DEF Supported, Prefix
    <2>2. ASSUME NEW j \in 1..n, Carries(j), tail[j].to >= p PROVE Supported(n, p)'
      <3>1. tail'[j] = tail[j]
        BY <1>1, <1>2
      <3>2. Carries(j)'
        BY <2>2, <3>1 DEF Carries, IsFrame
      <3> QED BY <2>2, <3>1, <3>2 DEF Supported
    <2> QED BY <1>2, <2>1, <2>2 DEF Supported
  <1>3. \A i \in 1..Len(tail) : LiveFrame(i)' => LiveFrame(i)
    BY <1>1 DEF LiveFrame, IsFrame
  <1>4. \A i \in DOMAIN tail' : i \in 1..Len(tail) \/ i = Len(tail) + 1
    BY <1>1
  <1>5. ASSUME Chained, w.kind # "frame" \/ Supported(Len(tail), w.from - 1)
        PROVE  Chained'
    <2> SUFFICES ASSUME NEW i \in DOMAIN tail', LiveFrame(i)'
                 PROVE  Supported(i - 1, tail[i].from - 1)'
      BY DEF Chained
    <2>1. CASE i \in 1..Len(tail)
      <3>1. tail'[i] = tail[i] /\ LiveFrame(i) /\ i - 1 \in Nat /\ i - 1 <= Len(tail)
        BY <2>1, <1>1, <1>3
      <3>2. Supported(i - 1, tail[i].from - 1)
        BY <3>1, <2>1, <1>1, <1>5 DEF Chained
      <3>3. \A p : Supported(i - 1, p) => Supported(i - 1, p)'
        BY <3>1, <1>2
      <3> QED BY <3>1, <3>2, <3>3 DEF Supported, Prefix
    <2>2. CASE i = Len(tail) + 1
      <3>1. tail'[i] = w /\ w.kind = "frame" /\ i - 1 = Len(tail)
        BY <2>2, <1>1 DEF LiveFrame, IsFrame
      <3>2. Supported(i - 1, w.from - 1)
        BY <3>1, <1>5
      <3>3. \A p : Supported(i - 1, p) => Supported(i - 1, p)'
        BY <3>1, <1>1, <1>2
      <3> QED BY <3>1, <3>2, <3>3 DEF Supported, Prefix
    <2> QED BY <2>1, <2>2, <1>4
  <1>6. ASSUME NEW p \in Nat, Supported(Len(tail), p) PROVE Supported(Len(tail), p)'
    <2>1. Prefix(p)' \/ \E j \in 1..Len(tail) : Carries(j)' /\ tail'[j].to >= p
      BY <1>1, <1>2, <1>6 DEF Supported
    <2>2. 1..Len(tail) \subseteq 1..Len(tail')
      BY <1>1
    <2> QED BY <2>1, <2>2 DEF Supported
  <1>7. \A i \in DOMAIN tail' :
          LiveFrame(i)' => \/ i \in DOMAIN tail /\ LiveFrame(i) /\ tail'[i] = tail[i]
                           \/ tail'[i] = w /\ w.kind = "frame" /\ i = Len(tail) + 1
    BY <1>1, <1>3, <1>4 DEF LiveFrame, IsFrame
  <1>8. tail # <<>> => tail'[1] = tail[1]
    <2>1. tail # <<>> => 1 \in 1..Len(tail)
      BY <1>1
    <2> QED BY <2>1, <1>1
  <1> QED BY <1>5, <1>6, <1>7, <1>8

\* The head leaves: what it carries must have been stored.
LEMMA ChainPops ==
    ASSUME Base, tail # <<>>, tail' = Tail(tail), LaneRing' = LaneRing,
           Dealt \subseteq Dealt', Carries(1) => 1..(tail[1].to) \subseteq Dealt'
    PROVE  /\ Chained => Chained'
           /\ \A p \in Nat : Supported(Len(tail), p) => Supported(Len(tail), p)'
           /\ \A i \in DOMAIN tail' :
                i + 1 \in DOMAIN tail /\ tail'[i] = tail[i + 1] /\ (LiveFrame(i)' => LiveFrame(i + 1))
  <1>1. /\ tail \in Seq(Works) /\ Len(tail) \in Nat /\ Len(tail) >= 1 /\ DOMAIN tail = 1..Len(tail)
        /\ Len(tail') = Len(tail) - 1 /\ DOMAIN tail' = 1..(Len(tail) - 1)
        /\ \A i \in DOMAIN tail' : i + 1 \in DOMAIN tail /\ tail'[i] = tail[i + 1]
    BY TailType, Popped
  <1>2. ASSUME NEW n \in Nat, n + 1 <= Len(tail), NEW p \in Nat, Supported(n + 1, p)
        PROVE  Supported(n, p)'
    <2>1. CASE Prefix(p)
      BY <2>1 DEF Supported, Prefix
    <2>2. ASSUME NEW j \in 1..(n + 1), Carries(j), tail[j].to >= p PROVE Supported(n, p)'
      <3>1. j \in DOMAIN tail /\ tail[j].to \in Nat
        <4>1. j \in DOMAIN tail
          BY <1>1, <1>2
        <4> QED BY <4>1, <2>2, FrameTypes DEF Carries, IsFrame
      <3>2. CASE j = 1
        <4>1. 1..p \subseteq 1..(tail[1].to)
          BY <2>2, <3>1, <3>2, <1>2
        <4> QED BY <2>2, <3>2, <4>1 DEF Supported, Prefix
      <3>3. CASE j # 1
        <4>1. j - 1 \in 1..n /\ j - 1 \in DOMAIN tail' /\ (j - 1) + 1 = j
          BY <3>3, <1>1, <1>2
        <4>2. tail'[j - 1] = tail[j]
          BY <4>1, <1>1
        <4>3. Carries(j - 1)'
          BY <4>2, <2>2, <3>3 DEF Carries, IsFrame
        <4> QED BY <4>1, <4>2, <4>3, <2>2 DEF Supported
      <3> QED BY <3>2, <3>3
    <2> QED BY <1>2, <2>1, <2>2 DEF Supported
  <1>3. \A i \in DOMAIN tail' : LiveFrame(i)' => LiveFrame(i + 1)
    BY <1>1 DEF LiveFrame, IsFrame
  <1>4. ASSUME Chained PROVE Chained'
    <2> SUFFICES ASSUME NEW i \in DOMAIN tail', LiveFrame(i)'
                 PROVE  Supported(i - 1, tail[i].from - 1)'
      BY DEF Chained
    <2>1. i + 1 \in DOMAIN tail /\ tail'[i] = tail[i + 1] /\ LiveFrame(i + 1)
          /\ (i + 1) - 1 = (i - 1) + 1 /\ i - 1 \in Nat /\ (i - 1) + 1 <= Len(tail)
      BY <1>1, <1>3
    <2>2. tail[i + 1].from - 1 \in Nat
      BY <2>1, FrameTypes DEF LiveFrame, IsFrame
    <2>3. Supported((i + 1) - 1, tail[i + 1].from - 1)
      BY <2>1, <1>4 DEF Chained
    <2>4. Supported((i - 1) + 1, tail[i + 1].from - 1)
      BY <2>1, <2>3
    <2>5. \A p \in Nat : Supported((i - 1) + 1, p) => Supported(i - 1, p)'
      BY <2>1, <1>2
    <2> QED BY <2>1, <2>2, <2>4, <2>5 DEF Supported, Prefix
  <1>5. ASSUME NEW p \in Nat, Supported(Len(tail), p) PROVE Supported(Len(tail), p)'
    <2>1. Len(tail) - 1 \in Nat /\ (Len(tail) - 1) + 1 = Len(tail) /\ (Len(tail) - 1) + 1 <= Len(tail)
      BY <1>1
    <2>2. Prefix(p)' \/ \E j \in 1..(Len(tail) - 1) : Carries(j)' /\ tail'[j].to >= p
      BY <2>1, <1>2, <1>5 DEF Supported
    <2> QED BY <2>2, <1>1 DEF Supported
  <1> QED BY <1>1, <1>3, <1>4, <1>5

\* A step that leaves the events of the lane and its checkpoint alone.
TailStays == tail' = tail /\ Running' = Running /\ (Running => TargetPos' = TargetPos)
TailPops == tail # <<>> /\ tail' = Tail(tail) /\ ~Running' /\ (~susp' /\ Current' => ~Carries(1))
TailGrows == \E w \in ReadWork : tail' = Append(tail, w) /\ Running' = Running
                                 /\ (Running => TargetPos' = TargetPos)

\* The chain survives a step that neither stores events nor subscribes.
LEMMA QuietStep ==
    ASSUME Base, WayInv, NoFrameFails', Dealt' = Dealt, Lost' = Lost, LaneRing' = LaneRing,
           CheckpointIsDone',
           cur' = cur \/ cur' = None, cur' # None => CurPos' = CurPos,
           sub'.cand # None => Prefix(CandPos)',
           ~susp' => ~susp,
           MyFeed' => MyFeed /\ sub'.feed.pos = sub.feed.pos,
           cur # None /\ cur' = None /\ ~susp' => ~MyFeed',
           at'.pc \in {"stale", "subscribing"} /\ Head(tail').kind = "frame" =>
             susp' \/ ~Head(tail').live,
           TailStays \/ TailPops \/ TailGrows
    PROVE  WayInv'
  <1>0. \A p : Prefix(p)' <=> Prefix(p)
    BY DEF Prefix
  <1>1. \A p : Fresh(p)' <=> Fresh(p)
    BY DEF Fresh
  <1>2. NoHoles'
    BY DEF WayInv, NoHoles, Prefix
  <1>3. TargetsAreDone'
    <2>1. cur' # None => Prefix(CurPos)'
      BY DEF WayInv, TargetsAreDone, Prefix
    <2> QED BY <2>1 DEF TargetsAreDone
  <1>4. /\ Current' => Current
        /\ Current' => CurPos' = CurPos
        /\ MyFeed' => MyFeed /\ sub'.feed.pos = sub.feed.pos
        /\ cur' = None /\ ~susp' /\ MyFeed' => cur = None
    BY DEF Current
  <1>5. MyFeed => sub.feed.pos \in Nat
    BY FeedTypes DEF MyFeed, Base, Shape, Subscribers
  <1>6. tail \in Seq(Works) /\ Len(tail) \in Nat /\ DOMAIN tail = 1..Len(tail)
    BY TailType
  <1>7. Running => tail # <<>> /\ 1 \in DOMAIN tail
    BY FrameStands DEF Running
  <1>8. CASE TailPops
    <2>1. tail # <<>> /\ tail' = Tail(tail) /\ ~Running'
      BY <1>8 DEF TailPops
    <2>2. \A i \in DOMAIN tail' :
            i + 1 \in DOMAIN tail /\ tail'[i] = tail[i + 1] /\ (LiveFrame(i)' => LiveFrame(i + 1))
      <3>1. \A i \in DOMAIN tail' : i + 1 \in DOMAIN tail /\ tail'[i] = tail[i + 1]
        BY <2>1, <1>6, Popped
      <3> QED BY <3>1 DEF LiveFrame, IsFrame
    <2>3. ~susp' /\ Current' => /\ Chained => Chained'
                                /\ \A p \in Nat : Supported(Len(tail), p) => Supported(Len(tail), p)'
      BY <2>1, <1>8, ChainPops DEF TailPops
    <2>4. ~RunningFrame'
      BY <2>1 DEF RunningFrame
    <2>5. (~susp /\ (Current \/ RunningFrame) => Chained)'
      BY <2>3, <2>4, <1>4 DEF WayInv, FramesChain
    <2>6. (~susp /\ Current /\ MyFeed => FeedChained)'
      <3> SUFFICES ASSUME ~susp', Current', MyFeed' PROVE FeedChained'
        OBVIOUS
      <3>1. Supported(Len(tail), sub.feed.pos) /\ sub.feed.pos \in Nat /\ sub'.feed.pos = sub.feed.pos
        BY <1>4, <1>5 DEF WayInv, FramesChain, FeedChained
      <3>2. \A p \in Nat : Supported(Len(tail), p) => Supported(Len(tail), p)'
        BY <2>3
      <3> QED BY <3>1, <3>2 DEF FeedChained, Supported, Prefix
    <2>7. FramesChain'
      BY <2>4, <2>5, <2>6 DEF FramesChain
    <2>8. FramesAreFresh'
      <3> SUFFICES ASSUME Current', Fresh(CurPos)', NEW i \in DOMAIN tail', LiveFrame(i)'
                   PROVE  Fresh(tail[i].from - 1)'
        BY <2>4 DEF FramesAreFresh
      <3>1. Current /\ Fresh(CurPos)
        BY <1>4 DEF Fresh
      <3>2. Fresh(tail[i + 1].from - 1) /\ tail'[i] = tail[i + 1]
        BY <3>1, <2>2 DEF WayInv, FramesAreFresh
      <3> QED BY <3>2 DEF Fresh
    <2> QED BY <1>2, <1>3, <2>7, <2>8 DEF WayInv
  <1>9. ASSUME Running' = Running, Running => TargetPos' = TargetPos,
               Chained => Chained',
               \A p \in Nat : Supported(Len(tail), p) => Supported(Len(tail), p)',
               \A i \in DOMAIN tail' : LiveFrame(i)' => i \in DOMAIN tail /\ LiveFrame(i)
                                                        /\ tail'[i] = tail[i],
               tail # <<>> => tail'[1] = tail[1]
        PROVE  WayInv'
    <2>1. RunningFrame' <=> RunningFrame
      BY <1>7, <1>9 DEF RunningFrame, IsFrame
    <2>2. (~susp /\ (Current \/ RunningFrame) => Chained)'
      BY <2>1, <1>4, <1>9 DEF WayInv, FramesChain
    <2>3. (~susp /\ Current /\ MyFeed => FeedChained)'
      <3> SUFFICES ASSUME ~susp', Current', MyFeed' PROVE FeedChained'
        OBVIOUS
      <3>1. Supported(Len(tail), sub.feed.pos) /\ sub.feed.pos \in Nat /\ sub'.feed.pos = sub.feed.pos
        BY <1>4, <1>5 DEF WayInv, FramesChain, FeedChained
      <3> QED BY <3>1, <1>9 DEF FeedChained, Supported, Prefix
    <2>4. (RunningFrame => Prefix(tail[1].from - 1))'
      <3>1. RunningFrame => Prefix(tail[1].from - 1) /\ tail'[1] = tail[1]
        BY <1>7, <1>9 DEF WayInv, FramesChain, RunningFrame
      <3> QED BY <2>1, <3>1 DEF Prefix
    <2>5. (~susp /\ RunningFrame /\ MyFeed => Current)'
      <3>1. ~susp' /\ RunningFrame' /\ MyFeed' => Current /\ cur' = cur
        BY <2>1, <1>4 DEF WayInv, FramesChain, Current
      <3> QED BY <3>1 DEF Current
    <2>6. FramesChain'
      BY <2>2, <2>3, <2>4, <2>5 DEF FramesChain
    <2>7. FramesAreFresh'
      <3>1. ASSUME Current', Fresh(CurPos)', NEW i \in DOMAIN tail', LiveFrame(i)'
            PROVE  Fresh(tail[i].from - 1)'
        <4>1. Current /\ Fresh(CurPos)
          BY <3>1, <1>4 DEF Fresh
        <4>2. Fresh(tail[i].from - 1) /\ tail'[i] = tail[i]
          BY <3>1, <4>1, <1>9 DEF WayInv, FramesAreFresh
        <4> QED BY <4>2 DEF Fresh
      <3>2. ASSUME RunningFrame', Fresh(TargetPos)', NEW i \in DOMAIN tail', Carries(i)'
            PROVE  Fresh(tail[i].from - 1)'
        <4>1. RunningFrame /\ Fresh(TargetPos)
          BY <3>2, <2>1, <1>9 DEF Fresh, RunningFrame
        <4>2. i \in DOMAIN tail /\ Carries(i) /\ tail'[i] = tail[i]
          <5>1. CASE LiveFrame(i)'
            BY <5>1, <1>9 DEF Carries, LiveFrame
          <5>2. CASE i = 1
            BY <5>2, <4>1, <1>7, <1>9 DEF Carries, RunningFrame
          <5> QED BY <5>1, <5>2, <3>2 DEF Carries, LiveFrame
        <4>3. Fresh(tail[i].from - 1)
          BY <4>1, <4>2 DEF WayInv, FramesAreFresh
        <4> QED BY <4>2, <4>3 DEF Fresh
      <3> QED BY <3>1, <3>2 DEF FramesAreFresh
    <2> QED BY <1>2, <1>3, <2>6, <2>7 DEF WayInv
  <1>10. CASE TailStays
    <2>1. /\ Chained => Chained'
          /\ \A p \in Nat : Supported(Len(tail), p) => Supported(Len(tail), p)'
          /\ \A i \in DOMAIN tail' : LiveFrame(i)' => LiveFrame(i)
      BY <1>10, ChainStays DEF TailStays
    <2> QED BY <2>1, <1>9, <1>10 DEF TailStays
  <1>11. CASE TailGrows
    <2>1. PICK w \in ReadWork : tail' = Append(tail, w)
      BY <1>11 DEF TailGrows
    <2>2. w \in Works /\ w.kind = "v2"
      BY DEF Works, ReadWork
    <2>3. Running' = Running /\ (Running => TargetPos' = TargetPos)
      BY <1>11 DEF TailGrows
    <2>4. /\ Chained => Chained'
          /\ \A p \in Nat : Supported(Len(tail), p) => Supported(Len(tail), p)'
          /\ \A i \in DOMAIN tail' : LiveFrame(i)' => i \in DOMAIN tail /\ LiveFrame(i)
                                                      /\ tail'[i] = tail[i]
          /\ tail # <<>> => tail'[1] = tail[1]
      BY <2>1, <2>2, <2>3, ChainGrows
    <2> QED BY <2>3, <2>4, <1>9
  <1> QED BY <1>8, <1>10, <1>11

\* Nothing but a frame that fails takes from what is left for frames.
LEMMA FramesStayStored == ASSUME NoFrameFails, [Next]_vars PROVE NoFrameFails'
  <1>1. ASSUME NEW f, f # "frame", Spend(f) PROVE NoFrameFails'
    BY <1>1 DEF Spend, NoFrameFails
  <1>2. ASSUME left' = left PROVE NoFrameFails'
    BY <1>2 DEF NoFrameFails
  <1>3. ~(left.frame > 0)
    BY DEF NoFrameFails
  <1>4. CASE ingestCanonicalSnapshotEvidence
    BY <1>4 DEF ingestCanonicalSnapshotEvidence, NoFrameFails
  <1>5. CASE FrameFails
    BY <1>2, <1>3, <1>5 DEF FrameFails
  <1>6. CASE V2ReadFails
    BY <1>1, <1>2, <1>6 DEF V2ReadFails
  <1>7. CASE V2BatchRolledBack
    BY <1>1, <1>7 DEF V2BatchRolledBack, replayFails
  <1>8. CASE CoreForget \/ CoreNewRing \/ Disconnect \/ EstablishFails \/ Restart \/ V2AttachFails
             \/ V2Invalid
    BY <1>1, <1>8 DEF CoreForget, CoreNewRing, Disconnect, EstablishFails, Restart, V2AttachFails,
       V2Invalid
  <1>9. CASE Settle
    BY <1>1, <1>2, <1>9 DEF Settle, loadPending, CursorAcknowledge, reprojectHistoricalCandidate
  <1>10. CASE \/ CoreWrite \/ notifySources \/ V2Attach \/ V2Transition \/ V2TransitionRefused
              \/ V2Expired \/ V2ExpiredAgain \/ V2Batch \/ restoreMultiplexRoute
              \/ FrameStart \/ FrameAccepted \/ FrameStale \/ StaleReplace
    BY <1>2, <1>10 DEF CoreWrite, notifySources, V2Attach, V2Transition, V2TransitionRefused,
       V2Expired, V2ExpiredAgain, V2Batch, restoreMultiplexRoute, FrameStart, FrameAccepted,
       FrameStale, StaleReplace
  <1>11. CASE \/ activateMultiplexTargets \/ Reconnect \/ handleMultiplexFrame \/ handleGapFrame
              \/ reconcileOnce \/ collectMultiplexCandidate \/ retryDue \/ UNCHANGED vars
    BY <1>2, <1>11 DEF activateMultiplexTargets, Reconnect, handleMultiplexFrame, handleGapFrame,
       reconcileOnce, collectMultiplexCandidate, retryDue, vars
  <1> QED
    BY <1>4, <1>5, <1>6, <1>7, <1>8, <1>9, <1>10, <1>11
       DEF Next, Environment, V2, Frames, Socket, Scan

\* The same for a step that leaves the checkpoint alone, in terms of the variables.
LEMMA QuietLane ==
    ASSUME Base, WayInv, NoFrameFails', UNCHANGED <<core, ckpt>>, LaneEvents' = LaneEvents,
           gaps \subseteq gaps',
           \A g \in gaps' : g \in gaps \/ (g.after \in Nat /\ g.resume = g.after),
           cur' \in {cur, None}, susp' \in {susp, TRUE},
           sub'.cand # None =>
             sub'.cand = sub.cand \/ Prefix(Pos(sub'.cand.ring, sub'.cand.after)),
           sub'.feed.on => /\ sub.feed.on /\ sub'.feed.ring = sub.feed.ring
                           /\ sub'.feed.mine = sub.feed.mine /\ sub'.feed.pos = sub.feed.pos,
           cur # None /\ cur' = None /\ ~susp' => ~sub'.feed.on,
           \/ UNCHANGED <<tail, at>>
           \/ /\ tail' = tail /\ at.pc # "frame" /\ at'.pc # "frame"
              /\ at'.pc \in {"stale", "subscribing"} /\ Head(tail).kind = "frame" =>
                   susp' \/ ~Head(tail).live
           \/ tail # <<>> /\ tail' = Tail(tail) /\ at' = Idle /\ (~susp' /\ Current' => ~Carries(1))
           \/ at' = at /\ \E w \in ReadWork : tail' = Append(tail, w)
    PROVE  WayInv'
  <1>1. Dealt' = Dealt /\ Lost' = Lost
    BY SameEvents
  <1>2. LaneRing' = LaneRing
    BY DEF LaneRing
  <1>3. (cur' = cur => CurPos' = CurPos) /\ CkptPos' = CkptPos
        /\ (sub'.cand = sub.cand => CandPos' = CandPos) /\ (at' = at => TargetPos' = TargetPos)
    BY SamePositions
  <1>4. CheckpointIsDone'
    BY <1>1, <1>3 DEF WayInv, CheckpointIsDone, Prefix, Fresh, Ring, FirstOf
  <1>5. sub'.cand # None => Prefix(CandPos)'
    <2>1. CASE sub'.cand = sub.cand
      BY <2>1, <1>1, <1>3 DEF WayInv, TargetsAreDone, Prefix
    <2>2. CASE Prefix(Pos(sub'.cand.ring, sub'.cand.after))
      <3>1. CandPos' = Pos(sub'.cand.ring, sub'.cand.after)
        BY DEF CandPos, Pos, FirstOf
      <3> QED BY <2>2, <3>1, <1>1 DEF Prefix
    <2> QED BY <2>1, <2>2
  <1>6. MyFeed' => MyFeed /\ sub'.feed.pos = sub.feed.pos /\ sub'.feed.on
    BY <1>2 DEF MyFeed
  <1>7. tail \in Seq(Works)
    BY TailType
  <1>8. at.pc \in {"stale", "subscribing"} /\ Head(tail).kind = "frame" /\ ~susp' => ~Head(tail).live
    BY DEF WayInv, FramesChain
  <1>13. /\ cur' = cur \/ cur' = None
         /\ cur' # None => CurPos' = CurPos
         /\ ~susp' => ~susp
         /\ MyFeed' => MyFeed /\ sub'.feed.pos = sub.feed.pos
         /\ cur # None /\ cur' = None /\ ~susp' => ~MyFeed'
    <2>1. cur' = cur \/ cur' = None
      OBVIOUS
    <2>2. ~susp' => ~susp
      OBVIOUS
    <2>3. cur # None /\ cur' = None /\ ~susp' => ~MyFeed'
      BY <1>6
    <2> QED BY <2>1, <2>2, <2>3, <1>3, <1>6
  <1>9. CASE UNCHANGED <<tail, at>>
    <2>1. TailStays
      BY <1>3, <1>9 DEF TailStays, Running
    <2>2. at'.pc \in {"stale", "subscribing"} /\ Head(tail').kind = "frame" =>
              susp' \/ ~Head(tail').live
      BY <1>8, <1>9
    <2> QED BY <1>1, <1>2, <1>4, <1>5, <1>13, <2>1, <2>2, QuietStep
  <1>10. CASE /\ tail' = tail /\ at.pc # "frame" /\ at'.pc # "frame"
              /\ at'.pc \in {"stale", "subscribing"} /\ Head(tail).kind = "frame" =>
                   susp' \/ ~Head(tail).live
    <2>1. TailStays
      BY <1>10 DEF TailStays, Running
    <2>2. at'.pc \in {"stale", "subscribing"} /\ Head(tail').kind = "frame" =>
              susp' \/ ~Head(tail').live
      BY <1>10
    <2> QED BY <1>1, <1>2, <1>4, <1>5, <1>13, <2>1, <2>2, QuietStep
  <1>11. CASE tail # <<>> /\ tail' = Tail(tail) /\ at' = Idle /\ (~susp' /\ Current' => ~Carries(1))
    <2>1. TailPops /\ at'.pc = "idle"
      BY <1>11 DEF TailPops, Running, Idle
    <2>2. at'.pc \in {"stale", "subscribing"} /\ Head(tail').kind = "frame" =>
              susp' \/ ~Head(tail').live
      BY <2>1
    <2> QED BY <1>1, <1>2, <1>4, <1>5, <1>13, <2>1, <2>2, QuietStep
  <1>12. CASE at' = at /\ \E w \in ReadWork : tail' = Append(tail, w)
    <2>1. TailGrows
      BY <1>3, <1>12 DEF TailGrows, Running
    <2>2. at.pc # "idle" => Head(tail') = Head(tail)
      <3>1. PICK w \in ReadWork : tail' = Append(tail, w)
        BY <1>12
      <3>2. w \in Works
        BY DEF Works
      <3>3. at.pc # "idle" => tail # <<>>
        BY DEF Base, HeadIsAt
      <3> QED BY <3>1, <3>2, <3>3, <1>7, Appended
    <2>3. at'.pc \in {"stale", "subscribing"} /\ Head(tail').kind = "frame" =>
              susp' \/ ~Head(tail').live
      BY <1>8, <1>12, <2>2
    <2> QED BY <1>1, <1>2, <1>4, <1>5, <1>13, <2>1, <2>3, QuietStep
  <1> QED BY <1>9, <1>10, <1>11, <1>12

\* What can be subscribed from is dealt with.
LEMMA PreparedIsDone ==
    ASSUME Base, WayInv, prepareMultiplexTarget # None
    PROVE  Prefix(Pos(prepareMultiplexTarget.ring, prepareMultiplexTarget.after))
  <1>1. \/ ckpt # None /\ prepareMultiplexTarget = ckpt
        \/ Pos(prepareMultiplexTarget.ring, prepareMultiplexTarget.after) = 0
    BY PreparedTarget
  <1>2. ckpt # None => Prefix(Pos(ckpt.ring, ckpt.after))
    BY DEF WayInv, CheckpointIsDone, CkptPos
  <1>3. Prefix(0)
    BY DEF Prefix
  <1> QED BY <1>1, <1>2, <1>3

\* A replaced subscription is asked for from there.
LEMMA ReplacedIsDone ==
    ASSUME Base, WayInv, NEW t \in Targets, Prefix(Pos(t.ring, t.after)), Behind(t.ring),
           Pos(t.ring, t.after) <= core.last,
           NEW via \in {"tail", "scan", "reconnect"}, replaceSelected(t, via)
    PROVE  /\ cur' = cur /\ sub'.feed = sub.feed
           /\ sub'.cand # None =>
                sub'.cand = sub.cand \/ Prefix(Pos(sub'.cand.ring, sub'.cand.after))
  BY ReplacedSubscription

\* A read carries no event, nor does a stale frame of an owner that is back.
LEMMA HeadCarriesNothing ==
    ASSUME Base, WayInv, tail # <<>>,
           \/ Head(tail).kind = "v2" \/ (at.pc \in {"stale", "subscribing"} /\ ~susp)
    PROVE  ~Carries(1)
  <1>1. Head(tail) = tail[1]
    BY TailType, Popped
  <1> QED BY <1>1 DEF WayInv, FramesChain, Carries, IsFrame, Running

\* Reads that store nothing, and work that fails.
LEMMA QuietReads ==
    ASSUME Base, WayInv, NoFrameFails', Failures \/ V2Attach \/ V2Invalid
    PROVE  WayInv'
  <1>1. CASE Failures
    <2>1. Ends /\ UNCHANGED <<core, ckpt, lane, gaps, cur, susp, sub>>
          /\ (at.pc # "frame" => Head(tail).kind = "v2") /\ (at.pc = "frame" => FrameFails)
      BY <1>1, FailuresEnd
    <2>2. ~Carries(1)
      <3>1. CASE at.pc # "frame"
        BY <2>1, <3>1, HeadCarriesNothing DEF Ends
      <3>2. CASE at.pc = "frame"
        <4>1. ckpt # None /\ ckpt.ring # Frame.ring
          BY <2>1, <3>2 DEF FrameFails, WayInv, NoFrameFails
        <4> QED BY <3>2, <4>1, FrameStands DEF Carries, IsFrame, LaneRing
      <3> QED BY <3>1, <3>2
    <2>3. LaneEvents' = LaneEvents
      BY <2>1 DEF LaneEvents
    <2> QED BY <2>1, <2>2, <2>3, QuietLane DEF Ends
  <1>2. CASE V2Attach
    <2>1. at.pc \in {"idle", "again"} /\ at'.pc \in {"transition", "read"}
          /\ UNCHANGED <<core, ckpt, lane, gaps, tail, cur, susp, sub>>
      BY <1>2 DEF V2Attach, store, multiplex
    <2>2. LaneEvents' = LaneEvents
      BY <2>1 DEF LaneEvents
    <2> QED BY <2>1, <2>2, QuietLane
  <1>3. CASE V2Invalid
    <2>1. at.pc = "read" /\ UNCHANGED <<core, cur, susp, sub>>
      BY <1>3 DEF V2Invalid, multiplex
    <2>2. tail # <<>> /\ Head(tail).kind = "v2" /\ at.after \in Nat
      BY <2>1, ReadStands
    <2>3. CASE at' = [pc |-> "again", invalid |-> TRUE] /\ UNCHANGED <<store, tail>>
      <3>1. at'.pc = "again" /\ UNCHANGED <<ckpt, lane, gaps, tail>> /\ LaneEvents' = LaneEvents
        BY <2>3 DEF store, LaneEvents
      <3> QED BY <2>1, <3>1, QuietLane
    <2>4. CASE recordInvalidCursorGap /\ Finish
      <3>1. UNCHANGED <<ckpt, lane>> /\ tail' = Tail(tail) /\ at' = Idle /\ LaneEvents' = LaneEvents
            /\ gaps' = gaps \cup {[kind |-> "invalid_cursor", after |-> at.after, resume |-> at.after]}
        BY <2>4 DEF recordInvalidCursorGap, declareGap, Finish, LaneEvents
      <3>2. gaps \subseteq gaps' /\ \A g \in gaps' : g \in gaps \/ (g.after \in Nat /\ g.resume = g.after)
        BY <2>2, <3>1
      <3>3. ~Carries(1)
        BY <2>2, HeadCarriesNothing
      <3> QED BY <2>1, <2>2, <3>1, <3>2, <3>3, QuietLane
    <2> QED BY <1>3, <2>3, <2>4 DEF V2Invalid
  <1> QED BY <1>1, <1>2, <1>3

\* The subscription is asked for, left or lost.
LEMMA QuietSubscription ==
    ASSUME Base, WayInv, NoFrameFails',
           \/ restoreMultiplexRoute \/ collectMultiplexCandidate \/ StaleReplace
           \/ EstablishFails \/ Reconnect \/ Disconnect \/ handleGapFrame
    PROVE  WayInv'
  <1>0. sub \in Subscribers /\ Work("v2") \in ReadWork /\ tail \in Seq(Works)
    BY DEF Base, Shape, Work, ReadWork
  <1> HIDE DEF Work
  <1>1. CASE restoreMultiplexRoute
    <2>1. at.pc = "restore" /\ UNCHANGED <<core, ckpt, lane, gaps, susp>> /\ tail # <<>>
          /\ Head(tail).kind = "v2"
      BY <1>1 DEF restoreMultiplexRoute, store, Base, HeadIsAt
    <2>2. ~Carries(1) /\ LaneEvents' = LaneEvents
      BY <2>1, HeadCarriesNothing DEF LaneEvents
    <2>3. CASE Finish /\ UNCHANGED <<cur, sub>>
      BY <2>1, <2>2, <2>3, QuietLane DEF Finish
    <2>4. CASE clearTargets /\ Finish
      <3>1. tail' = Tail(tail) /\ at' = Idle
        BY <2>4 DEF Finish
      <3> QED BY <2>1, <2>2, <2>4, <3>1, ClearedSubscription, QuietLane
    <2>5. CASE /\ prepareMultiplexTarget # None /\ replaceSelected(prepareMultiplexTarget, "tail")
               /\ IF cur = prepareMultiplexTarget THEN Finish
                  ELSE at' = [pc |-> "subscribing"] /\ UNCHANGED <<tail, scan>>
      <3> DEFINE t == prepareMultiplexTarget
      <3>1. t \in Targets /\ Behind(t.ring) /\ Pos(t.ring, t.after) <= core.last
            /\ Prefix(Pos(t.ring, t.after))
        BY <2>5, PreparedTarget, PreparedIsDone
      <3>2. replaceSelected(t, "tail")
            /\ (IF cur = t THEN Finish ELSE at' = [pc |-> "subscribing"] /\ UNCHANGED <<tail, scan>>)
        BY <2>5
      <3> HIDE DEF t
      <3>3. /\ cur' = cur /\ sub'.feed = sub.feed
            /\ sub'.cand # None =>
                 sub'.cand = sub.cand \/ Prefix(Pos(sub'.cand.ring, sub'.cand.after))
        BY <3>1, <3>2, ReplacedIsDone
      <3>4. CASE tail' = Tail(tail) /\ at' = Idle
        BY <2>1, <2>2, <3>3, <3>4, QuietLane
      <3>5. CASE at' = [pc |-> "subscribing"] /\ tail' = tail
        BY <2>1, <2>2, <3>3, <3>5, QuietLane
      <3> QED BY <3>2, <3>4, <3>5 DEF Finish
    <2> QED BY <1>1, <2>3, <2>4, <2>5 DEF restoreMultiplexRoute
  <1>2. CASE collectMultiplexCandidate
    <2> DEFINE t == IF ~left.mux \/ retry # "none" \/ cooldown \/ susp THEN None
                    ELSE IF prepareMultiplexTarget # None THEN prepareMultiplexTarget ELSE cur
    <2>1. UNCHANGED <<core, ckpt, lane, gaps, susp, tail, at>>
          /\ IF t = None THEN clearTargets ELSE replaceSelected(t, "scan")
      BY <1>2 DEF collectMultiplexCandidate, store
    <2>2. LaneEvents' = LaneEvents
      BY <2>1 DEF LaneEvents
    <2>3. CASE t = None
      BY <2>1, <2>2, <2>3, ClearedSubscription, QuietLane
    <2>4. CASE t # None
      <3>1. t = cur \/ (t = prepareMultiplexTarget /\ prepareMultiplexTarget # None)
        BY <2>4
      <3>2. replaceSelected(t, "scan")
        BY <2>1, <2>4
      <3>3. CASE t = cur
        <4> HIDE DEF t
        <4>1. sub' = sub /\ cur' = cur
          BY <3>2, <3>3 DEF replaceSelected
        <4> QED BY <4>1, <2>1, <2>2, QuietLane
      <3>4. CASE t = prepareMultiplexTarget /\ prepareMultiplexTarget # None
        <4>1. t \in Targets /\ Behind(t.ring) /\ Pos(t.ring, t.after) <= core.last
              /\ Prefix(Pos(t.ring, t.after))
          BY <3>4, PreparedTarget, PreparedIsDone
        <4> HIDE DEF t
        <4>2. /\ cur' = cur /\ sub'.feed = sub.feed
              /\ sub'.cand # None =>
                   sub'.cand = sub.cand \/ Prefix(Pos(sub'.cand.ring, sub'.cand.after))
          BY <4>1, <3>2, ReplacedIsDone
        <4> QED BY <2>1, <2>2, <4>2, QuietLane
      <3> QED BY <3>1, <3>3, <3>4
    <2> QED BY <2>3, <2>4
  <1>3. CASE StaleReplace
    <2> DEFINE t == IF prepareMultiplexTarget = None THEN at.target ELSE prepareMultiplexTarget
    <2>1. at.pc = "stale" /\ replaceSelected(t, "tail")
          /\ (IF cur = t THEN Finish ELSE at' = [pc |-> "subscribing"] /\ UNCHANGED <<tail, scan>>)
          /\ UNCHANGED <<core, ckpt, lane, gaps, susp>>
      BY <1>3 DEF StaleReplace, store
    <2>2. at.target \in Targets /\ ckpt = at.target /\ tail # <<>> /\ LaneEvents' = LaneEvents
      BY <2>1, PositionTypes DEF Base, HeadIsAt, Shape, LaneEvents
    <2>3. at.target # None /\ Behind(at.target.ring) /\ Pos(at.target.ring, at.target.after) <= core.last
          /\ Prefix(Pos(at.target.ring, at.target.after))
      BY <2>2, NoneIsNothing, LaneRingType
         DEF Base, RingsBehind, Behind, LaneRing, WayInv, CheckpointIsDone, CkptPos
    <2>4. t \in Targets /\ Behind(t.ring) /\ Pos(t.ring, t.after) <= core.last
          /\ Prefix(Pos(t.ring, t.after))
      BY <2>2, <2>3, PreparedTarget, PreparedIsDone
    <2> HIDE DEF t
    <2>5. /\ cur' = cur /\ sub'.feed = sub.feed
          /\ sub'.cand # None =>
               sub'.cand = sub.cand \/ Prefix(Pos(sub'.cand.ring, sub'.cand.after))
      BY <2>1, <2>4, ReplacedIsDone
    <2>6. CASE tail' = Tail(tail) /\ at' = Idle
      <3>1. ~susp' => ~Carries(1)
        BY <2>1, <2>2, HeadCarriesNothing
      <3> QED BY <2>1, <2>2, <2>5, <2>6, <3>1, QuietLane
    <2>7. CASE at' = [pc |-> "subscribing"] /\ tail' = tail
      <3>1. Head(tail).kind = "frame" => susp' \/ ~Head(tail).live
        BY <2>1 DEF WayInv, FramesChain
      <3> QED BY <2>1, <2>2, <2>5, <2>7, <3>1, QuietLane
    <2> QED BY <2>1, <2>6, <2>7 DEF Finish
  <1>4. CASE EstablishFails
    <2>1. sub' = [sub EXCEPT !.cand = None, !.timer = TRUE] /\ sub.cand # None
          /\ tail' = (IF sub.cand.via = "tail" THEN Tail(tail) ELSE tail)
          /\ at' = (IF sub.cand.via = "tail" THEN Idle ELSE at)
          /\ UNCHANGED <<core, ckpt, lane, gaps, cur, susp>>
      BY <1>4 DEF EstablishFails, Settled, store
    <2>2. sub'.cand = None /\ sub'.feed = sub.feed /\ LaneEvents' = LaneEvents
      BY <2>1, <1>0 DEF Subscribers, LaneEvents
    <2>3. CASE sub.cand.via = "tail"
      <3>1. at.pc = "subscribing" /\ tail # <<>>
        BY <2>1, <2>3 DEF Base, HeadIsAt
      <3>2. ~susp' => ~Carries(1)
        BY <2>1, <3>1, HeadCarriesNothing
      <3> QED BY <2>1, <2>2, <2>3, <3>1, <3>2, QuietLane
    <2>4. CASE sub.cand.via # "tail"
      BY <2>1, <2>2, <2>4, QuietLane
    <2> QED BY <2>3, <2>4
  <1>5. CASE Reconnect
    <2> DEFINE t == prepareMultiplexTarget
               c == [ring |-> t.ring, after |-> t.after, via |-> "reconnect"]
    <2>1. UNCHANGED <<core, ckpt, lane, gaps, susp, tail, at, cur>> /\ LaneEvents' = LaneEvents
      BY <1>5 DEF Reconnect, store, LaneEvents
    <2>2. CASE sub' = sub
      BY <2>1, <2>2, QuietLane
    <2>3. CASE t # None /\ sub' = [sub EXCEPT !.timer = FALSE, !.cand = c]
      <3>1. Prefix(Pos(t.ring, t.after))
        BY <2>3, PreparedIsDone
      <3> HIDE DEF t
      <3>2. sub'.cand = c /\ sub'.feed = sub.feed
        BY <2>3, <1>0 DEF Subscribers
      <3>3. c.ring = t.ring /\ c.after = t.after
        OBVIOUS
      <3> HIDE DEF c
      <3>4. Prefix(Pos(sub'.cand.ring, sub'.cand.after))
        BY <3>1, <3>2, <3>3
      <3> QED BY <2>1, <3>2, <3>4, QuietLane
    <2> QED BY <1>5, <2>2, <2>3 DEF Reconnect
  <1>6. CASE Disconnect
    <2>1. sub' = [sub EXCEPT !.feed = NoFeed, !.timer = TRUE] /\ cur' = None
          /\ UNCHANGED <<core, ckpt, lane, gaps, at>>
          /\ \/ susp' = TRUE /\ tail' = Append(tail, Work("v2"))
             \/ UNCHANGED <<susp, tail>>
      BY <1>6 DEF Disconnect, store, enqueue
    <2>2. sub'.cand = sub.cand /\ ~sub'.feed.on /\ LaneEvents' = LaneEvents
      BY <2>1, <1>0, FeedTypes DEF Subscribers, LaneEvents
    <2> QED BY <2>1, <2>2, <1>0, QuietLane
  <1>7. CASE handleGapFrame
    <2>1. /\ sub.feed.on /\ sub' = [sub EXCEPT !.feed.gapped = TRUE]
          /\ UNCHANGED <<core, ckpt, lane, gaps, at>>
          /\ \/ susp' = TRUE /\ cur' = None /\ tail' = Append(tail, Work("v2"))
             \/ UNCHANGED <<susp, tail, cur>>
      BY <1>7 DEF handleGapFrame, store, enqueue
    <2>2. sub.feed \in [on : {TRUE}, ring : Nat, pos : Nat, mine : BOOLEAN, gapped : BOOLEAN]
      BY <2>1, <1>0, FeedTypes DEF Subscribers
    <2>3. sub'.cand = sub.cand /\ sub'.feed = [sub.feed EXCEPT !.gapped = TRUE] /\ LaneEvents' = LaneEvents
      BY <2>1, <1>0 DEF Subscribers, LaneEvents
    <2>4. sub'.feed.ring = sub.feed.ring /\ sub'.feed.mine = sub.feed.mine /\ sub'.feed.pos = sub.feed.pos
      BY <2>2, <2>3
    <2> QED BY <2>1, <2>3, <2>4, <1>0, QuietLane
  <1> QED BY <1>1, <1>2, <1>3, <1>4, <1>5, <1>6, <1>7

\* Work is queued, items are settled.
LEMMA QuietWork ==
    ASSUME Base, WayInv, NoFrameFails', rev \in Nat,
           \/ reconcileOnce \/ notifySources \/ retryDue \/ Settle
           \/ ingestCanonicalSnapshotEvidence \/ UNCHANGED vars
    PROVE  WayInv'
  <1>0. lane \in Seq(Items) /\ Work("v2") \in ReadWork /\ [Work("v2") EXCEPT !.scan = TRUE] \in ReadWork
    BY DEF Base, Shape, Work, ReadWork
  <1> HIDE DEF Work
  <1>1. CASE reconcileOnce \/ notifySources
    <2>1. UNCHANGED <<core, ckpt, lane, gaps, at, cur, susp, sub>>
          /\ (tail' = tail \/ \E w \in ReadWork : tail' = Append(tail, w))
      BY <1>0, <1>1 DEF reconcileOnce, notifySources, store, multiplex, enqueue
    <2>2. LaneEvents' = LaneEvents
      BY <2>1 DEF LaneEvents
    <2> QED BY <2>1, <2>2, QuietLane
  <1>2. CASE Settle
    BY <1>0, <1>2, SettlersKeepEvents, QuietLane
  <1>3. CASE retryDue \/ ingestCanonicalSnapshotEvidence \/ UNCHANGED vars
    <2>1. UNCHANGED <<core, ckpt, lane, gaps, at, tail, cur, susp, sub>>
      BY <1>3 DEF retryDue, ingestCanonicalSnapshotEvidence, vars, store, multiplex
    <2>2. LaneEvents' = LaneEvents
      BY <2>1 DEF LaneEvents
    <2> QED BY <2>1, <2>2, QuietLane
  <1> QED BY <1>1, <1>2, <1>3

-----------------------------------------------------------------------------
(* Core goes on; the checkpoint moves. *)

\* Core writes, forgets, or begins a new ring.
LEMMA CoreStep ==
    ASSUME Base, WayInv, NoFrameFails', CoreWrite \/ CoreForget \/ CoreNewRing
    PROVE  WayInv'
  <1>1. UNCHANGED <<ckpt, lane, gaps, tail, at, cur, susp, sub>>
    BY DEF CoreWrite, CoreForget, CoreNewRing, store, multiplex
  <1>2. core \in [origins : Seq(Nat), first : Nat, last : Nat] /\ core.origins \in Seq(Nat)
        /\ core.first \in Nat /\ core.last \in Nat
    BY DEF Base, Shape
  <1>3. \/ core'.origins = core.origins
        \/ \E o \in Nat : core.first <= o /\ core'.origins = Append(core.origins, o)
    <2>1. CASE CoreWrite \/ CoreForget
      BY <2>1, <1>2 DEF CoreWrite, CoreForget
    <2>2. CASE CoreNewRing
      <3>1. PICK o \in core.first .. core.last + 1 :
              core' = [core EXCEPT !.origins = Append(@, o), !.first = o]
        BY <2>2 DEF CoreNewRing
      <3> QED BY <3>1, <1>2
    <2> QED BY <2>1, <2>2
  <1>4. LaneRing' = LaneRing /\ LaneRing \in Nat /\ LaneRing \in 1..Len(core.origins)
    BY <1>1, LaneRingType DEF LaneRing, Ring
  <1>5. \A r \in 1..LaneRing : core'.origins[r] = core.origins[r]
    <2>1. \A r \in 1..LaneRing : r \in 1..Len(core.origins)
      BY <1>2, <1>4
    <2> QED BY SMTT(20), <2>1, <1>2, <1>3
  <1>6. CkptPos' = CkptPos \/ ckpt = None
    BY <1>1, <1>4, <1>5 DEF CkptPos, Pos, FirstOf, LaneRing
  <1>7. cur # None => CurPos' = CurPos
    BY <1>1, <1>5 DEF CurPos, Pos, FirstOf, Base, RingsBehind, Behind
  <1>8. sub.cand # None => CandPos' = CandPos
    BY <1>1, <1>5 DEF CandPos, Pos, FirstOf, Base, RingsBehind, Behind
  <1>9. Running => TargetPos' = TargetPos
    <2>1. Running => at.target.ring \in 1..LaneRing
      BY FrameStands DEF Running, FrameBehind, Behind
    <2> QED BY <2>1, <1>1, <1>5 DEF TargetPos, Pos, FirstOf
  <1>10. Dealt' = Dealt /\ Lost' = Lost
    <2>1. LaneEvents' = LaneEvents /\ gaps' = gaps
      BY <1>1 DEF LaneEvents
    <2> QED BY <2>1, SameEvents
  <1>11. CheckpointIsDone'
    <2> SUFFICES ASSUME ckpt # None
                 PROVE  /\ Prefix(CkptPos)' /\ Fresh(CkptPos)'
                        /\ (ckpt.ring # Ring => \A e \in Lost : e < FirstOf(Ring))'
      BY <1>1 DEF CheckpointIsDone
    <2>1. Prefix(CkptPos)' /\ Fresh(CkptPos)'
      BY <1>6, <1>10 DEF WayInv, CheckpointIsDone, Prefix, Fresh
    <2>2. CASE core'.origins = core.origins
      BY <2>1, <2>2, <1>1, <1>10 DEF WayInv, CheckpointIsDone, Ring, FirstOf
    <2>3. CASE \E o \in Nat : core.first <= o /\ core'.origins = Append(core.origins, o)
      <3>1. PICK o \in Nat : core.first <= o /\ core'.origins = Append(core.origins, o)
        BY <2>3
      <3>2. FirstOf(Ring)' = o
        BY <3>1, <1>2 DEF FirstOf, Ring
      <3>3. \A e \in Lost : e < o
        BY <3>1, <1>2, LostIsForgotten
      <3>4. (\A e \in Lost : e < FirstOf(Ring))'
        BY <3>2, <3>3, <1>10
      <3> QED BY <2>1, <3>4
    <2> QED BY <2>2, <2>3, <1>3
  <1>12. TailStays
    BY <1>1, <1>9 DEF TailStays, Running
  <1>13. sub'.cand # None => Prefix(CandPos)'
    BY <1>1, <1>8, <1>10 DEF WayInv, TargetsAreDone, Prefix
  <1>14. MyFeed' => MyFeed /\ sub'.feed.pos = sub.feed.pos
    BY <1>1, <1>4 DEF MyFeed
  <1>15. at'.pc \in {"stale", "subscribing"} /\ Head(tail').kind = "frame" =>
           susp' \/ ~Head(tail').live
    BY <1>1 DEF WayInv, FramesChain
  <1>16. /\ cur' = cur \/ cur' = None
         /\ cur' # None => CurPos' = CurPos
         /\ ~susp' => ~susp
         /\ cur # None /\ cur' = None /\ ~susp' => ~MyFeed'
    BY <1>1, <1>7
  <1> QED BY <1>4, <1>10, <1>11, <1>12, <1>13, <1>14, <1>15, <1>16, QuietStep

\* A gap is declared up to where the lane goes on.
LEMMA GapIsDeclared ==
    ASSUME NEW k, NEW a \in Nat, NEW b \in Nat, b <= MaxEvents + 1, LaneEvents' = LaneEvents,
           gaps' = gaps \cup {[kind |-> k, after |-> a, resume |-> b]},
           WayInv, Prefix(a), \A e \in Lost : e < b
    PROVE  /\ Dealt \subseteq Dealt' /\ NoHoles' /\ 1..(b - 1) \subseteq Dealt'
           /\ \A e \in Lost' : e < b
           /\ \A p : Prefix(p) /\ Fresh(p)' => Lost' = Lost
           /\ Lost \subseteq Lost'
  <1>0. MaxEvents \in Nat /\ \A e \in Event : e \in Nat
    BY EventInboxAssumption DEF Event
  <1>1. \A e \in Event : Covered(e)' <=> (Covered(e) \/ (a < e /\ e < b))
    <2> DEFINE n == [kind |-> k, after |-> a, resume |-> b]
    <2>1. n.after = a /\ n.resume = b /\ gaps' = gaps \cup {n}
      OBVIOUS
    <2> HIDE DEF n
    <2>2. \A g \in gaps' : g \in gaps \/ g = n
      BY <2>1
    <2>3. n \in gaps' /\ \A g \in gaps : g \in gaps'
      BY <2>1
    <2> QED BY <2>1, <2>2, <2>3 DEF Covered
  <1>2. Dealt \subseteq Dealt' /\ Lost \subseteq Lost'
    BY <1>1 DEF Dealt, Lost
  <1>3. ASSUME NEW e \in Dealt' PROVE e \in Event /\ (e \in Dealt \/ e < b)
    BY <1>1 DEF Dealt
  <1>4. ASSUME NEW e \in 1..(b - 1) PROVE e \in Dealt'
    <2>1. e \in Event
      BY <1>0 DEF Event
    <2>2. CASE e <= a
      BY <2>2, <1>2 DEF Prefix
    <2>3. CASE a < e
      BY <2>1, <2>3, <1>1 DEF Dealt
    <2> QED BY <2>2, <2>3
  <1>5. NoHoles'
    <2> SUFFICES ASSUME NEW e \in Dealt' PROVE Prefix(e)'
      BY DEF NoHoles
    <2>1. CASE e \in Dealt
      BY <2>1, <1>2 DEF WayInv, NoHoles, Prefix
    <2>2. CASE e < b
      <3>1. e \in Nat
        BY <1>0, <1>3
      <3>2. 1..e \subseteq 1..(b - 1)
        BY <2>2, <3>1
      <3> QED BY <3>2, <1>4 DEF Prefix
    <2> QED BY <2>1, <2>2, <1>3
  <1>6. ASSUME NEW e \in Lost'
        PROVE  e \in Dealt' /\ e \in Event /\ e \notin LaneEvents /\ (e \in Lost \/ e < b)
    BY <1>1 DEF Lost, Dealt
  <1>7. ASSUME NEW p, Prefix(p), Fresh(p)' PROVE Lost' = Lost
    <2> SUFFICES ASSUME NEW e \in Lost' PROVE e \in Lost
      BY <1>2
    <2>1. e <= p /\ e \in Event
      BY <1>6, <1>7 DEF Fresh
    <2>2. CASE e \in 1..p
      BY <2>2, <1>6, <1>7 DEF Prefix, Dealt, Lost
    <2>3. e \in Nat /\ 1 <= e
      BY <2>1, EventInboxAssumption DEF Event
    <2> QED BY <2>1, <2>2, <2>3, <1>6, <1>7 DEF Prefix, Dealt, Lost
  <1> QED BY <1>2, <1>4, <1>5, <1>6, <1>7

\* The lane enters the ring that Core has now: nothing of the subscription follows it there.
LEMMA TransitionStep ==
    ASSUME Base, WayInv, NoFrameFails', V2Transition
    PROVE  WayInv'
  <1>1. at.pc = "transition" /\ Ring = at.ring /\ UNCHANGED <<core, lane, tail, cur, susp, sub>>
        /\ ckpt' = Target(Ring, Start) /\ at' = [at EXCEPT !.pc = "read", !.after = Start]
    BY DEF V2Transition, multiplex, rebaseEpochTransition, transitionSource
  <1>2. at \in [pc : {"transition", "read"}, ring : Nat, after : Nat, rebased : BOOLEAN,
                invalid : BOOLEAN]
    BY <1>1, ReadStands
  <1>3. ckpt # None /\ ckpt.ring < Ring /\ LaneRing = ckpt.ring /\ ckpt.ring \in Nat /\ Ring \in Nat
        /\ Ring \in 1..Ring
    BY <1>1, LaneRingType, RingType DEF Base, HeadIsAt, LaneRing
  <1>4. FirstOf(Ring) \in Nat /\ 1 <= FirstOf(Ring) /\ FirstOf(Ring) <= core.first
        /\ Pos(Ring, Start) = FirstOf(Ring) - 1
    BY <1>3, PosType DEF Base, CoreOrder, Start
  <1>5. CkptPos \in Nat /\ core.first \in Nat /\ core.last \in Nat /\ core.last <= MaxEvents
        /\ MaxEvents \in Nat
    BY <1>3, PositionsAreNumbers
  <1>6. FirstOf(Ring) <= MaxEvents + 1
    BY <1>4, <1>5 DEF Base, CoreOrder
  <1>7. PICK k : gaps' = gaps \cup {[kind |-> k, after |-> CkptPos, resume |-> FirstOf(Ring)]}
    BY DEF V2Transition, rebaseEpochTransition, transitionSource, declareGap, CkptPos
  <1>8. Prefix(CkptPos) /\ \A e \in Lost : e < FirstOf(Ring)
    BY <1>3 DEF WayInv, CheckpointIsDone
  <1>9. LaneEvents' = LaneEvents
    BY <1>1 DEF LaneEvents
  <1>10. /\ Dealt \subseteq Dealt' /\ NoHoles' /\ 1..(FirstOf(Ring) - 1) \subseteq Dealt'
         /\ \A e \in Lost' : e < FirstOf(Ring)
    BY <1>4, <1>5, <1>6, <1>7, <1>8, <1>9, GapIsDeclared
  <1>11. ckpt' # None /\ ckpt'.ring = Ring /\ ckpt'.after = Start
    BY <1>1, <1>3, TargetType DEF Start
  <1>12. CkptPos' = FirstOf(Ring) - 1 /\ Ring' = Ring
    <2>1. CkptPos' = Pos(Ring, Start)
      BY <1>1, <1>11 DEF CkptPos, Pos, FirstOf
    <2> QED BY <2>1, <1>1, <1>4 DEF Ring
  <1>13. CheckpointIsDone'
    <2>1. \A e \in Lost' : e <= FirstOf(Ring) - 1
      <3>1. \A e \in Lost' : e \in Nat
        BY EventInboxAssumption DEF Lost, Event
      <3> QED BY <3>1, <1>4, <1>10
    <2> QED BY <2>1, <1>10, <1>11, <1>12 DEF CheckpointIsDone, Prefix, Fresh
  <1>14. TargetsAreDone'
    <2>1. CurPos' = CurPos /\ CandPos' = CandPos
      BY <1>1, SamePositions
    <2> QED BY <2>1, <1>1, <1>10 DEF WayInv, TargetsAreDone, Prefix
  <1>15. LaneRing' = Ring
    BY <1>11 DEF LaneRing
  <1>16. ~Current'
    <2>1. cur # None => cur.ring \in 1..LaneRing
      BY DEF Base, RingsBehind, Behind
    <2>2. cur # None => cur.ring # Ring
      BY <2>1, <1>3
    <2> QED BY <2>2, <1>1, <1>15 DEF Current
  <1>17. at'.pc = "read"
    BY <1>1, <1>2
  <1>18. FramesChain' /\ FramesAreFresh'
    BY <1>16, <1>17 DEF FramesChain, FramesAreFresh, RunningFrame, Running
  <1> QED BY <1>10, <1>13, <1>14, <1>18 DEF WayInv

\* The checkpoint moves to what Core still holds.
LEMMA ExpiredStep ==
    ASSUME Base, WayInv, NoFrameFails', V2Expired
    PROVE  WayInv'
  <1>1. at.pc = "read" /\ Expired(at.ring, ReadPos) /\ UNCHANGED <<core, lane, tail, cur, susp, sub>>
        /\ ckpt' = Target(at.ring, core.first - 1)
        /\ at' = [at EXCEPT !.after = core.first - 1, !.rebased = TRUE]
    BY DEF V2Expired, multiplex, rebaseExpiredCheckpoint, bootstrapExpiredLane
  <1>2. /\ at \in [pc : {"transition", "read"}, ring : Nat, after : Nat, rebased : BOOLEAN,
                   invalid : BOOLEAN]
        /\ at.ring \in 1..Ring /\ at.ring = LaneRing /\ ReadPos \in Nat /\ at.ring = Ring
        /\ ReadPos < core.first - 1
        /\ ckpt = None => ReadPos = 0
        /\ ckpt # None => ReadPos = CkptPos /\ ckpt.ring = at.ring
    BY <1>1, ReadStands DEF Expired, CkptPos, LaneRing
  <1>3. core.first \in Nat /\ core.first <= MaxEvents + 1 /\ core.first - 1 \in Nat
        /\ core.first - 1 # Start /\ at.ring \in Nat
    BY <1>2, PositionsAreNumbers, RingType DEF Base, CoreOrder, Start
  <1>4. gaps' = gaps \cup {[kind |-> "cursor_expired", after |-> ReadPos, resume |-> core.first]}
    <2>1. CASE ckpt = None
      <3>1. FirstOf(at.ring) - 1 = ReadPos
        <4>1. core.origins = <<1>>
          BY <2>1 DEF Base, CoreOrder
        <4> QED BY <4>1, <2>1, <1>2 DEF FirstOf, Ring
      <3> QED BY <3>1, <2>1 DEF V2Expired, rebaseExpiredCheckpoint, bootstrapExpiredLane, declareGap
    <2>2. CASE ckpt # None
      BY <2>2, <1>2 DEF V2Expired, rebaseExpiredCheckpoint, bootstrapExpiredLane, declareGap,
         CkptPos
    <2> QED BY <2>1, <2>2
  <1>5. Prefix(ReadPos)
    BY <1>2 DEF WayInv, CheckpointIsDone, Prefix
  <1>6. \A e \in Lost : e < core.first
    BY LostIsForgotten
  <1>7. LaneEvents' = LaneEvents
    BY <1>1 DEF LaneEvents
  <1>8. /\ Dealt \subseteq Dealt' /\ NoHoles' /\ 1..(core.first - 1) \subseteq Dealt'
        /\ \A e \in Lost' : e < core.first
        /\ \A p : Prefix(p) /\ Fresh(p)' => Lost' = Lost
    BY <1>2, <1>3, <1>4, <1>5, <1>6, <1>7, GapIsDeclared
  <1>9. ckpt' # None /\ ckpt'.ring = at.ring /\ ckpt'.after = core.first - 1
    BY <1>1, <1>3, TargetType
  <1>10. CkptPos' = core.first - 1 /\ Ring' = Ring /\ LaneRing' = LaneRing
    BY <1>1, <1>2, <1>3, <1>9 DEF CkptPos, Pos, Ring, LaneRing
  <1>11. CheckpointIsDone'
    <2>1. \A e \in Lost' : e <= core.first - 1
      <3>1. \A e \in Lost' : e \in Nat
        BY EventInboxAssumption DEF Lost, Event
      <3> QED BY <3>1, <1>3, <1>8
    <2> QED BY <2>1, <1>2, <1>8, <1>9, <1>10 DEF CheckpointIsDone, Prefix, Fresh
  <1>12. CurPos' = CurPos /\ CandPos' = CandPos
    BY <1>1, SamePositions
  <1>13. TargetsAreDone'
    BY <1>1, <1>8, <1>12 DEF WayInv, TargetsAreDone, Prefix
  <1>14. at'.pc = "read" /\ ~Running /\ ~Running' /\ ~RunningFrame /\ ~RunningFrame'
    BY <1>1, <1>2 DEF Running, RunningFrame
  <1>15. /\ Chained => Chained'
         /\ \A p \in Nat : Supported(Len(tail), p) => Supported(Len(tail), p)'
         /\ \A i \in DOMAIN tail' : LiveFrame(i)' => LiveFrame(i)
    BY <1>1, <1>8, <1>10, <1>14, ChainStays
  <1>16. (Current' <=> Current) /\ (MyFeed' <=> MyFeed)
    BY <1>1, <1>10 DEF Current, MyFeed
  <1>17. MyFeed => sub.feed.pos \in Nat
    BY FeedTypes DEF MyFeed, Base, Shape, Subscribers
  <1>18. FramesChain'
    <2>1. (~susp /\ Current /\ MyFeed => FeedChained)'
      BY <1>1, <1>15, <1>16, <1>17 DEF WayInv, FramesChain, FeedChained
    <2> QED BY <2>1, <1>1, <1>14, <1>15, <1>16 DEF WayInv, FramesChain
  <1>19. FramesAreFresh'
    <2> SUFFICES ASSUME Current', Fresh(CurPos)', NEW i \in DOMAIN tail', LiveFrame(i)'
                 PROVE  Fresh(tail[i].from - 1)'
      BY <1>14 DEF FramesAreFresh
    <2>1. Prefix(CurPos) /\ \A e \in Lost' : e <= CurPos
      BY <1>12, <1>16 DEF WayInv, TargetsAreDone, Current, Fresh
    <2>2. Lost' = Lost
      <3>1. \A p : Prefix(p) /\ (\A e \in Lost' : e <= p) => Lost' = Lost
        BY <1>8 DEF Fresh
      <3> QED BY <2>1, <3>1
    <2>3. Fresh(tail[i].from - 1)
      BY <1>1, <1>15, <1>16, <2>1, <2>2 DEF WayInv, FramesAreFresh, Fresh
    <2> QED BY <2>2, <2>3, <1>1 DEF Fresh
  <1> QED BY <1>8, <1>11, <1>13, <1>18, <1>19 DEF WayInv

\* Events are stored behind everything that is lost.
LEMMA BatchIsDealt ==
    ASSUME NEW from \in Nat, NEW to \in Nat, from..to \subseteq Event,
           LaneEvents' = LaneEvents \cup (from..to), gaps' = gaps,
           WayInv, \A e \in Lost : e < from, Prefix(from - 1)
    PROVE  /\ Dealt' = Dealt \cup (from..to) /\ Lost' = Lost /\ NoHoles' /\ 1..to \subseteq Dealt'
  <1>0. \A e \in Event : e \in Nat /\ e >= 1
    BY EventInboxAssumption DEF Event
  <1>1. \A e : Covered(e)' <=> Covered(e)
    BY DEF Covered
  <1>2. Dealt' = Dealt \cup (from..to)
    BY <1>1 DEF Dealt
  <1>3. Lost' = Lost
    <2>1. ASSUME NEW e \in Lost PROVE e \notin from..to
      BY <2>1
    <2> QED BY <2>1, <1>1 DEF Lost
  <1>4. 1..to \subseteq Dealt'
    <2> SUFFICES ASSUME NEW e \in 1..to PROVE e \in Dealt'
      OBVIOUS
    <2>1. CASE e \in from..to
      BY <2>1, <1>2
    <2>2. CASE e \notin from..to
      <3>1. e \in 1..(from - 1)
        BY <2>2
      <3> QED BY <3>1, <1>2 DEF Prefix
    <2> QED BY <2>1, <2>2
  <1>5. NoHoles'
    <2> SUFFICES ASSUME NEW e \in Dealt' PROVE 1..e \subseteq Dealt'
      BY DEF NoHoles, Prefix
    <2>1. CASE e \in Dealt
      BY <2>1, <1>2 DEF WayInv, NoHoles, Prefix
    <2>2. CASE e \in from..to
      <3>1. 1..e \subseteq 1..to
        BY <2>2
      <3> QED BY <3>1, <1>4
    <2> QED BY <2>1, <2>2, <1>2
  <1> QED BY <1>2, <1>3, <1>4, <1>5

\* A read continues what is dealt with.
LEMMA ReadContinues ==
    ASSUME Base, WayInv, at.pc = "read"
    PROVE  Prefix(ReadPos) /\ \A e \in Lost : e \in Nat /\ e <= ReadPos
  <1>1. CASE ckpt = None
    BY <1>1, ReadStands, LostIsForgotten DEF Prefix
  <1>2. CASE ckpt # None
    BY <1>2, ReadStands, LostIsForgotten DEF WayInv, CheckpointIsDone, Fresh, CkptPos
  <1> QED BY <1>1, <1>2

\* A batch that is read continues the checkpoint.
LEMMA BatchStep ==
    ASSUME Base, WayInv, NoFrameFails', V2Batch
    PROVE  WayInv'
  <1>1. at.pc = "read" /\ UNCHANGED <<core, cur, sub>> /\ at.ring = Ring
    BY DEF V2Batch
  <1>2. /\ at \in [pc : {"transition", "read"}, ring : Nat, after : Nat, rebased : BOOLEAN,
                   invalid : BOOLEAN]
        /\ tail # <<>> /\ Head(tail).kind = "v2" /\ at.ring = LaneRing /\ at.ring \in Nat
        /\ ReadPos \in Nat
        /\ ckpt = None => ReadPos = 0
        /\ ckpt # None => ReadPos = CkptPos
    BY <1>1, ReadStands, RingType DEF Base, CkptPos
  <1>3. BatchEnd \in Nat /\ BatchEnd <= core.last /\ core.last \in Nat /\ core.last <= MaxEvents
        /\ MaxEvents \in Nat /\ ReadPos <= BatchEnd
    BY <1>1, BatchEndType, PositionsAreNumbers
  <1>4. \/ /\ BatchEnd < core.last /\ UNCHANGED <<tail, susp>>
           /\ \/ at' = [at EXCEPT !.after = BatchEnd]
              \/ at' = [pc |-> "again", invalid |-> FALSE]
        \/ BatchEnd = core.last /\ susp' = FALSE /\ at' = [pc |-> "restore"] /\ tail' = tail
        \/ BatchEnd = core.last /\ susp' = FALSE /\ Finish
    BY BatchRead
  <1>5. PICK c \in Nat : /\ ckpt' = Target(at.ring, c) /\ Pos(at.ring, c) = BatchEnd /\ gaps' = gaps
                         /\ LaneEvents' = LaneEvents \cup ((ReadPos + 1)..BatchEnd)
    BY BatchRead
  <1>6. ckpt' # None /\ ckpt'.ring = Ring /\ Ring' = Ring /\ LaneRing' = LaneRing /\ CkptPos' = BatchEnd
    <2>1. ckpt' # None /\ ckpt'.ring = at.ring /\ ckpt'.after = c
      BY <1>2, <1>5, TargetType
    <2>2. CkptPos' = Pos(at.ring, c)
      BY <2>1, <1>1 DEF CkptPos, Pos, FirstOf
    <2> QED BY <2>1, <2>2, <1>1, <1>2, <1>5 DEF Ring, LaneRing
  <1>7. Prefix(ReadPos) /\ \A e \in Lost : e \in Nat /\ e <= ReadPos
    BY <1>1, ReadContinues
  <1>8. /\ Dealt \subseteq Dealt' /\ Lost' = Lost /\ NoHoles' /\ 1..BatchEnd \subseteq Dealt'
    <2> DEFINE from == ReadPos + 1
    <2>1. from \in Nat /\ from - 1 = ReadPos
      BY <1>2
    <2>2. from..BatchEnd \subseteq Event
      BY <1>2, <1>3 DEF Event
    <2>3. \A e \in Lost : e < from
      BY <1>2, <1>7
    <2>4. LaneEvents' = LaneEvents \cup (from..BatchEnd)
      BY <1>5
    <2>5. Prefix(from - 1)
      BY <2>1, <1>7
    <2> HIDE DEF from
    <2>6. Dealt' = Dealt \cup (from..BatchEnd) /\ Lost' = Lost /\ NoHoles' /\ 1..BatchEnd \subseteq Dealt'
      BY <2>1, <2>2, <2>3, <2>4, <2>5, <1>3, <1>5, BatchIsDealt
    <2> QED BY <2>6
  <1>9. CheckpointIsDone'
    <2>1. \A e \in Lost' : e <= BatchEnd
      BY <1>2, <1>3, <1>7, <1>8
    <2> QED BY <2>1, <1>6, <1>8 DEF CheckpointIsDone, Prefix, Fresh
  <1>10. CurPos' = CurPos /\ CandPos' = CandPos
    BY <1>1, SamePositions
  <1>11. TargetsAreDone'
    BY <1>1, <1>8, <1>10 DEF WayInv, TargetsAreDone, Prefix
  <1>12. at'.pc \in {"read", "again", "restore", "idle"} /\ ~Running /\ ~Running'
         /\ ~RunningFrame /\ ~RunningFrame'
    <2>1. at'.pc \in {"read", "again", "restore", "idle"}
      BY <1>1, <1>2, <1>4 DEF Finish, Idle
    <2> QED BY <2>1, <1>1 DEF Running, RunningFrame
  <1>13. (Current' <=> Current) /\ (MyFeed' <=> MyFeed)
    BY <1>1, <1>6 DEF Current, MyFeed
  <1>14. MyFeed => sub.feed.pos \in Nat /\ sub.feed.pos <= core.last
    BY FeedTypes DEF MyFeed, Base, Shape, Subscribers, RingsBehind
  <1>15. CASE BatchEnd < core.last /\ UNCHANGED <<tail, susp>>
    <2>1. /\ Chained => Chained'
          /\ \A p \in Nat : Supported(Len(tail), p) => Supported(Len(tail), p)'
          /\ \A i \in DOMAIN tail' : LiveFrame(i)' => LiveFrame(i)
      BY <1>6, <1>8, <1>12, <1>15, ChainStays
    <2>2. FramesChain'
      <3>1. (~susp /\ Current /\ MyFeed => FeedChained)'
        BY <1>1, <1>13, <1>14, <1>15, <2>1 DEF WayInv, FramesChain, FeedChained
      <3> QED BY <3>1, <1>12, <1>13, <1>15, <2>1 DEF WayInv, FramesChain
    <2>3. FramesAreFresh'
      BY <1>8, <1>10, <1>12, <1>13, <1>15, <2>1 DEF WayInv, FramesAreFresh, Fresh
    <2> QED BY <2>2, <2>3, <1>8, <1>9, <1>11 DEF WayInv
  <1>16. CASE BatchEnd = core.last /\ (tail' = tail \/ tail' = Tail(tail))
    <2>1. \A i \in DOMAIN tail' : LiveFrame(i)' => \E k \in DOMAIN tail : LiveFrame(k) /\ tail'[i] = tail[k]
      <3>1. \A i \in DOMAIN tail' : \E k \in DOMAIN tail : tail'[i] = tail[k]
        <4>1. CASE tail' = tail
          BY <4>1
        <4>2. CASE tail' = Tail(tail)
          BY <4>2, <1>2, TailType, Popped
        <4> QED BY <4>1, <4>2, <1>16
      <3> QED BY <3>1, <1>6 DEF LiveFrame, IsFrame
    <2>2. ASSUME NEW i \in DOMAIN tail', LiveFrame(i)'
          PROVE  1..(tail'[i].from - 1) \subseteq Dealt'
      <3>1. PICK k \in DOMAIN tail : LiveFrame(k) /\ tail'[i] = tail[k]
        BY <2>1, <2>2
      <3>2. tail[k].from \in Nat /\ tail[k].from <= core.last
        <4>1. /\ tail[k].from \in Nat /\ tail[k].to \in Nat /\ tail[k].from <= tail[k].to
              /\ tail[k].to <= core.last
          BY <3>1, FrameTypes DEF LiveFrame, IsFrame
        <4> QED BY <4>1, <1>3
      <3>3. 1..(tail[k].from - 1) \subseteq 1..BatchEnd
        BY <3>2, <1>3, <1>16
      <3> QED BY <3>1, <3>3, <1>8
    <2>3. Chained'
      BY <2>2 DEF Chained, Supported, Prefix
    <2>4. MyFeed' => FeedChained'
      <3>1. MyFeed => 1..(sub.feed.pos) \subseteq 1..BatchEnd
        BY <1>3, <1>14, <1>16
      <3> QED BY <3>1, <1>1, <1>8, <1>13 DEF FeedChained, Supported, Prefix
    <2>5. FramesChain'
      BY <2>3, <2>4, <1>12 DEF FramesChain
    <2>6. FramesAreFresh'
      <3> SUFFICES ASSUME Current', Fresh(CurPos)', NEW i \in DOMAIN tail', LiveFrame(i)'
                   PROVE  Fresh(tail[i].from - 1)'
        BY <1>12 DEF FramesAreFresh
      <3>1. PICK k \in DOMAIN tail : LiveFrame(k) /\ tail'[i] = tail[k]
        BY <2>1
      <3>2. Current /\ Fresh(CurPos)
        BY <1>8, <1>10, <1>13 DEF Fresh
      <3>3. Fresh(tail[k].from - 1)
        BY <3>1, <3>2 DEF WayInv, FramesAreFresh
      <3> QED BY <3>1, <3>3, <1>8 DEF Fresh
    <2> QED BY <2>5, <2>6, <1>8, <1>9, <1>11 DEF WayInv
  <1> QED BY <1>4, <1>15, <1>16 DEF Finish

\* Frames.
LEMMA FrameStartStep ==
    ASSUME Base, WayInv, NoFrameFails', FrameStart
    PROVE  WayInv'
  <1>1. tail # <<>> /\ Head(tail).kind = "frame" /\ at.pc = "idle" /\ Head(tail) = tail[1]
        /\ 1 \in DOMAIN tail /\ UNCHANGED <<core, ckpt, lane, gaps, cur, susp, sub>>
    <2>1. tail # <<>> /\ Head(tail).kind = "frame" /\ at.pc = "idle"
          /\ UNCHANGED <<core, ckpt, lane, gaps, cur, susp, sub>>
      BY DEF FrameStart, Frame, store, multiplex
    <2> QED BY <2>1, TailType, Popped
  <1>2. LaneEvents' = LaneEvents /\ LaneRing' = LaneRing
    BY <1>1 DEF LaneEvents, LaneRing
  <1>3. CASE Head(tail).live /\ ~susp /\ cur # None /\ cur.ring = Head(tail).ring
             /\ at' = [pc |-> "frame", target |-> cur] /\ tail' = tail
    <2>1. Dealt' = Dealt /\ Lost' = Lost
      BY <1>1, <1>2, SameEvents
    <2>2. CkptPos' = CkptPos /\ CurPos' = CurPos /\ CandPos' = CandPos
      BY <1>1, SamePositions
    <2>3. TargetPos' = CurPos /\ at'.pc = "frame" /\ Running' /\ ~Running
      BY <1>1, <1>3 DEF TargetPos, CurPos, Pos, FirstOf, Running
    <2>4. NoHoles' /\ TargetsAreDone'
      BY <1>1, <2>1, <2>2 DEF WayInv, NoHoles, TargetsAreDone, Prefix
    <2>5. CheckpointIsDone'
      BY <1>1, <2>1, <2>2 DEF WayInv, CheckpointIsDone, Prefix, Fresh, Ring, FirstOf
    <2>6. /\ Chained => Chained'
          /\ \A p \in Nat : Supported(Len(tail), p) => Supported(Len(tail), p)'
          /\ \A i \in DOMAIN tail' : LiveFrame(i)' => LiveFrame(i)
      BY <1>2, <1>3, <2>1, <2>3, ChainStays
    <2>7. (Current' <=> Current) /\ (MyFeed' <=> MyFeed) /\ ~susp' /\ ~susp
      BY <1>1, <1>2, <1>3 DEF Current, MyFeed
    <2>8. RunningFrame' => Current /\ LiveFrame(1)
      BY <1>1, <1>2, <1>3 DEF RunningFrame, IsFrame, LiveFrame, Current
    <2>9. RunningFrame' => Prefix(tail[1].from - 1)
      <3>1. RunningFrame' => Supported(1 - 1, tail[1].from - 1)
        BY <1>1, <2>7, <2>8 DEF WayInv, FramesChain, Chained
      <3> QED BY <3>1 DEF Supported
    <2>10. MyFeed => sub.feed.pos \in Nat
      BY FeedTypes DEF MyFeed, Base, Shape, Subscribers
    <2>11. FramesChain'
      <3>1. (~susp /\ Current /\ MyFeed => FeedChained)'
        BY <1>1, <2>6, <2>7, <2>10 DEF WayInv, FramesChain, FeedChained
      <3>2. (RunningFrame => Prefix(tail[1].from - 1))'
        BY <1>3, <2>1, <2>9 DEF Prefix
      <3>3. (~susp /\ (Current \/ RunningFrame) => Chained)'
        BY <2>6, <2>7, <2>8 DEF WayInv, FramesChain
      <3> QED BY <3>1, <3>2, <3>3, <2>3, <2>7, <2>8 DEF FramesChain
    <2>12. FramesAreFresh'
      <3>1. ASSUME Current', Fresh(CurPos)', NEW i \in DOMAIN tail', LiveFrame(i)'
            PROVE  Fresh(tail[i].from - 1)'
        BY <3>1, <1>3, <2>1, <2>2, <2>6, <2>7 DEF WayInv, FramesAreFresh, Fresh
      <3>2. ASSUME RunningFrame', Fresh(TargetPos)', NEW i \in DOMAIN tail', Carries(i)'
            PROVE  Fresh(tail[i].from - 1)'
        <4>1. LiveFrame(i) /\ Current /\ Fresh(CurPos)
          <5>1. Current /\ Fresh(CurPos) /\ LiveFrame(1)
            BY <3>2, <2>1, <2>3, <2>8 DEF Fresh
          <5> QED BY <5>1, <3>2, <2>6 DEF Carries, LiveFrame
        <4>2. Fresh(tail[i].from - 1)
          BY <4>1, <3>2, <1>3 DEF WayInv, FramesAreFresh
        <4> QED BY <4>2, <1>3, <2>1 DEF Fresh
      <3> QED BY <3>1, <3>2 DEF FramesAreFresh
    <2> QED BY <2>4, <2>5, <2>11, <2>12 DEF WayInv
  <1>4. CASE Finish /\ ~(Head(tail).live /\ ~susp /\ cur # None /\ cur.ring = Head(tail).ring)
    <2>1. ~susp' /\ Current' => ~Carries(1)
      BY <1>1, <1>2, <1>4 DEF Current, Carries, IsFrame, Running
    <2>2. tail' = Tail(tail) /\ at' = Idle
      BY <1>4 DEF Finish
    <2> QED BY <1>1, <1>2, <2>1, <2>2, QuietLane
  <1> QED BY <1>3, <1>4 DEF FrameStart, Frame

\* A stale frame takes its owner off the feed.
LEMMA FrameStaleStep ==
    ASSUME Base, WayInv, NoFrameFails', FrameStale
    PROVE  WayInv'
  <1>1. at'.pc = "stale" /\ cur' = None /\ susp' = TRUE /\ UNCHANGED <<core, ckpt, lane, gaps, sub>>
    BY DEF FrameStale, store
  <1>2. Dealt' = Dealt /\ Lost' = Lost
    <2>1. LaneEvents' = LaneEvents
      BY <1>1 DEF LaneEvents
    <2> QED BY <2>1, <1>1, SameEvents
  <1>3. CkptPos' = CkptPos /\ CandPos' = CandPos
    BY <1>1, SamePositions
  <1>4. NoHoles' /\ TargetsAreDone'
    BY <1>1, <1>2, <1>3 DEF WayInv, NoHoles, TargetsAreDone, Prefix
  <1>5. CheckpointIsDone'
    BY <1>1, <1>2, <1>3 DEF WayInv, CheckpointIsDone, Prefix, Fresh, Ring, FirstOf
  <1>6. ~Current' /\ ~RunningFrame'
    BY <1>1 DEF Current, RunningFrame, Running
  <1> QED BY <1>1, <1>4, <1>5, <1>6 DEF WayInv, FramesChain, FramesAreFresh

\* So does a frame that is accepted.
LEMMA FrameContinues ==
    ASSUME Base, WayInv, FrameAccepted
    PROVE  /\ at.pc = "frame" /\ tail # <<>> /\ Frame = tail[1] /\ 1 \in DOMAIN tail
           /\ tail[1].from \in Nat /\ tail[1].to \in Nat /\ tail[1].ring \in Nat /\ 1 <= tail[1].from
           /\ tail[1].from <= tail[1].to /\ tail[1].to <= core.last
           /\ core.last \in Nat /\ core.last <= MaxEvents /\ MaxEvents \in Nat
           /\ tail[1].ring = LaneRing /\ (ckpt # None => TargetPos = CkptPos)
           /\ RunningFrame /\ Carries(1) /\ Running
           /\ Prefix(tail[1].from - 1) /\ Fresh(TargetPos)
           /\ \A e \in Lost : e \in Nat /\ e < tail[1].from
  <1> DEFINE from == tail[1].from
             to == tail[1].to
             r == tail[1].ring
  <1>1. /\ at.pc = "frame" /\ (ckpt # None => ckpt.ring = Frame.ring /\ ckpt.after = at.target.after)
        /\ ingestBatch(Frame.ring, Frame.from, Frame.to) /\ cur' = Target(Frame.ring, Frame.to)
        /\ tail' = Tail(tail) /\ at' = Idle /\ UNCHANGED <<core, susp, sub>>
    BY DEF FrameAccepted, staleReplay, Finish
  <1>2. /\ tail # <<>> /\ Frame = tail[1] /\ tail[1] \in FrameWork /\ 1 \in DOMAIN tail
        /\ FrameBehind(tail[1]) /\ tail[1].kind = "frame"
        /\ at.target \in Targets /\ at.target.ring = tail[1].ring
    BY <1>1, FrameStands
  <1>3. /\ from \in Nat /\ to \in Nat /\ r \in Nat /\ 1 <= from /\ from <= to /\ to <= core.last
        /\ Behind(r) /\ core.last \in Nat /\ core.last <= MaxEvents /\ MaxEvents \in Nat
    BY <1>2, PositionsAreNumbers DEF FrameWork, FrameBehind
  <1>4. r = LaneRing /\ (ckpt # None => TargetPos = CkptPos)
    <2>1. CASE ckpt = None
      <3>1. LaneRing = 1 /\ r \in 1..1
        BY <2>1, <1>3 DEF Behind, LaneRing
      <3> QED BY <2>1, <3>1
    <2>2. CASE ckpt # None
      BY <2>2, <1>1, <1>2 DEF LaneRing, TargetPos, CkptPos
    <2> QED BY <2>1, <2>2
  <1>5. RunningFrame /\ IsFrame(1) /\ Carries(1) /\ Running
    BY <1>1, <1>2, <1>4 DEF RunningFrame, Running, IsFrame, Carries
  <1>6. Prefix(from - 1)
    BY <1>5 DEF WayInv, FramesChain
  <1>7. Fresh(TargetPos)
    <2>1. CASE ckpt = None
      BY <2>1, LostIsForgotten DEF Fresh
    <2>2. CASE ckpt # None
      BY <2>2, <1>4 DEF WayInv, CheckpointIsDone
    <2> QED BY <2>1, <2>2
  <1>8. \A e \in Lost : e \in Nat /\ e < from
    <2>1. Fresh(from - 1)
      BY <1>2, <1>5, <1>7 DEF WayInv, FramesAreFresh
    <2> QED BY <2>1, <1>3, LostIsForgotten DEF Fresh
  <1> QED BY <1>1, <1>2, <1>3, <1>4, <1>5, <1>6, <1>7, <1>8

\* A frame that is accepted is the checkpoint's next stretch.
LEMMA FrameAcceptedStep ==
    ASSUME Base, WayInv, NoFrameFails', FrameAccepted
    PROVE  WayInv'
  <1> DEFINE from == tail[1].from
             to == tail[1].to
             r == tail[1].ring
  <1>1. /\ ingestBatch(Frame.ring, Frame.from, Frame.to) /\ cur' = Target(Frame.ring, Frame.to)
        /\ tail' = Tail(tail) /\ at' = Idle /\ UNCHANGED <<core, susp, sub>>
    BY DEF FrameAccepted, Finish
  <1>2. /\ tail # <<>> /\ Frame = tail[1] /\ 1 \in DOMAIN tail
        /\ from \in Nat /\ to \in Nat /\ r \in Nat /\ 1 <= from /\ from <= to /\ to <= core.last
        /\ core.last \in Nat /\ core.last <= MaxEvents /\ MaxEvents \in Nat
    BY FrameContinues
  <1>3. r = LaneRing /\ RunningFrame /\ Carries(1)
    BY FrameContinues
  <1>4. Prefix(from - 1) /\ Fresh(TargetPos) /\ \A e \in Lost : e \in Nat /\ e < from
    BY FrameContinues
  <1>9. ckpt' = Target(r, to) /\ gaps' = gaps /\ LaneEvents' = LaneEvents \cup (from..to)
    <2>1. ingestBatch(r, from, to) /\ lane \in Seq(Items)
      BY <1>1, <1>2 DEF Base, Shape
    <2> HIDE DEF r, from, to
    <2>2. LaneEvents' = LaneEvents \cup (from..to)
      BY <2>1, <1>2, BatchIsStored
    <2> QED BY <2>1, <2>2 DEF ingestBatch
  <1>10. from..to \subseteq Event
    BY <1>2 DEF Event
  <1> HIDE DEF from, to, r
  <1>11. Dealt' = Dealt \cup (from..to) /\ Lost' = Lost /\ NoHoles' /\ 1..to \subseteq Dealt'
    BY <1>2, <1>4, <1>9, <1>10, BatchIsDealt
  <1>12. /\ ckpt' # None /\ ckpt'.ring = r /\ ckpt'.after = to /\ cur' = ckpt'
         /\ LaneRing' = LaneRing /\ Ring' = Ring
    <2>1. ckpt' # None /\ ckpt'.ring = r /\ ckpt'.after = to
      BY <1>2, <1>9, TargetType
    <2>2. cur' = ckpt'
      BY <1>1, <1>2, <1>9 DEF r, to
    <2> QED BY <2>1, <2>2, <1>1, <1>3 DEF LaneRing, Ring
  <1>13. CkptPos' = to /\ CurPos' = to
    <2>3. CkptPos' = IF ckpt'.after = Start THEN core'.origins[ckpt'.ring] - 1 ELSE ckpt'.after
      BY DEF CkptPos, Pos, FirstOf
    <2>4. CurPos' = IF cur'.after = Start THEN core'.origins[cur'.ring] - 1 ELSE cur'.after
      BY DEF CurPos, Pos, FirstOf
    <2> QED BY <2>3, <2>4, <1>2, <1>12 DEF Start
  <1>14. CheckpointIsDone'
    <2>1. \A e \in Lost : e <= to
      BY <1>2, <1>4
    <2>2. r # Ring => \A e \in Lost : e < FirstOf(Ring)
      BY <1>3, LostIsForgotten DEF WayInv, CheckpointIsDone, LaneRing
    <2>3. FirstOf(Ring)' = FirstOf(Ring)
      BY <1>1, <1>12 DEF FirstOf, Ring
    <2> QED BY <2>1, <2>2, <2>3, <1>11, <1>12, <1>13 DEF CheckpointIsDone, Prefix, Fresh
  <1>15. TargetsAreDone'
    <2>1. CandPos' = CandPos
      BY <1>1, SamePositions
    <2> QED BY <2>1, <1>1, <1>11, <1>13 DEF WayInv, TargetsAreDone, Prefix
  <1>16. /\ Chained => Chained'
         /\ \A p \in Nat : Supported(Len(tail), p) => Supported(Len(tail), p)'
         /\ \A i \in DOMAIN tail' :
              i + 1 \in DOMAIN tail /\ tail'[i] = tail[i + 1] /\ (LiveFrame(i)' => LiveFrame(i + 1))
    <2>1. 1..(tail[1].to) \subseteq Dealt' /\ Dealt \subseteq Dealt'
      BY <1>11 DEF to
    <2> QED BY <2>1, <1>1, <1>2, <1>12, ChainPops
  <1>17. ~Running' /\ at'.pc = "idle" /\ (MyFeed' => MyFeed) /\ susp' = susp
    BY <1>1, <1>12 DEF Running, Idle, MyFeed
  <1>18. FramesChain'
    <2>1. ~susp => Chained'
      BY <1>3, <1>16 DEF WayInv, FramesChain
    <2>2. ~susp /\ MyFeed => FeedChained'
      <3> SUFFICES ASSUME ~susp, MyFeed PROVE FeedChained'
        OBVIOUS
      <3>1. FeedChained
        BY <1>3 DEF WayInv, FramesChain
      <3>2. sub.feed.pos \in Nat
        BY FeedTypes DEF MyFeed, Base, Shape, Subscribers
      <3> QED BY <3>1, <3>2, <1>1, <1>16 DEF FeedChained
    <2> QED BY <2>1, <2>2, <1>17 DEF FramesChain, RunningFrame
  <1>19. FramesAreFresh'
    <2> SUFFICES ASSUME NEW i \in DOMAIN tail', LiveFrame(i)' PROVE Fresh(tail[i].from - 1)'
      BY <1>17 DEF FramesAreFresh, RunningFrame
    <2>1. i + 1 \in DOMAIN tail /\ tail'[i] = tail[i + 1] /\ Carries(i + 1)
      BY <1>16 DEF LiveFrame, Carries
    <2>2. Fresh(tail[i + 1].from - 1)
      BY <2>1, <1>3, <1>4 DEF WayInv, FramesAreFresh
    <2> QED BY <2>1, <2>2, <1>11 DEF Fresh
  <1> QED BY <1>11, <1>14, <1>15, <1>18, <1>19 DEF WayInv

\* The process dies: only the lane is left.
LEMMA RestartStep ==
    ASSUME Base, WayInv, NoFrameFails', Restart
    PROVE  WayInv'
  <1>1. UNCHANGED <<core, ckpt, lane, gaps>> /\ tail' = <<>> /\ at' = Idle /\ cur' = None
        /\ susp' = FALSE /\ sub' = NoSubscription
    BY DEF Restart, store, NoSubscription
  <1>2. Dealt' = Dealt /\ Lost' = Lost
    <2>1. LaneEvents' = LaneEvents
      BY <1>1 DEF LaneEvents
    <2> QED BY <2>1, <1>1, SameEvents
  <1>3. CkptPos' = CkptPos
    BY <1>1, SamePositions
  <1>4. CheckpointIsDone'
    BY <1>1, <1>2, <1>3 DEF WayInv, CheckpointIsDone, Prefix, Fresh, Ring, FirstOf
  <1>5. sub'.cand = None /\ ~sub'.feed.on
    BY <1>1, ClearedType
  <1>6. NoHoles' /\ TargetsAreDone'
    BY <1>1, <1>2, <1>5 DEF WayInv, NoHoles, TargetsAreDone, Prefix
  <1>7. ~Current' /\ ~Running' /\ at'.pc = "idle"
    BY <1>1 DEF Current, Running, Idle
  <1> QED BY <1>4, <1>6, <1>7 DEF WayInv, FramesChain, FramesAreFresh, RunningFrame

\* The subscription is acknowledged: it goes on where the checkpoint was read.
LEMMA ActivateStep ==
    ASSUME Base, WayInv, NoFrameFails', activateMultiplexTargets
    PROVE  WayInv'
  <1> DEFINE c == sub.cand
             q == IF c.via = "tail" THEN Tail(tail) ELSE tail
             wanted == c.via # "reconnect" \/ (des # None /\ des.ring = c.ring)
             f == [on |-> TRUE, ring |-> c.ring, pos |-> Pos(c.ring, c.after), mine |-> wanted,
                   gapped |-> FALSE]
  <1>1. /\ c # None /\ sub' = [sub EXCEPT !.cand = None, !.wanted = TRUE, !.feed = f]
        /\ \/ wanted /\ cur' = Target(c.ring, c.after) /\ susp' = FALSE /\ tail' = Outdated(q)
           \/ ~wanted /\ tail' = q /\ UNCHANGED <<cur, susp>>
        /\ at' = (IF c.via = "tail" THEN Idle ELSE at)
        /\ UNCHANGED <<core, ckpt, lane, gaps>>
    BY DEF activateMultiplexTargets, Settled, store
  <1>2. sub \in Subscribers /\ tail \in Seq(Works) /\ c.ring \in Nat /\ c.after \in Nat
    BY <1>1 DEF Base, Shape, Subscribers, Candidates
  <1>3. sub'.cand = None /\ sub'.feed = f
    BY <1>1, <1>2 DEF Subscribers
  <1>4. /\ f.on /\ f.ring = c.ring /\ f.pos = CandPos /\ (f.mine <=> wanted)
        /\ Prefix(CandPos) /\ CandPos \in Nat
    BY <1>1, PositionsAreNumbers DEF CandPos, WayInv, TargetsAreDone
  <1>5. c.via = "tail" => at.pc = "subscribing" /\ tail # <<>>
    BY <1>1 DEF Base, HeadIsAt
  <1>6. ~wanted => c.via # "tail"
    OBVIOUS
  <1>7. c.via # "tail" => q = tail
    OBVIOUS
  <1>8. q \in Seq(Works)
    BY <1>2, <1>5, Popped
  <1> HIDE DEF f, wanted, q, c
  <1>9. Dealt' = Dealt /\ Lost' = Lost /\ LaneRing' = LaneRing
    <2>1. LaneEvents' = LaneEvents
      BY <1>1 DEF LaneEvents
    <2> QED BY <2>1, <1>1, SameEvents DEF LaneRing
  <1>10. CkptPos' = CkptPos
    BY <1>1, SamePositions
  <1>11. CheckpointIsDone'
    BY <1>1, <1>9, <1>10 DEF WayInv, CheckpointIsDone, Prefix, Fresh, Ring, FirstOf
  <1>12. CASE ~wanted
    <2>1. UNCHANGED <<core, cur, susp, tail, at>>
      BY <1>1, <1>6, <1>7, <1>12
    <2>2. CurPos' = CurPos /\ TargetPos' = TargetPos
      BY <2>1, SamePositions
    <2>3. TailStays
      BY <2>1, <2>2 DEF TailStays, Running
    <2>4. ~MyFeed'
      BY <1>3, <1>4, <1>12 DEF MyFeed
    <2>5. at'.pc \in {"stale", "subscribing"} /\ Head(tail').kind = "frame" =>
            susp' \/ ~Head(tail').live
      BY <2>1 DEF WayInv, FramesChain
    <2>6. (cur' = cur \/ cur' = None) /\ (~susp' => ~susp)
      BY <2>1
    <2> QED BY <1>3, <1>9, <1>11, <2>2, <2>3, <2>4, <2>5, <2>6, QuietStep
  <1>13. CASE wanted
    <2>1. cur' = Target(c.ring, c.after) /\ susp' = FALSE /\ tail' = Outdated(q)
      BY <1>1, <1>13
    <2>2. cur'.ring = c.ring /\ cur'.after = c.after
      BY <2>1, <1>2, TargetType
    <2>3. CurPos' = CandPos
      BY <2>2, <1>1 DEF CurPos, CandPos, Pos, FirstOf, c
    <2>4. /\ DOMAIN tail' = DOMAIN q
          /\ \A i \in DOMAIN q : tail'[i].kind = q[i].kind
          /\ \A i \in DOMAIN q : q[i].kind = "frame" =>
               /\ ~tail'[i].live /\ tail'[i].ring = q[i].ring
               /\ tail'[i].from = q[i].from /\ tail'[i].to = q[i].to
      BY <2>1, <1>8, OutdatedTail
    <2>5. \A i \in DOMAIN tail' : ~LiveFrame(i)'
      BY <2>4 DEF LiveFrame, IsFrame
    <2>6. ASSUME Running' PROVE Running /\ at' = at /\ DOMAIN tail' = DOMAIN tail /\ tail # <<>>
                                /\ TargetPos' = TargetPos /\ 1 \in DOMAIN tail
      <3>1. at' = at /\ q = tail
        BY <2>6, <1>1, <1>7 DEF Running, Idle
      <3>2. Running /\ tail # <<>>
        BY <2>6, <3>1 DEF Running, Base, HeadIsAt
      <3>3. TargetPos' = TargetPos
        BY <3>1, <1>1, SamePositions
      <3>4. 1 \in DOMAIN tail
        BY <3>2, <1>2, Popped
      <3> QED BY <3>1, <3>2, <3>3, <3>4, <2>4
    <2>7. ASSUME Running', IsFrame(1)'
          PROVE  RunningFrame /\ Carries(1) /\ tail'[1].from = tail[1].from
      <3>1. q = tail
        BY <2>7, <1>1, <1>7 DEF Running, Idle
      <3>2. tail'[1].kind = tail[1].kind /\ (tail[1].kind = "frame" =>
              tail'[1].ring = tail[1].ring /\ tail'[1].from = tail[1].from)
        BY <3>1, <2>4, <2>6, <2>7
      <3> QED BY <3>2, <2>6, <2>7, <1>9 DEF RunningFrame, Carries, IsFrame
    <2>8. Chained'
      BY <2>5 DEF Chained
    <2>9. FeedChained'
      BY <1>3, <1>4, <1>9 DEF FeedChained, Supported, Prefix
    <2>10. RunningFrame' => Prefix(tail[1].from - 1)'
      BY <2>7, <1>9 DEF RunningFrame, WayInv, FramesChain, Prefix
    <2>11. MyFeed' => Current'
      <3>1. cur' # None
        BY <2>1, <1>2, TargetType
      <3> QED BY <3>1, <2>2, <1>3, <1>4 DEF MyFeed, Current
    <2>12. ASSUME at'.pc \in {"stale", "subscribing"}, Head(tail').kind = "frame"
           PROVE  ~Head(tail').live
      <3>1. at' = at /\ q = tail
        BY <2>12, <1>1, <1>7 DEF Idle
      <3>2. tail # <<>>
        BY <2>12, <3>1 DEF Base, HeadIsAt
      <3>3. 1 \in DOMAIN tail /\ 1 \in DOMAIN tail'
        BY <3>1, <3>2, <1>2, <2>4, Popped
      <3>4. tail' \in Seq(Works)
        BY <2>1, <1>8, OutdatedTail
      <3>5. Head(tail') = tail'[1]
        BY <3>3, <3>4, Popped
      <3> QED BY <3>1, <3>3, <3>5, <2>4, <2>12
    <2>13. FramesChain'
      BY <2>8, <2>9, <2>10, <2>11, <2>12 DEF FramesChain
    <2>14. FramesAreFresh'
      <3>1. ASSUME RunningFrame', Fresh(TargetPos)', NEW i \in DOMAIN tail', Carries(i)'
            PROVE  Fresh(tail[i].from - 1)'
        <4>1. i = 1 /\ Running'
          BY <3>1, <2>5 DEF Carries, LiveFrame
        <4>2. RunningFrame /\ Carries(1) /\ tail'[1].from = tail[1].from /\ TargetPos' = TargetPos
              /\ 1 \in DOMAIN tail
          BY <3>1, <4>1, <2>6, <2>7 DEF RunningFrame
        <4>3. Fresh(TargetPos)
          BY <3>1, <4>2, <1>9 DEF Fresh
        <4>4. Fresh(tail[1].from - 1)
          BY <4>2, <4>3 DEF WayInv, FramesAreFresh
        <4> QED BY <4>1, <4>2, <4>4, <1>9 DEF Fresh
      <3> QED BY <3>1, <2>5 DEF FramesAreFresh
    <2>15. NoHoles' /\ TargetsAreDone'
      BY <1>3, <1>4, <1>9, <2>3 DEF WayInv, NoHoles, TargetsAreDone, Prefix
    <2> QED BY <1>11, <2>13, <2>14, <2>15 DEF WayInv
  <1> QED BY <1>12, <1>13

\* A frame arrives: it goes on where the feed stands, and the feed behind it.
LEMMA FrameArrivesStep ==
    ASSUME Base, WayInv, NoFrameFails', handleMultiplexFrame
    PROVE  WayInv'
  <1> DEFINE pos == sub.feed.pos
             to == IF core.last < pos + BatchSize THEN core.last ELSE pos + BatchSize
             w == [kind |-> "frame", scan |-> FALSE, live |-> TRUE, ring |-> Ring, from |-> pos + 1,
                   to |-> to]
  <1>1. /\ sub.feed.on /\ sub.feed.ring = Ring /\ pos < core.last /\ ~Expired(Ring, pos)
        /\ sub' = [sub EXCEPT !.feed.pos = to] /\ tail' = (IF Accepts(Ring) THEN Append(tail, w) ELSE tail)
        /\ UNCHANGED <<core, ckpt, lane, gaps, at, cur, susp>>
    BY DEF handleMultiplexFrame, store, enqueue
  <1>2. sub \in Subscribers /\ sub.feed \in Feeds /\ core.last \in Nat /\ core.first \in Nat
    BY DEF Base, Shape, Subscribers
  <1>3. sub.feed \in [on : {TRUE}, ring : Nat, pos : Nat, mine : BOOLEAN, gapped : BOOLEAN]
        /\ Behind(Ring) /\ pos \in Nat
    BY <1>1, <1>2, FeedTypes DEF Base, RingsBehind
  <1>4. to \in Nat /\ pos + 1 <= to /\ pos + 1 \in Nat /\ (pos + 1) - 1 = pos
    <2>1. BatchSize \in Nat /\ BatchSize > 0
      BY EventInboxAssumption
    <2> QED BY <2>1, <1>1, <1>2, <1>3
  <1>5. w \in Works /\ w.kind = "frame" /\ w.live /\ w.ring = Ring /\ w.from = pos + 1 /\ w.to = to
    <2>1. Ring \in Nat
      BY RingType DEF Base
    <2> QED BY <2>1, <1>4 DEF Works, FrameWork
  <1> HIDE DEF w, to
  <1>6. /\ sub'.feed.pos = to /\ sub'.feed.on /\ sub'.feed.ring = Ring /\ sub'.feed.mine = sub.feed.mine
        /\ sub'.cand = sub.cand
    <2>1. sub' = [sub EXCEPT !.feed = [sub.feed EXCEPT !.pos = to]]
      BY <1>1, <1>2 DEF Subscribers
    <2>2. sub'.feed = [sub.feed EXCEPT !.pos = to] /\ sub'.cand = sub.cand
      BY <2>1, <1>2 DEF Subscribers
    <2> QED BY <2>2, <1>1, <1>3
  <1>7. LaneRing = Ring
    <2>1. LaneRing \in 1..Ring /\ LaneRing \in Nat /\ Ring \in 1..LaneRing
      BY <1>3, LaneRingType DEF Behind
    <2> QED BY <2>1
  <1>8. Dealt' = Dealt /\ Lost' = Lost /\ LaneRing' = LaneRing
    <2>1. LaneEvents' = LaneEvents
      BY <1>1 DEF LaneEvents
    <2> QED BY <2>1, <1>1, SameEvents DEF LaneRing
  <1>9. CkptPos' = CkptPos /\ CurPos' = CurPos /\ CandPos' = CandPos /\ TargetPos' = TargetPos
    BY <1>1, <1>6, SamePositions
  <1>10. CheckpointIsDone' /\ NoHoles' /\ TargetsAreDone'
    <2>1. CheckpointIsDone'
      BY <1>1, <1>8, <1>9 DEF WayInv, CheckpointIsDone, Prefix, Fresh, Ring, FirstOf
    <2> QED BY <2>1, <1>1, <1>6, <1>8, <1>9 DEF WayInv, NoHoles, TargetsAreDone, Prefix
  <1>11. (Current' <=> Current) /\ (MyFeed' <=> MyFeed) /\ (Running' <=> Running)
    BY <1>1, <1>6, <1>8 DEF Current, MyFeed, Running
  <1>12. ~susp /\ Current /\ MyFeed => Accepts(Ring)
    BY <1>7 DEF Current, MyFeed, Accepts
  <1>13. CASE ~Accepts(Ring)
    <2>1. tail' = tail
      BY <1>1, <1>13
    <2>2. (Chained => Chained') /\ \A i \in DOMAIN tail' : LiveFrame(i)' => LiveFrame(i)
      BY <2>1, <1>8, <1>11, ChainStays
    <2>3. (RunningFrame' <=> RunningFrame) /\ \A i \in DOMAIN tail : Carries(i)' => Carries(i)
      BY <2>1, <1>8, <1>11 DEF RunningFrame, Carries, IsFrame
    <2>4. FramesChain'
      <3>1. (RunningFrame => Prefix(tail[1].from - 1))'
        BY <2>1, <2>3, <1>8 DEF WayInv, FramesChain, Prefix
      <3>2. (~susp /\ (Current \/ RunningFrame) => Chained)'
        BY <2>2, <2>3, <1>1, <1>11 DEF WayInv, FramesChain
      <3>3. (~susp /\ RunningFrame /\ MyFeed => Current)'
        BY <2>3, <1>1, <1>11 DEF WayInv, FramesChain
      <3>4. (at.pc \in {"stale", "subscribing"} /\ Head(tail).kind = "frame" => susp \/ ~Head(tail).live)'
        BY <2>1, <1>1 DEF WayInv, FramesChain
      <3> QED BY <3>1, <3>2, <3>3, <3>4, <1>1, <1>11, <1>12, <1>13 DEF FramesChain
    <2>5. FramesAreFresh'
      <3>1. ASSUME Current', Fresh(CurPos)', NEW i \in DOMAIN tail', LiveFrame(i)'
            PROVE  Fresh(tail[i].from - 1)'
        BY <3>1, <2>1, <2>2, <1>8, <1>9, <1>11 DEF WayInv, FramesAreFresh, Fresh
      <3>2. ASSUME RunningFrame', Fresh(TargetPos)', NEW i \in DOMAIN tail', Carries(i)'
            PROVE  Fresh(tail[i].from - 1)'
        BY <3>2, <2>1, <2>3, <1>8, <1>9 DEF WayInv, FramesAreFresh, Fresh
      <3> QED BY <3>1, <3>2 DEF FramesAreFresh
    <2> QED BY <1>10, <2>4, <2>5 DEF WayInv
  <1>14. CASE Accepts(Ring)
    <2>1. tail' = Append(tail, w) /\ ~susp /\ ~susp' /\ Current /\ MyFeed
      BY <1>1, <1>7, <1>14 DEF Accepts, Current, MyFeed
    <2>2. Chained /\ Supported(Len(tail), w.from - 1)
      BY <2>1, <1>4, <1>5 DEF WayInv, FramesChain, FeedChained
    <2>3. /\ Chained'
          /\ \A i \in DOMAIN tail' :
               LiveFrame(i)' => \/ i \in DOMAIN tail /\ LiveFrame(i) /\ tail'[i] = tail[i]
                                \/ tail'[i] = w /\ w.kind = "frame" /\ i = Len(tail) + 1
          /\ tail # <<>> => tail'[1] = tail[1]
      BY <2>1, <2>2, <1>5, <1>8, <1>11, ChainGrows
    <2>4. /\ tail \in Seq(Works) /\ Len(tail) \in Nat /\ DOMAIN tail' = 1..(Len(tail) + 1)
          /\ DOMAIN tail = 1..Len(tail) /\ Len(tail') = Len(tail) + 1 /\ tail'[Len(tail) + 1] = w
          /\ (tail # <<>> => Head(tail') = Head(tail) /\ 1 \in DOMAIN tail)
      BY <2>1, <1>5, TailType, Appended, Popped
    <2>5. Running \/ at.pc \in {"stale", "subscribing"} => tail # <<>>
      BY DEF Running, Base, HeadIsAt
    <2>6. RunningFrame' => RunningFrame /\ tail'[1] = tail[1] /\ 1 \in DOMAIN tail
      BY <2>3, <2>4, <2>5, <1>8, <1>11 DEF RunningFrame, IsFrame
    <2>7. FeedChained'
      <3>1. PICK n \in 1..Len(tail') : n = Len(tail) + 1
        BY <2>4
      <3>2. Carries(n)'
        BY <3>1, <2>4, <1>1, <1>5, <1>7, <1>8 DEF Carries, IsFrame
      <3>3. tail'[n].to >= sub'.feed.pos
        BY <3>1, <2>4, <1>4, <1>5, <1>6
      <3>4. \E j \in 1..Len(tail') : Carries(j)' /\ tail'[j].to >= sub'.feed.pos
        BY <3>2, <3>3
      <3> QED BY <3>4 DEF FeedChained, Supported
    <2>8. FramesChain'
      <3>1. (RunningFrame => Prefix(tail[1].from - 1))'
        BY <2>6, <1>8 DEF WayInv, FramesChain, Prefix
      <3>2. (at.pc \in {"stale", "subscribing"} /\ Head(tail).kind = "frame" => susp \/ ~Head(tail).live)'
        BY <2>4, <2>5, <1>1 DEF WayInv, FramesChain
      <3> QED BY <3>1, <3>2, <2>1, <2>3, <2>7, <1>11 DEF FramesChain
    <2>9. Fresh(w.from - 1)
      <3>1. pos >= core.first - 1
        BY <1>1, <1>2, <1>3 DEF Expired
      <3> QED BY <3>1, <1>2, <1>3, <1>4, <1>5, LostIsForgotten DEF Fresh
    <2>10. FramesAreFresh'
      <3>1. ASSUME Current', Fresh(CurPos)', NEW i \in DOMAIN tail', LiveFrame(i)'
            PROVE  Fresh(tail[i].from - 1)'
        <4>1. CASE i \in DOMAIN tail /\ LiveFrame(i) /\ tail'[i] = tail[i]
          BY <3>1, <4>1, <1>8, <1>9, <1>11 DEF WayInv, FramesAreFresh, Fresh
        <4>2. CASE tail'[i] = w
          BY <4>2, <2>9, <1>8 DEF Fresh
        <4> QED BY <3>1, <4>1, <4>2, <2>3
      <3>2. ASSUME RunningFrame', Fresh(TargetPos)', NEW i \in DOMAIN tail', Carries(i)'
            PROVE  Fresh(tail[i].from - 1)'
        <4>1. RunningFrame /\ tail'[1] = tail[1] /\ 1 \in DOMAIN tail /\ Fresh(TargetPos)
          BY <3>2, <2>6, <1>8, <1>9 DEF Fresh
        <4>2. i = 1 \/ LiveFrame(i)'
          BY <3>2 DEF Carries, LiveFrame
        <4>3. (i \in DOMAIN tail /\ Carries(i) /\ tail'[i] = tail[i]) \/ tail'[i] = w
          BY <4>1, <4>2, <2>3 DEF Carries, LiveFrame, RunningFrame
        <4>4. CASE i \in DOMAIN tail /\ Carries(i) /\ tail'[i] = tail[i]
          BY <4>1, <4>4, <1>8 DEF WayInv, FramesAreFresh, Fresh
        <4>5. CASE tail'[i] = w
          BY <4>5, <2>9, <1>8 DEF Fresh
        <4> QED BY <4>3, <4>4, <4>5
      <3> QED BY <3>1, <3>2 DEF FramesAreFresh
    <2> QED BY <1>10, <2>8, <2>10 DEF WayInv
  <1> QED BY <1>13, <1>14

\* Every step keeps the way of the checkpoint without holes.
LEMMA WayStep == ASSUME Base, rev \in Nat, WayInv, [Next]_vars PROVE WayInv'
  <1>0. NoFrameFails'
    BY FramesStayStored DEF WayInv
  <1>1. CASE CoreWrite \/ CoreForget \/ CoreNewRing
    BY <1>0, <1>1, CoreStep
  <1>2. CASE Failures \/ V2Attach \/ V2Invalid
    BY <1>0, <1>2, QuietReads
  <1>3. CASE V2Transition
    BY <1>0, <1>3, TransitionStep
  <1>4. CASE V2Expired
    BY <1>0, <1>4, ExpiredStep
  <1>5. CASE V2Batch
    BY <1>0, <1>5, BatchStep
  <1>6. CASE \/ restoreMultiplexRoute \/ collectMultiplexCandidate \/ StaleReplace
             \/ EstablishFails \/ Reconnect \/ Disconnect \/ handleGapFrame
    BY <1>0, <1>6, QuietSubscription
  <1>7. CASE \/ reconcileOnce \/ notifySources \/ retryDue \/ Settle
             \/ ingestCanonicalSnapshotEvidence \/ UNCHANGED vars
    BY <1>0, <1>7, QuietWork
  <1>8. CASE FrameStart
    BY <1>0, <1>8, FrameStartStep
  <1>9. CASE FrameAccepted
    BY <1>0, <1>9, FrameAcceptedStep
  <1>10. CASE FrameStale
    BY <1>0, <1>10, FrameStaleStep
  <1>11. CASE activateMultiplexTargets
    BY <1>0, <1>11, ActivateStep
  <1>12. CASE handleMultiplexFrame
    BY <1>0, <1>12, FrameArrivesStep
  <1>13. CASE Restart
    BY <1>0, <1>13, RestartStep
  <1> QED
    BY <1>1, <1>2, <1>3, <1>4, <1>5, <1>6, <1>7, <1>8, <1>9, <1>10, <1>11, <1>12, <1>13
       DEF Next, Environment, V2, Frames, Socket, Scan, Failures

\* There is nothing to skip at first.
LEMMA InitWay == ASSUME FramesAreStored, Init PROVE WayInv
  <1>1. PICK s \in Scenarios : left = s
    BY DEF Init
  <1>2. NoFrameFails
    <2>1. s \in Scenario /\ s.frame = 0
      BY EventInboxAssumption DEF FramesAreStored
    <2> QED BY <1>1, <2>1 DEF NoFrameFails, Scenario
  <1>3. ckpt = None /\ lane = <<>> /\ gaps = {} /\ tail = <<>> /\ at = Idle /\ cur = None
        /\ sub.cand = None
    BY DEF Init
  <1>4. Dealt = {} /\ Lost = {}
    <2>1. LaneEvents = {}
      BY <1>3 DEF LaneEvents
    <2>2. \A e : ~Covered(e)
      BY <1>3 DEF Covered
    <2> QED BY <2>1, <2>2 DEF Dealt, Lost
  <1>5. ~Current /\ ~Running /\ at.pc = "idle"
    BY <1>3 DEF Current, Running, Idle
  <1>6. FramesChain /\ FramesAreFresh
    BY <1>5 DEF FramesChain, FramesAreFresh, RunningFrame
  <1> QED BY <1>2, <1>3, <1>4, <1>6 DEF WayInv, NoHoles, CheckpointIsDone, TargetsAreDone

\* As long as no frame fails to be stored, every event at or before the checkpoint is an item of
\* the lane or is declared lost, whichever way the checkpoint came there.
THEOREM NoEventIsSkipped == FramesAreStored /\ Spec => []NothingSkippedSilently
  <1>1. FramesAreStored /\ Init => Base /\ ItemInv /\ WayInv
    <2>1. Init => ItemInv
      BY DEF Init, ItemInv, EventsOnce, GapsOfItems, HeldIsItem, LaneEvents
    <2> QED BY <2>1, InitBase, InitWay
  <1>2. Base /\ ItemInv /\ WayInv /\ [Next]_vars => (Base /\ ItemInv /\ WayInv)'
    BY BaseStep, ItemStep, WayStep DEF ItemInv
  <1>3. Base /\ ItemInv /\ WayInv => NothingSkippedSilently
    BY DEF WayInv, CheckpointIsDone, CkptPos, Prefix, Dealt, NothingSkippedSilently
  <1> QED BY <1>1, <1>2, <1>3, PTL DEF Spec

-----------------------------------------------------------------------------
(* The lane implements the ordered feed. *)

EventsOf(q) == [i \in DOMAIN q |-> q[i].ev]

\* The events of a stretch of items.
LEMMA EventsOfType ==
    ASSUME NEW q \in Seq(Items)
    PROVE  EventsOf(q) \in Seq(Nat) /\ Len(EventsOf(q)) = Len(q) /\ Len(q) \in Nat
           /\ \A i \in 1..Len(q) : EventsOf(q)[i] = q[i].ev
  <1>1. Len(q) \in Nat /\ DOMAIN q = 1..Len(q) /\ \A i \in 1..Len(q) : q[i] \in Items
    BY LenProperties
  <1>2. \A i \in 1..Len(q) : q[i].ev \in Nat
    BY <1>1 DEF Items
  <1> QED BY <1>1, <1>2 DEF EventsOf

\* The events of two stretches of items, one behind the other.
LEMMA EventsInRow ==
    ASSUME NEW q \in Seq(Items), NEW v \in Seq(Items)
    PROVE  EventsOf(q \o v) = EventsOf(q) \o EventsOf(v)
  <1> DEFINE x == EventsOf(q)
             y == EventsOf(v)
             z == EventsOf(q \o v)
  <1>1. /\ q \o v \in Seq(Items) /\ Len(q \o v) = Len(q) + Len(v)
        /\ \A i \in 1..(Len(q) + Len(v)) : (q \o v)[i] = IF i <= Len(q) THEN q[i] ELSE v[i - Len(q)]
    BY ConcatProperties
  <1>2. /\ x \in Seq(Nat) /\ Len(x) = Len(q) /\ Len(q) \in Nat
        /\ \A i \in 1..Len(q) : x[i] = q[i].ev
    BY EventsOfType
  <1>3. /\ y \in Seq(Nat) /\ Len(y) = Len(v) /\ Len(v) \in Nat
        /\ \A i \in 1..Len(v) : y[i] = v[i].ev
    BY EventsOfType
  <1>4. /\ z \in Seq(Nat) /\ Len(z) = Len(q) + Len(v)
        /\ \A i \in 1..(Len(q) + Len(v)) : z[i] = (q \o v)[i].ev
    BY <1>1, EventsOfType
  <1> HIDE DEF x, y, z
  <1>5. /\ x \o y \in Seq(Nat) /\ Len(x \o y) = Len(x) + Len(y)
        /\ \A i \in 1..(Len(x) + Len(y)) : (x \o y)[i] = IF i <= Len(x) THEN x[i] ELSE y[i - Len(x)]
    <2>1. x \in Seq(Nat) /\ y \in Seq(Nat)
      BY <1>2, <1>3
    <2> QED BY <2>1, ConcatProperties
  <1>6. ASSUME NEW i \in 1..(Len(q) + Len(v)) PROVE z[i] = (x \o y)[i]
    <2>1. CASE i <= Len(q)
      <3>1. i \in 1..Len(q)
        BY <2>1, <1>2, <1>3, <1>6
      <3> QED BY <2>1, <3>1, <1>1, <1>2, <1>3, <1>4, <1>5, <1>6
    <2>2. CASE ~(i <= Len(q))
      <3>1. i - Len(q) \in 1..Len(v)
        BY <2>2, <1>2, <1>3, <1>6
      <3>2. (q \o v)[i] = v[i - Len(q)]
        BY <2>2, <1>1, <1>6
      <3>3. (x \o y)[i] = y[i - Len(q)]
        BY <2>2, <1>2, <1>3, <1>5, <1>6
      <3> QED BY <3>1, <3>2, <3>3, <1>3, <1>4, <1>6
    <2> QED BY <2>1, <2>2
  <1>7. z = x \o y
    BY <1>2, <1>3, <1>4, <1>5, <1>6, SeqEqual
  <1> QED BY <1>7 DEF x, y, z

Delivered == EventsOf(lane)

\* The abstract delivery of n events behind 'top'.
Delivers(top, n) ==
  /\ top + n <= core.last /\ Delivered' = Delivered \o [i \in 1..n |-> top + i]
  /\ UNCHANGED <<core.last, Lost>>

\* The abstract feed, in terms of the lane.
LEMMA FeedVariables ==
    ASSUME Base
    PROVE  /\ Feed!Handled = Dealt /\ Feed!vars = <<core.last, Delivered, Lost>>
  <1>1. {Delivered[i] : i \in DOMAIN Delivered} = LaneEvents
    BY DEF Delivered, EventsOf, LaneEvents
  <1>2. LaneEvents \subseteq Event
    <2>1. core.last \in Nat /\ core.last <= MaxEvents /\ MaxEvents \in Nat
      BY PositionsAreNumbers
    <2> QED BY <2>1 DEF Base, CoreOrder, Event
  <1> QED BY <1>1, <1>2 DEF Feed!Handled, Feed!vars, Delivered, EventsOf, Dealt, Lost

\* What is dealt with is a first stretch of what Core wrote.
LEMMA DealtRow ==
    ASSUME Base, NoHoles
    PROVE  \E d \in Nat : Dealt = 1..d /\ d <= core.last
  <1> DEFINE Open == {k \in Nat : k + 1 \notin Dealt}
  <1>1. core.last \in Nat /\ core.first \in Nat /\ core.first <= core.last + 1
    BY PositionsAreNumbers DEF Base, CoreOrder
  <1>2. \A e \in Dealt : e \in Nat /\ 1 <= e /\ e <= core.last
    <2>1. \A e \in Event : e \in Nat /\ 1 <= e
      BY EventInboxAssumption DEF Event
    <2>2. \A e \in LaneEvents : e \in 1..core.last
      BY DEF Base, CoreOrder
    <2>3. \A e \in Dealt : e \in LaneEvents \/ e \in Lost
      BY DEF Dealt, Lost
    <2>4. \A e \in Dealt : e \in Event
      BY DEF Dealt
    <2> QED BY <2>1, <2>2, <2>3, <2>4, <1>1, LostIsForgotten
  <1>3. core.last \in Open
    BY <1>1, <1>2
  <1>4. PICK d \in Open : \A j \in Open : <<j, d>> \notin OpToRel(<, Nat)
    <2>1. Open \subseteq Nat /\ Open # {}
      BY <1>3
    <2> HIDE DEF Open
    <2> QED BY <2>1, NatLessThanWellFounded, WFMin
  <1>5. d \in Nat /\ d + 1 \notin Dealt /\ \A j \in Nat : j < d => j + 1 \in Dealt
    <2>1. \A j \in Open : ~(j < d) /\ j \in Nat
      BY <1>4 DEF OpToRel
    <2> QED BY <2>1, <1>4
  <1> HIDE DEF Open
  <1>6. ASSUME NEW e \in 1..d PROVE e \in Dealt
    <2>1. e - 1 \in Nat /\ e - 1 < d /\ (e - 1) + 1 = e
      BY <1>5, <1>6
    <2> QED BY <2>1, <1>5
  <1>7. ASSUME NEW e \in Dealt PROVE e \in 1..d
    <2>1. 1..e \subseteq Dealt /\ e \in Nat /\ 1 <= e
      BY <1>2 DEF NoHoles, Prefix
    <2>2. ~(d + 1 <= e)
      <3>1. d + 1 <= e => d + 1 \in 1..e
        BY <2>1, <1>5
      <3> QED BY <3>1, <2>1, <1>5
    <2> QED BY <2>1, <2>2, <1>5
  <1>8. Dealt = 1..d
    BY <1>6, <1>7
  <1>9. d <= core.last
    <2>1. d = 0 \/ d \in Dealt
      BY <1>5, <1>6
    <2> QED BY <2>1, <1>1, <1>2
  <1> QED BY <1>5, <1>8, <1>9

\* A batch that continues what is dealt with delivers the events behind it.
LEMMA BatchDelivers ==
    ASSUME Base, WayInv, UNCHANGED core, gaps' = gaps, NEW r, NEW from \in Nat, NEW to \in Nat,
           1 <= from, from <= to, to <= core.last, Prefix(from - 1),
           \A e \in Lost : e \in Nat /\ e < from, ingestBatch(r, from, to)
    PROVE  [Feed!Next]_(Feed!vars)
  <1>1. core.last \in Nat /\ core.last <= MaxEvents /\ MaxEvents \in Nat
    BY PositionsAreNumbers
  <1>2. PICK d \in Nat : Dealt = 1..d /\ d <= core.last
    BY DealtRow DEF WayInv
  <1>3. from - 1 <= d
    <2>1. from - 1 = 0 \/ from - 1 \in 1..(from - 1)
      OBVIOUS
    <2> QED BY <2>1, <1>2 DEF Prefix
  <1>4. from..to \subseteq Event
    BY <1>1 DEF Event
  <1>5. LaneEvents' = LaneEvents \cup (from..to)
    BY BatchIsStored DEF Base, Shape
  <1>6. Lost' = Lost
    BY <1>4, <1>5, BatchIsDealt
  <1> DEFINE S == (from..to) \ LaneEvents
             u == Unseen(from, to)
             n == to - d
  <1>7. \A e \in from..to : e \in LaneEvents <=> e <= d
    <2> SUFFICES ASSUME NEW e \in from..to PROVE e \in LaneEvents <=> e <= d
      OBVIOUS
    <2>1. e \in Nat /\ 1 <= e /\ e \notin Lost /\ e \in Event
      BY <1>4
    <2>2. e \in Dealt <=> e \in LaneEvents
      BY <2>1 DEF Dealt, Lost
    <2>3. e \in Dealt <=> e <= d
      BY <2>1, <1>2
    <2> QED BY <2>2, <2>3
  <1>8. Ascending(u, S)
    BY UnseenInOrder
  <1>9. lane' = lane \o [i \in 1..Len(u) |-> laneItem(u[i])] /\ lane \in Seq(Items)
    BY DEF ingestBatch, Base, Shape
  <1>10. \A e : laneItem(e).ev = e
    BY DEF laneItem
  <1>11. CASE to <= d
    <2>1. S = {}
      BY <1>2, <1>7, <1>11
    <2>2. Len(u) = 0
      <3>1. Cardinality(S) = 0
        BY <2>1, FS_EmptySet
      <3>2. u \in [1..0 -> S]
        BY <1>8, <3>1 DEF Ascending
      <3> HIDE DEF u
      <3> QED BY <3>2
    <2> HIDE DEF u
    <2>3. lane' = lane
      BY <2>2, <1>9
    <2>4. Delivered' = Delivered
      BY <2>3 DEF Delivered
    <2> QED BY <2>4, <1>6, FeedVariables DEF Feed!vars, Delivered, EventsOf, Lost
  <1>12. CASE d < to
    <2>1. S = (d + 1)..to
      BY <1>2, <1>3, <1>7
    <2>2. u = [i \in 1..n |-> d + i]
      <3>1. Ascending(u, (d + 1)..to)
        BY <1>8, <2>1
      <3> QED BY <3>1, <1>12, <1>2, RowInOrder
    <2>3. n \in 1..MaxEvents /\ n \in Nat /\ d + n = to
      BY <1>1, <1>2, <1>12
    <2> HIDE DEF u, S, n
    <2>4. Len(u) = n /\ \A i \in 1..n : u[i] = d + i
      BY <2>2, <2>3
    <2>5. Delivered' = Delivered \o [i \in 1..n |-> d + i]
      <3> DEFINE v == [i \in 1..n |-> laneItem(u[i])]
      <3>1. \A i \in 1..n : laneItem(u[i]) \in Items /\ laneItem(u[i]).ev = d + i
        <4>1. \A e \in Nat : laneItem(e) \in Items /\ laneItem(e).ev = e
          BY DEF laneItem, Items
        <4>2. \A i \in 1..n : d + i \in Nat
          BY <2>3
        <4> QED BY <4>1, <4>2, <2>4
      <3>2. v \in Seq(Items)
        BY <3>1, <2>3
      <3>3. EventsOf(v) = [i \in 1..n |-> d + i]
        BY <3>1 DEF EventsOf
      <3>4. lane' = lane \o v
        BY <1>9, <2>4
      <3> HIDE DEF v
      <3> QED BY <3>2, <3>3, <3>4, <1>9, EventsInRow DEF Delivered
    <2>6. d = (IF Dealt = {} THEN 0 ELSE CHOOSE m \in Dealt : \A k \in Dealt : k <= m)
      <3>1. CASE d = 0
        BY <3>1, <1>2
      <3>2. CASE d # 0
        <4>1. d \in Dealt /\ \A k \in Dealt : k <= d /\ k \in Nat
          BY <3>2, <1>2
        <4>2. \A m \in Dealt : (\A k \in Dealt : k <= m) => m = d
          BY <4>1
        <4> QED BY <4>1, <4>2
      <3> QED BY <3>1, <3>2
    <2>7. Feed!Deliver
      <3>1. d = (IF Feed!Handled = {} THEN 0
                 ELSE CHOOSE m \in Feed!Handled : \A k \in Feed!Handled : k <= m)
        BY <2>6, FeedVariables
      <3>2. d + n <= core.last
        BY <2>3
      <3> DEFINE top == IF Feed!Handled = {} THEN 0
                        ELSE CHOOSE m \in Feed!Handled : \A k \in Feed!Handled : k <= m
      <3>3. Delivers(d, n)
        BY <3>2, <2>5, <1>6 DEF Delivers
      <3>4. Delivers(top, n)
        <4> HIDE DEF top
        <4>1. top = d
          BY <3>1 DEF top
        <4> QED BY <4>1, <3>3
      <3> QED BY <3>4, <2>3 DEF Feed!Deliver, Delivers, Delivered, EventsOf, Lost
    <2> QED BY <2>7 DEF Feed!Next
  <1> QED BY <1>2, <1>11, <1>12

\* A step that stores no event may declare some lost.
LEMMA OthersLose ==
    ASSUME Base, Base', NoHoles', core'.last = core.last, Delivered' = Delivered,
           gaps \subseteq gaps'
    PROVE  [Feed!Next]_(Feed!vars)
  <1> DEFINE S == Lost' \ Lost
  <1>1. LaneEvents' = LaneEvents
    <2>1. LaneEvents = {Delivered[i] : i \in DOMAIN Delivered}
      BY DEF Delivered, EventsOf, LaneEvents
    <2>2. LaneEvents' = {Delivered'[i] : i \in DOMAIN Delivered'}
      BY DEF Delivered, EventsOf, LaneEvents
    <2> QED BY <2>1, <2>2
  <1>2. Lost' = Lost \cup S
    BY <1>1 DEF Lost, Covered
  <1>3. CASE S = {}
    BY <1>2, <1>3 DEF Feed!vars, Delivered, EventsOf, Lost
  <1>4. CASE S # {}
    <2>1. S \in SUBSET (1..core.last)
      <3>1. core'.first \in Nat /\ core'.last \in Nat /\ core'.first <= core'.last + 1
        BY DEF Base, Shape, CoreOrder
      <3>2. ASSUME NEW e \in S PROVE e \in 1..core.last
        <4>1. e \in Event /\ e \in Nat /\ 1 <= e
          BY <3>2, EventInboxAssumption DEF Lost, Event
        <4>2. PICK g \in gaps' : g.after < e /\ e < g.resume
          BY <3>2 DEF Lost, Covered
        <4>3. g.after \in Nat /\ g.resume \in Nat /\ (g.resume <= core'.first \/ g.resume <= g.after)
          BY <4>2 DEF Base, Shape, CoreOrder
        <4> HIDE DEF S
        <4> QED BY <4>1, <4>2, <4>3, <3>1
      <3> QED BY <3>2
    <2>2. \A e \in S : e \notin Dealt
      BY <1>1 DEF Dealt, Lost
    <2>3. Dealt' = Dealt \cup S
      BY <1>1 DEF Dealt, Lost, Covered
    <2>4. \A e \in Dealt \cup S : \A f \in 1..e : f \in Dealt \cup S
      BY <2>3 DEF NoHoles, Prefix
    <2> HIDE DEF S
    <2>5. S # {} /\ S \cap Feed!Handled = {} /\ Feed!Upto(Feed!Handled \cup S)
      BY <2>2, <2>4, <1>4, FeedVariables DEF Feed!Upto
    <2>6. Feed!Lose
      BY <2>1, <2>5, <1>2 DEF Feed!Lose, Delivered, EventsOf, Lost
    <2> QED BY <2>6 DEF Feed!Next
  <1> QED BY <1>3, <1>4

\* The steps that store no event.
LEMMA NothingStored ==
    ASSUME Base, rev \in Nat, [Next]_vars, ~(CoreWrite \/ V2Batch \/ FrameAccepted)
    PROVE  core'.last = core.last /\ Delivered' = Delivered /\ gaps \subseteq gaps'
  <1>1. CASE Settle
    BY <1>1, SettlersKeepEvents DEF Delivered, EventsOf, Base, Shape
  <1>2. CASE CoreForget \/ CoreNewRing
    <2>1. core'.last = core.last
      BY <1>2 DEF CoreForget, CoreNewRing, Base, Shape
    <2>2. UNCHANGED <<lane, gaps>>
      BY <1>2 DEF CoreForget, CoreNewRing, store
    <2> QED BY <2>1, <2>2 DEF Delivered
  <1>3. CASE V2Transition \/ V2Expired \/ V2Invalid
    BY <1>3 DEF V2Transition, V2Expired, V2Invalid, rebaseEpochTransition, transitionSource,
       rebaseExpiredCheckpoint, bootstrapExpiredLane, recordInvalidCursorGap, declareGap, store,
       Delivered
  <1>4. CASE \/ Disconnect \/ EstablishFails \/ Restart \/ notifySources
             \/ ingestCanonicalSnapshotEvidence \/ V2Attach \/ V2AttachFails
             \/ V2TransitionRefused \/ V2ReadFails \/ V2ExpiredAgain
             \/ V2BatchRolledBack \/ restoreMultiplexRoute \/ FrameStart \/ FrameStale
             \/ StaleReplace \/ FrameFails \/ activateMultiplexTargets \/ Reconnect
             \/ handleMultiplexFrame \/ handleGapFrame \/ reconcileOnce
             \/ collectMultiplexCandidate \/ retryDue \/ UNCHANGED vars
    <2>1. UNCHANGED <<core, lane, gaps>>
      BY <1>4 DEF Disconnect, EstablishFails, Restart, notifySources,
         ingestCanonicalSnapshotEvidence, V2Attach, V2AttachFails,
         V2TransitionRefused, V2ReadFails, V2ExpiredAgain,
         V2BatchRolledBack, restoreMultiplexRoute, FrameStart, FrameStale,
         StaleReplace, FrameFails, activateMultiplexTargets, Reconnect,
         handleMultiplexFrame, handleGapFrame, reconcileOnce,
         collectMultiplexCandidate, retryDue, vars, store
    <2> QED BY <2>1 DEF Delivered
  <1> QED BY <1>1, <1>2, <1>3, <1>4 DEF Next, Environment, V2, Frames, Socket, Scan

\* Every step of the lane is a step of the feed, or none.
LEMMA FeedStep ==
    ASSUME Base, Base', rev \in Nat, WayInv, WayInv', [Next]_vars
    PROVE  [Feed!Next]_(Feed!vars)
  <1>1. CASE CoreWrite
    <2>1. core'.last = core.last + 1 /\ core.last < MaxEvents /\ UNCHANGED <<lane, gaps>>
      BY <1>1 DEF CoreWrite, store, Base, Shape
    <2>2. Delivered' = Delivered /\ Lost' = Lost
      BY <2>1 DEF Delivered, Lost, Covered, LaneEvents
    <2>3. Feed!Write
      BY <2>1, <2>2 DEF Feed!Write, Delivered, EventsOf, Lost
    <2> QED BY <2>3 DEF Feed!Next
  <1>2. CASE V2Batch
    <2>1. at.pc = "read" /\ UNCHANGED core
          /\ (IF BatchEnd = ReadPos THEN UNCHANGED <<lane, gaps>>
              ELSE ingestBatch(at.ring, ReadPos + 1, BatchEnd))
      BY <1>2 DEF V2Batch, BatchEnd
    <2>2. CASE UNCHANGED <<lane, gaps>>
      BY <2>1, <2>2 DEF Feed!vars, Covered, LaneEvents
    <2>3. CASE BatchEnd # ReadPos /\ ingestBatch(at.ring, ReadPos + 1, BatchEnd)
      <3>1. BatchEnd \in Nat /\ BatchEnd <= core.last /\ ReadPos < BatchEnd /\ ReadPos \in Nat
        BY <2>1, <2>3, BatchEndType, ReadStands
      <3>2. Prefix(ReadPos) /\ \A e \in Lost : e \in Nat /\ e <= ReadPos
        BY <2>1, ReadContinues
      <3> DEFINE from == ReadPos + 1
                 to == BatchEnd
                 r == at.ring
      <3>3. from \in Nat /\ 1 <= from /\ from <= to /\ to \in Nat /\ from - 1 = ReadPos
        BY <3>1
      <3>4. \A e \in Lost : e \in Nat /\ e < from
        BY <3>1, <3>2
      <3>5. Prefix(from - 1)
        BY <3>2, <3>3
      <3>6. ingestBatch(r, from, to) /\ to <= core.last /\ gaps' = gaps
        BY <2>3, <3>1 DEF ingestBatch
      <3> HIDE DEF from, to, r
      <3> QED BY <2>1, <3>3, <3>4, <3>5, <3>6, BatchDelivers
    <2> QED BY <2>1, <2>2, <2>3
  <1>3. CASE FrameAccepted
    <2> DEFINE from == tail[1].from
               to == tail[1].to
               r == tail[1].ring
    <2>1. /\ Frame = tail[1] /\ from \in Nat /\ to \in Nat /\ 1 <= from /\ from <= to
          /\ to <= core.last /\ Prefix(from - 1) /\ \A e \in Lost : e \in Nat /\ e < from
      BY <1>3, FrameContinues
    <2>2. ingestBatch(r, from, to) /\ UNCHANGED core
      BY <1>3, <2>1 DEF FrameAccepted
    <2>3. gaps' = gaps
      BY <2>2 DEF ingestBatch
    <2> HIDE DEF from, to, r
    <2> QED BY <2>1, <2>2, <2>3, BatchDelivers
  <1>4. CASE ~(CoreWrite \/ V2Batch \/ FrameAccepted)
    BY <1>4, NothingStored, OthersLose DEF WayInv
  <1> QED BY <1>1, <1>2, <1>3, <1>4

\* The feed begins as the lane does.
LEMMA InitFeed == ASSUME Init PROVE Feed!Init
  <1>1. PICK s \in Scenarios : core = [origins |-> <<1>>, first |-> 1, last |-> s.before]
    BY DEF Init
  <1>2. s.before \in 0..MaxEvents
    BY EventInboxAssumption DEF Scenario
  <1>3. lane = <<>> /\ gaps = {}
    BY DEF Init
  <1>4. [i \in DOMAIN lane |-> lane[i].ev] = <<>>
    BY <1>3
  <1>5. \A e : ~Covered(e)
    BY <1>3 DEF Covered
  <1> QED BY <1>1, <1>2, <1>4, <1>5 DEF Feed!Init

\* As long as no frame fails to be stored, the lane implements the ordered feed: Core's events
\* in Core's order, none twice, and those that never come declared lost before what follows them.
THEOREM LaneIsOrderedFeed == FramesAreStored /\ Spec => ImplementsFeed
  <1>1. FramesAreStored /\ Init => Base /\ ItemInv /\ WayInv /\ Feed!Init
    <2>1. Init => ItemInv
      BY DEF Init, ItemInv, EventsOnce, GapsOfItems, HeldIsItem, LaneEvents
    <2> QED BY <2>1, InitBase, InitWay, InitFeed
  <1>2. Base /\ ItemInv /\ WayInv /\ [Next]_vars => (Base /\ ItemInv /\ WayInv)'
    BY BaseStep, ItemStep, WayStep DEF ItemInv
  <1>3. Base /\ ItemInv /\ WayInv /\ (Base /\ ItemInv /\ WayInv)' /\ [Next]_vars
          => [Feed!Next]_(Feed!vars)
    BY FeedStep DEF ItemInv
  <1> QED BY <1>1, <1>2, <1>3, PTL DEF Spec, ImplementsFeed

-----------------------------------------------------------------------------
(* Types. *)

\* Attempts are counted up to the one that quarantines.
Counted == \A i \in DOMAIN lane : /\ lane[i].tries <= Attempts
                                  /\ lane[i].st = "pending" => lane[i].tries < Attempts

Timers == /\ retry \in {"none", "waiting", "due"} /\ cooldown \in BOOLEAN
          /\ scan \in {"idle", "queued", "collect", "subscribing"}

Rest == Counted /\ Timers /\ known \subseteq Event /\ Len(tail) <= MaxTail

\* A failed projection counts one attempt, and the last one quarantines.
LEMMA FailureIsCounted ==
    ASSUME lane \in Seq(Items), Counted, NEW i \in DOMAIN lane, acknowledgeQuarantined(i)
    PROVE  Counted'
  <1> DEFINE tries == (IF lane[i].rev = rev THEN lane[i].tries ELSE 0) + 1
             out == tries >= Attempts
  <1>1. CASE ~Pending(i)
    BY <1>1 DEF acknowledgeQuarantined, Counted
  <1>2. CASE Pending(i)
    <2>1. lane' = [lane EXCEPT ![i].st = IF out THEN "quarantined" ELSE "pending",
                               ![i].tries = tries, ![i].rev = rev]
      BY <1>2 DEF acknowledgeQuarantined
    <2>2. lane[i] \in Items /\ lane[i].tries \in Nat /\ lane[i].tries < Attempts /\ Attempts \in Nat \ {0}
      <3>1. lane[i] \in Items
        OBVIOUS
      <3>2. lane[i].tries < Attempts
        BY <1>2 DEF Counted, Pending
      <3> QED BY <3>1, <3>2, EventInboxAssumption DEF Items
    <2>3. tries \in Nat /\ tries <= Attempts
      BY <2>2
    <2> HIDE DEF tries
    <2>4. DOMAIN lane' = DOMAIN lane /\ \A k \in DOMAIN lane : k # i => lane'[k] = lane[k]
      BY <2>1
    <2>5. lane'[i].tries = tries /\ (lane'[i].st = "pending" => ~out)
      BY <2>1, <2>2 DEF Items
    <2>6. ~out => tries < Attempts
      BY <2>2, <2>3
    <2> HIDE DEF out
    <2> QED BY <2>3, <2>4, <2>5, <2>6 DEF Counted
  <1> QED BY <1>1, <1>2

\* A projection counts nothing.
LEMMA SuccessIsCounted ==
    ASSUME lane \in Seq(Items), Counted, NEW i \in DOMAIN lane, acknowledgeProjected(i)
    PROVE  Counted'
  <1>1. CASE ~Pending(i)
    BY <1>1 DEF acknowledgeProjected, Counted
  <1>2. CASE Pending(i)
    <2>1. lane' = [lane EXCEPT ![i].st = "projected", ![i].rev = rev] /\ lane[i] \in Items
      BY <1>2 DEF acknowledgeProjected
    <2>2. DOMAIN lane' = DOMAIN lane /\ \A k \in DOMAIN lane : k # i => lane'[k] = lane[k]
      BY <2>1
    <2>3. lane'[i].tries = lane[i].tries /\ lane'[i].st = "projected"
      BY <2>1 DEF Items
    <2> QED BY <2>2, <2>3 DEF Counted
  <1> QED BY <1>1, <1>2

\* A batch adds events of Core that nobody has tried to project.
LEMMA BatchIsCounted ==
    ASSUME Base, Counted, known \subseteq Event, NEW r, NEW from \in Nat, NEW to \in Nat,
           1 <= from, to <= core.last, ingestBatch(r, from, to)
    PROVE  Counted' /\ known' \subseteq Event
  <1>1. lane \in Seq(Items) /\ core.last \in Nat /\ core.last <= MaxEvents
    BY DEF Base, Shape, CoreOrder
  <1>2. /\ \A i \in DOMAIN lane : i \in DOMAIN lane' /\ lane'[i] = lane[i]
        /\ \A i \in DOMAIN lane' : i \in DOMAIN lane \/ NewItem(i)
    BY <1>1, BatchIsStored
  <1>3. Counted'
    BY <1>2, EventInboxAssumption DEF Counted, NewItem
  <1>4. known' = known \cup (from..to)
    BY DEF ingestBatch
  <1>5. from..to \subseteq Event
    BY <1>1, EventInboxAssumption DEF Event
  <1> QED BY <1>3, <1>4, <1>5

\* Attempts are counted, and the inbox holds events of Core.
LEMMA CountStep ==
    ASSUME Base, ItemInv, Counted, known \subseteq Event, [Next]_vars
    PROVE  Counted' /\ known' \subseteq Event
  <1>0. lane \in Seq(Items) /\ core.last \in Nat /\ core.last <= MaxEvents /\ MaxEvents \in Nat
    BY EventInboxAssumption DEF Base, Shape, CoreOrder
  <1>1. CASE V2Batch
    <2>1. BatchEnd \in Nat /\ BatchEnd <= core.last /\ ReadPos \in Nat
      BY <1>1, BatchEndType, ReadStands DEF V2Batch
    <2>2. \/ UNCHANGED <<lane, known>>
          \/ ingestBatch(at.ring, ReadPos + 1, BatchEnd)
      BY <1>1 DEF V2Batch, BatchEnd
    <2> HIDE DEF ReadPos, BatchEnd
    <2>3. ReadPos + 1 \in Nat /\ 1 <= ReadPos + 1
      BY <2>1
    <2> QED BY <2>1, <2>2, <2>3, BatchIsCounted DEF Counted
  <1>2. CASE FrameAccepted
    <2>1. /\ Frame \in FrameWork /\ 1 <= Frame.from /\ Frame.from <= Frame.to /\ Frame.to <= core.last
      BY <1>2, FrameStands DEF FrameAccepted, FrameBehind
    <2>2. ingestBatch(Frame.ring, Frame.from, Frame.to)
      BY <1>2 DEF FrameAccepted
    <2> QED BY <2>1, <2>2, BatchIsCounted DEF FrameWork
  <1>3. CASE loadPending
    <2>1. /\ DOMAIN lane' = DOMAIN lane
          /\ \A i \in DOMAIN lane :
               lane'[i] = lane[i] \/ lane'[i] = [lane[i] EXCEPT !.st = "pending", !.tries = 0, !.rev = rev]
      BY <1>3 DEF loadPending
    <2>2. \A i \in DOMAIN lane : lane[i] \in Items
      BY <1>0
    <2>3. \A i \in DOMAIN lane : lane'[i] = lane[i] \/ lane'[i].tries = 0
      BY <2>1, <2>2 DEF Items
    <2>4. known' = known
      BY <1>3 DEF loadPending
    <2>5. 0 <= Attempts /\ 0 < Attempts
      BY EventInboxAssumption
    <2>6. Counted'
      <3> SUFFICES ASSUME NEW i \in DOMAIN lane
                   PROVE  lane'[i].tries <= Attempts /\ (lane'[i].st = "pending" => lane'[i].tries < Attempts)
        BY <2>1 DEF Counted
      <3>1. CASE lane'[i] = lane[i]
        BY <3>1 DEF Counted
      <3>2. CASE lane'[i].tries = 0
        BY <3>2, <2>5
      <3> QED BY <3>1, <3>2, <2>3
    <2> QED BY <2>4, <2>6
  <1>4. CASE CursorAcknowledge
    <2>1. Item(held) \in DOMAIN lane
      BY <1>4 DEF CursorAcknowledge, ItemInv, HeldIsItem, Item
    <2>2. known' = known /\ (acknowledgeProjected(Item(held)) \/ acknowledgeQuarantined(Item(held)))
      BY <1>4 DEF CursorAcknowledge
    <2> QED BY <2>1, <2>2, <1>0, SuccessIsCounted, FailureIsCounted
  <1>5. CASE reprojectHistoricalCandidate
    <2>1. PICK i \in DOMAIN lane : acknowledgeProjected(i) \/ acknowledgeQuarantined(i)
      BY <1>5 DEF reprojectHistoricalCandidate
    <2>2. known' = known
      BY <1>5 DEF reprojectHistoricalCandidate
    <2> QED BY <2>1, <2>2, <1>0, SuccessIsCounted, FailureIsCounted
  <1>6. CASE ingestCanonicalSnapshotEvidence
    <2>1. lane' = lane /\ known' = known \cup left.snap /\ left.snap \subseteq 1..core.last
      BY <1>6 DEF ingestCanonicalSnapshotEvidence
    <2>2. 1..core.last \subseteq Event
      BY <1>0 DEF Event
    <2> QED BY <2>1, <2>2 DEF Counted
  <1>7. CASE UNCHANGED <<lane, known>>
    BY <1>7 DEF Counted
  <1> QED
    BY <1>1, <1>2, <1>3, <1>4, <1>5, <1>6, <1>7 DEF Next, Environment, V2, Frames, Socket, Scan,
         Settle, vars, store, multiplex, CoreWrite, CoreForget, CoreNewRing, Disconnect,
         EstablishFails, notifySources, Restart, V2Attach, V2AttachFails, V2Transition,
         rebaseEpochTransition, transitionSource, V2TransitionRefused, V2ReadFails, V2Expired,
         rebaseExpiredCheckpoint, bootstrapExpiredLane, V2ExpiredAgain, V2Invalid,
         recordInvalidCursorGap, V2BatchRolledBack, restoreMultiplexRoute, FrameStart, FrameStale,
         StaleReplace, FrameFails, activateMultiplexTargets, Reconnect, handleMultiplexFrame,
         handleGapFrame, reconcileOnce, collectMultiplexCandidate, retryDue

\* The timers of the owner take no other values.
LEMMA TimersStep == ASSUME Timers, [Next]_vars PROVE Timers'
  <1> USE DEF Timers, Finish, recordFailure, clearFailure, Settled, store, multiplex
  <1>1. CASE Environment
    BY <1>1 DEF Environment, CoreWrite, CoreForget, CoreNewRing, Disconnect, EstablishFails,
       Restart, notifySources, ingestCanonicalSnapshotEvidence
  <1>2. CASE V2Attach \/ V2AttachFails \/ V2Transition \/ V2TransitionRefused \/ V2ReadFails
    BY <1>2 DEF V2Attach, V2AttachFails, V2Transition, V2TransitionRefused, V2ReadFails
  <1>3. CASE V2Expired \/ V2ExpiredAgain \/ V2Invalid \/ V2BatchRolledBack
    BY <1>3 DEF V2Expired, V2ExpiredAgain, V2Invalid, V2BatchRolledBack
  <1>4. CASE V2Batch
    BY <1>4 DEF V2Batch
  <1>5. CASE restoreMultiplexRoute
    BY <1>5 DEF restoreMultiplexRoute
  <1>6. CASE Frames
    BY <1>6 DEF Frames, FrameStart, FrameAccepted, FrameStale, StaleReplace, FrameFails
  <1>7. CASE Socket
    BY <1>7 DEF Socket, activateMultiplexTargets, Reconnect, handleMultiplexFrame, handleGapFrame
  <1>8. CASE Scan \/ retryDue
    BY <1>8 DEF Scan, reconcileOnce, collectMultiplexCandidate, retryDue
  <1>9. CASE Settle
    BY <1>9 DEF Settle, loadPending, CursorAcknowledge, reprojectHistoricalCandidate
  <1>10. CASE UNCHANGED vars
    BY <1>10 DEF vars
  <1> QED BY <1>1, <1>2, <1>3, <1>4, <1>5, <1>6, <1>7, <1>8, <1>9, <1>10 DEF Next, V2

\* Work is queued only where there is room.
LEMMA TailStep ==
    ASSUME Base, Len(tail) <= MaxTail, [Next]_vars
    PROVE  Len(tail') <= MaxTail
  <1>0. tail \in Seq(Works) /\ Len(tail) \in Nat /\ MaxTail \in Nat \ {0}
    BY EventInboxAssumption DEF Base, Shape
  <1>1. Room => \A w : Len(Append(tail, w)) <= MaxTail
    BY <1>0 DEF Room
  <1>2. tail # <<>> => Tail(tail) \in Seq(Works) /\ Len(Tail(tail)) <= MaxTail
    BY <1>0, Popped
  <1>3. Len(Outdated(tail)) <= MaxTail /\ (tail # <<>> => Len(Outdated(Tail(tail))) <= MaxTail)
    BY <1>0, <1>2, OutdatedTail
  <1>4. at.pc # "idle" => tail # <<>>
    BY DEF Base, HeadIsAt
  <1>5. sub.cand # None /\ sub.cand.via = "tail" => tail # <<>>
    BY <1>4 DEF Base, HeadIsAt
  <1>6. CASE Failures
    BY <1>6, <1>2, FailuresEnd DEF Ends
  <1>7. CASE V2Batch \/ V2Invalid \/ restoreMultiplexRoute
    BY <1>7, <1>0, <1>2, <1>4 DEF V2Batch, V2Invalid, restoreMultiplexRoute, Finish
  <1>8. CASE FrameStart \/ FrameAccepted \/ StaleReplace
    BY <1>8, <1>0, <1>2, <1>4 DEF FrameStart, FrameAccepted, StaleReplace, Finish
  <1>9. CASE Disconnect \/ handleMultiplexFrame \/ handleGapFrame \/ reconcileOnce \/ notifySources
    BY <1>9, <1>0, <1>1 DEF Disconnect, handleMultiplexFrame, handleGapFrame, reconcileOnce,
       notifySources, enqueue
  <1>10. CASE activateMultiplexTargets
    BY <1>10, <1>0, <1>2, <1>3, <1>5 DEF activateMultiplexTargets
  <1>11. CASE EstablishFails
    BY <1>11, <1>0, <1>2, <1>5 DEF EstablishFails
  <1>12. CASE Restart
    BY <1>12, <1>0 DEF Restart
  <1>13. CASE UNCHANGED tail
    BY <1>13
  <1> QED
    BY <1>6, <1>7, <1>8, <1>9, <1>10, <1>11, <1>12, <1>13 DEF Next, Environment, V2, Frames, Socket,
         Scan, Settle, Failures, vars, CoreWrite, CoreForget, CoreNewRing, V2Attach, V2Transition,
         V2Expired, FrameStale, Reconnect, collectMultiplexCandidate, retryDue, loadPending,
         CursorAcknowledge, reprojectHistoricalCandidate, ingestCanonicalSnapshotEvidence

\* A sequence is one over the set that holds its elements.
LEMMA Narrowed ==
    ASSUME NEW T, NEW s \in Seq(T), NEW S, \A i \in 1..Len(s) : s[i] \in S
    PROVE  s \in Seq(S)
  <1>1. Len(s) \in Nat /\ s \in [1..Len(s) -> T]
    BY LenProperties
  <1>2. s \in [1..Len(s) -> S]
    BY <1>1
  <1> QED BY <1>1, <1>2, SeqDef

\* The shape, the items and the rest give every variable its type.
LEMMA TypesHold == ASSUME Base, ItemInv, Rest PROVE TypeOK
  <1>0. core.first \in Nat /\ core.last \in Nat /\ core.last <= MaxEvents /\ MaxEvents \in Nat
        /\ core.origins \in Seq(Nat) /\ Attempts \in Nat
    BY EventInboxAssumption DEF Base, Shape, CoreOrder
  <1>1. core.origins \in Seq(Nat \ {0})
    <2>1. \A r \in 1..Len(core.origins) : core.origins[r] \in Nat \ {0}
      <3>1. \A r \in 1..Len(core.origins) : 1 <= core.origins[r]
        BY DEF Base, CoreOrder, Ring, FirstOf
      <3>2. \A r \in 1..Len(core.origins) : core.origins[r] \in Nat
        BY <1>0
      <3> QED BY <3>1, <3>2
    <2> QED BY <2>1, <1>0, Narrowed
  <1>2. ckpt = None \/ (ckpt.ring \in 1..Ring /\ ckpt.after \in 0..MaxEvents)
    <2> SUFFICES ASSUME ckpt # None PROVE ckpt.ring \in 1..Ring /\ ckpt.after \in 0..MaxEvents
      OBVIOUS
    <2>1. ckpt.ring \in 1..Ring /\ Pos(ckpt.ring, ckpt.after) <= core.last /\ ckpt.after \in Nat
      BY DEF Base, RingsBehind, Shape, Targets
    <2>2. ckpt.after # Start => ckpt.after <= core.last
      BY <2>1 DEF Pos
    <2> QED BY <2>1, <2>2, <1>0 DEF Start
  <1>5. \A e \in LaneEvents : e \in Event
    BY <1>0 DEF Base, CoreOrder, Event
  <1>3. lane \in Seq([ev : Event, st : {"pending", "projected", "ignored", "quarantined"},
                      tries : 0..Attempts, rev : Nat])
    <2>1. lane \in Seq(Items) /\ DOMAIN lane = 1..Len(lane) /\ Len(lane) \in Nat
      BY DEF Base, Shape
    <2>2. \A i \in DOMAIN lane : lane[i] \in Items /\ lane[i].ev \in Event
      BY <2>1, <1>5 DEF LaneEvents
    <2>3. \A i \in DOMAIN lane :
            lane[i] \in [ev : Event, st : {"pending", "projected", "ignored", "quarantined"},
                         tries : 0..Attempts, rev : Nat]
      BY <2>2, <1>0 DEF Rest, Counted, Items
    <2> QED BY <2>1, <2>3, Narrowed
  <1>4. held \in Event \cup {NoEvent}
    BY <1>5 DEF ItemInv, HeldIsItem, LaneEvents
  <1> QED BY <1>0, <1>1, <1>2, <1>3, <1>4 DEF Rest, Timers, Base, Shape, TypeOK

\* Every reachable lane, checkpoint, tail and timer has its type.
THEOREM TypeCorrect == Spec => []TypeOK
  <1>1. Init => Base /\ ItemInv /\ Rest
    <2>1. Init => ItemInv
      BY DEF Init, ItemInv, EventsOnce, GapsOfItems, HeldIsItem, LaneEvents
    <2>2. Init => Rest
      <3> SUFFICES ASSUME Init PROVE Rest
        OBVIOUS
      <3>1. lane = <<>> /\ known = {} /\ tail = <<>> /\ scan = "idle" /\ retry = "none" /\ cooldown = FALSE
        BY DEF Init
      <3>2. Len(tail) <= MaxTail /\ DOMAIN lane = {}
        BY <3>1, EventInboxAssumption
      <3> QED BY <3>1, <3>2 DEF Rest, Counted, Timers
    <2> QED BY <2>1, <2>2, InitBase
  <1>2. Base /\ ItemInv /\ Rest /\ [Next]_vars => (Base /\ ItemInv /\ Rest)'
    BY BaseStep, ItemStep, CountStep, TimersStep, TailStep DEF ItemInv, Rest
  <1>3. Base /\ ItemInv /\ Rest => TypeOK
    BY TypesHold
  <1> QED BY <1>1, <1>2, <1>3, PTL DEF Spec
=============================================================================
