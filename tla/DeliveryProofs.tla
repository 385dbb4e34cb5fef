--------------------------- MODULE DeliveryProofs ---------------------------
(***************************************************************************)
(* What Delivery guarantees for any number of replies, any size of the     *)
(* Ring, any retry policy and any scenario: no effect is repeated, no card *)
(* entity is created twice, what the bridge dismisses by itself had no     *)
(* effect, cards of a surface show in order, the checkpoint of the Ring    *)
(* passes nothing that is still to be settled, and the cache and the       *)
(* attempts at a reply keep to their limits.                               *)
(***************************************************************************)
EXTENDS Delivery, FiniteSetTheorems, WellFoundedInduction, TLAPS

Kinds == AllKinds \cup {"none", "review"}
Reasons == {"none", "permanent", "transient", "rejected", "uncertain"}
States == {"none", "pending", "delivered", "dead_letter", "dismissed"}
RowType == [kind : Kinds, st : States, claimed : BOOLEAN, tries : Nat, why : Reasons,
            due : BOOLEAN, ckpt : BOOLEAN, epoch : Nat]
LaneType == [on : BOOLEAN, isolated : BOOLEAN, failed : Reply \cup {NoReply},
             review : Reply \cup {NoReply}]
DirectType == [r : Reply \cup {NoReply}, token : BOOLEAN]
ExecType == [at : {"idle", "create", "send"}, r : Reply \cup {NoReply}, lost : BOOLEAN]

\* The shape of what the proofs are about.
Shape ==
  /\ row \in [Reply -> RowType] /\ q \in [Lane -> LaneType]
  /\ cooldown \in BOOLEAN
  /\ owner \in [epoch : Nat, archived : BOOLEAN]
  /\ ring \in Seq(Reply) /\ direct \in DirectType /\ exec \in ExecType
  /\ wire \in [Reply -> {"none", "flying", "applied"}]
  /\ effects \in [Reply -> Nat] /\ made \in [Reply -> Nat]
  /\ late \subseteq Reply /\ waived \subseteq Reply
  /\ left \in Scenario

Reviews == {r \in Used : row[r].kind = "review"}
Quiet(r) == effects[r] = 0 /\ wire[r] = "none"

\* Nothing is known to have been sent, and another attempt may follow.
Open(r) ==
  \/ row[r].st = "none"
  \/ row[r].st = "pending" /\ ~row[r].claimed
  \/ row[r].st = "dead_letter" /\ Denied(r)

\* Orders are given without gaps, and what has no order yet has no row.
OrdersAreDense ==
  /\ Used = 1..Cardinality(Used)
  /\ \A r \in Reply : row[r].st = "none" => row[r] = EmptyRow

\* There are no more replies than scenarios allow, and every review is that of a user's lane.
ReviewsAreLinked ==
  /\ Cardinality(Users) <= MaxUsers
  /\ \A r \in Reviews : \E u \in Users : q[LaneOf(u)].review = r

\* A quarantine is that of a reply of its lane.
LanesAreFailed ==
  \A l \in Lane : q[l].on =>
    q[l].failed \in Reply /\ row[q[l].failed].st # "none" /\ LaneOf(q[l].failed) = l

\* A claim lasts as long as its reply is pending; a cutover leaves it behind.
ClaimIsOpen ==
  \A r \in Reply : row[r].claimed => row[r].st = "pending" \/ (row[r].st = "dismissed" /\ r \in waived)

\* What may be sent again, and what the bridge gave up, was never sent.
OpenIsQuiet ==
  \A r \in Reply : Open(r) \/ (row[r].st = "dismissed" /\ r \notin waived) => Quiet(r)

\* What may be sent again and has no checkpointed card has no card.
OpenHasNoCard == \A r \in Reply : Open(r) /\ ~row[r].ckpt => made[r] = 0

\* The execution has its claim, or lost it to a recovery, a cutover or an operator.
ExecutionIsKnown ==
  exec.at # "idle" =>
    /\ exec.r \in Reply
    /\ \/ ClaimHeld(exec.r)
       \/ row[exec.r].st = "dead_letter" /\ row[exec.r].why = "uncertain"
       \/ row[exec.r].st = "dismissed" /\ exec.r \in waived
    /\ exec.at = "create" => Quiet(exec.r) /\ made[exec.r] = 0
    /\ exec.at = "send" /\ ClaimHeld(exec.r) /\ ~row[exec.r].ckpt => made[exec.r] = 0

\* A request under way has had no effect, and a delivered reply has none under way.
WireIsFresh ==
  \A r \in Reply : /\ wire[r] = "flying" => effects[r] = 0
                   /\ row[r].st = "delivered" => wire[r] = "none"

\* Before a reply is sent, the older ones of its lane are settled.
OlderIsSettled ==
  \A r, s \in Reply :
    /\ r < s /\ LaneOf(r) = LaneOf(s)
    /\ row[s].claimed \/ effects[s] > 0 \/ wire[s] # "none"
    => r \in waived \/ row[r].st \in {"delivered", "dismissed"}

\* The checkpoint stays within the orders given.
CheckpointIsGiven == ckp \in Int /\ ckp <= Cardinality(Used)

IInv == /\ Shape /\ OrdersAreDense /\ ReviewsAreLinked /\ LanesAreFailed /\ ClaimIsOpen
        /\ OpenIsQuiet /\ OpenHasNoCard /\ ExecutionIsKnown /\ WireIsFresh /\ OlderIsSettled
        /\ CheckpointIsGiven /\ NoReplay /\ OneCard /\ ConflictOrder /\ HonestCheckpoint
-----------------------------------------------------------------------------
(* What a step may do to a row: nothing, create it, or move it on in one of the ways below.    *)

Born(s) == /\ row[s].st = "none" /\ s = Cardinality(Used) + 1
           /\ row'[s].st = "pending" /\ ~row'[s].claimed /\ ~row'[s].ckpt

GivenUp(s) == Open(s) /\ row'[s].st = "dismissed" /\ ~row'[s].claimed
Reopened(s) == Open(s) /\ row'[s].st = "pending" /\ ~row'[s].claimed
Redated(s) == row'[s].st = row[s].st /\ row'[s].claimed = row[s].claimed /\ row'[s].why = row[s].why
Lost(s) == /\ row[s].claimed
           /\ row'[s].st = "dead_letter" /\ ~row'[s].claimed /\ row'[s].why = "uncertain"
Waived(s) == /\ Nonterminal(s) /\ row'[s].st = "dismissed" /\ s \in waived'
             /\ row'[s].claimed => row[s].claimed
Refused(s) == /\ ClaimHeld(s) /\ ~row'[s].claimed
              /\ row'[s].st \in {"pending", "dead_letter", "dismissed"}
              /\ row'[s].why \in {"permanent", "transient", "rejected"}
              /\ effects[s] = 0 /\ wire'[s] = "none" /\ (~row[s].ckpt => made'[s] = 0)
              /\ exec'.at = "idle"
Landed(s) == /\ ClaimHeld(s) /\ row'[s].st = "delivered" /\ ~row'[s].claimed
             /\ wire'[s] = "none" /\ exec'.at = "idle"

MovesOn(s) ==
  /\ row[s].st # "none" /\ row'[s].st # "none"
  /\ row'[s].kind = row[s].kind /\ row'[s].ckpt = row[s].ckpt
  /\ \/ GivenUp(s) \/ Reopened(s) \/ Redated(s) \/ Lost(s) \/ Waived(s) \/ Refused(s) \/ Landed(s)

\* A step that sends nothing and applies nothing: requests end, and the checkpoint is computed.
RequestsStand ==
  /\ UNCHANGED <<effects, late>> /\ waived \subseteq waived'
  /\ \A s \in Reply : wire'[s] = wire[s] \/ wire'[s] = "none"
  /\ \A s \in Reply : \/ made'[s] = made[s]
                      \/ made'[s] <= 1 /\ ~Open(s)' /\ exec'.at = "idle"
  /\ exec'.at = "idle" \/ (exec'.at = exec.at /\ exec'.r = exec.r)
  /\ ckp' \in {ckp, SafeOrder(row), SafeOrder(row')}

SendsNothing ==
  /\ \A s \in Reply : row'[s] = row[s] \/ Born(s) \/ MovesOn(s)
  /\ Cardinality(Used)' >= Cardinality(Used)
  /\ RequestsStand

\* A row that is neither created nor lost.
Persists(s) ==
  \/ row'[s] = row[s]
  \/ row[s].st # "none" /\ row'[s].st # "none" /\ row'[s].kind = row[s].kind

\* A step that creates no row and fails lanes for their own replies only.
LanesStand ==
  /\ \A s \in Reply : Persists(s)
  /\ \A l \in Lane :
       /\ q'[l].review = q[l].review
       /\ q'[l].on =>
            \/ q[l].on /\ q'[l].failed = q[l].failed
            \/ q'[l].failed \in Used /\ LaneOf(q'[l].failed) = l

KeepsLanes == LanesStand /\ \A s \in Reply : row'[s] = row[s] \/ MovesOn(s)

-----------------------------------------------------------------------------
\* The least element of a set of replies: the oldest row a query finds.
LEMMA OldestReply ==
    ASSUME NEW S \in SUBSET Reply, S # {}
    PROVE  Min(S) \in S /\ \A s \in S : Min(S) <= s
  <1> DEFINE HasMin(A) == \E r \in A : \A s \in A : r <= s
             Bad == {A \in FiniteSubsetsOf(Reply) : A # {} /\ ~HasMin(A)}
  <1>0. IsFiniteSet(Reply) /\ Reply \subseteq Nat
    BY DeliveryAssumption, FS_Interval DEF Reply
  <1>1. S \in FiniteSubsetsOf(Reply)
    BY <1>0, FS_Subset DEF FiniteSubsetsOf
  <1>2. SUFFICES HasMin(S)
    BY DEF Min
  <1>3. SUFFICES ASSUME Bad # {} PROVE FALSE
    BY <1>1
  <1>4. PICK A \in Bad : \A B \in Bad : <<B, A>> \notin StrictSubsetOrdering(Reply)
    <2>1. Bad \subseteq FiniteSubsetsOf(Reply)
      OBVIOUS
    <2>2. IsWellFoundedOn(StrictSubsetOrdering(Reply), FiniteSubsetsOf(Reply))
      BY FS_StrictSubsetOrderingWellFounded
    <2> QED BY <1>3, <2>1, <2>2, WFMin
  <1>5. PICK a \in A : TRUE
    BY <1>4
  <1> DEFINE B == A \ {a}
  <1>6. A \subseteq Reply /\ IsFiniteSet(A) /\ A # {} /\ ~HasMin(A)
    BY <1>4 DEF FiniteSubsetsOf
  <1>7. B \in FiniteSubsetsOf(Reply)
    BY <1>6, FS_Subset DEF FiniteSubsetsOf
  <1>8. <<B, A>> \in StrictSubsetOrdering(Reply)
    BY <1>5, <1>6 DEF StrictSubsetOrdering
  <1>9. B = {} \/ HasMin(B)
    BY <1>4, <1>7, <1>8
  <1>10. A \subseteq Nat
    BY <1>0, <1>6
  <1>11. CASE B = {}
    <2>1. \A s \in A : s = a
      BY <1>11
    <2> QED BY <1>5, <1>6, <1>10, <2>1
  <1>12. CASE HasMin(B)
    <2>1. PICK b \in B : \A s \in B : b <= s
      BY <1>12
    <2>2. CASE b <= a
      <3>1. \A s \in A : b <= s
        BY <2>1, <2>2
      <3> QED BY <1>6, <2>1, <3>1
    <2>3. CASE ~(b <= a)
      <3>1. \A s \in A : a <= s
        BY <1>5, <1>10, <2>1, <2>3
      <3> QED BY <1>5, <1>6, <3>1
    <2> QED BY <2>2, <2>3
  <1> QED BY <1>9, <1>11, <1>12

\* The checkpoint a query computes lies before every reply still to be settled.
LEMMA SafeOrderIsHonest ==
    ASSUME NEW table, NEW n \in Nat, {r \in Reply : table[r].st # "none"} = 1..n
    PROVE  /\ SafeOrder(table) \in Int /\ SafeOrder(table) <= n
           /\ \A r \in Reply : table[r].st \in {"pending", "dead_letter"} => SafeOrder(table) < r
  <1> DEFINE blocking == {r \in Reply : table[r].st \in {"pending", "dead_letter"}}
             used == {r \in Reply : table[r].st # "none"}
  <1>1. SafeOrder(table) = IF blocking # {} THEN Min(blocking) - 1 ELSE Cardinality(used)
    BY DEF SafeOrder
  <1>2. Reply \subseteq Nat
    BY DeliveryAssumption DEF Reply
  <1>3. CASE blocking # {}
    <2>1. Min(blocking) \in blocking /\ \A s \in blocking : Min(blocking) <= s
      BY <1>3, OldestReply
    <2>2. Min(blocking) \in 1..n
      BY <2>1
    <2>3. SafeOrder(table) = Min(blocking) - 1
      BY <1>1, <1>3
    <2> HIDE DEF blocking
    <2>4. \A s \in blocking : s \in Nat
      BY <1>2 DEF blocking
    <2>5. \A s \in blocking : SafeOrder(table) < s
      BY <2>1, <2>2, <2>3, <2>4
    <2> QED BY <2>2, <2>3, <2>5 DEF blocking
  <1>4. CASE blocking = {}
    <2>1. 1 \in Int /\ n \in Int
      OBVIOUS
    <2>2. Cardinality(1..n) = IF 1 > n THEN 0 ELSE n - 1 + 1
      BY ONLY <2>1, FS_Interval
    <2>3. Cardinality(1..n) = n
      BY <2>2
    <2>4. SafeOrder(table) = n
      BY <1>1, <1>4, <2>3
    <2> QED BY <1>4, <2>4
  <1> QED BY <1>3, <1>4

\* Counting the rows: reviews are no more than replies of users, so an order is left for the
\* next reply of a user, and for the review of a lane that has none.
LEMMA OrdersSuffice ==
    ASSUME Shape, OrdersAreDense, ReviewsAreLinked
    PROVE  /\ Cardinality(Used) \in Nat /\ Cardinality(Users) \in Nat
           /\ IsFiniteSet(Users)
           /\ Cardinality(Users) < MaxUsers => Cardinality(Used) + 1 \in Reply
           /\ \A u \in Users : q[LaneOf(u)].review = NoReply => Cardinality(Used) + 1 \in Reply
  <1>1. IsFiniteSet(Reply)
    BY DeliveryAssumption, FS_Interval DEF Reply
  <1>2. IsFiniteSet(Used) /\ Cardinality(Used) \in Nat
    BY <1>1, FS_Subset, FS_CardinalityType DEF Used
  <1>3. IsFiniteSet(Users) /\ Cardinality(Users) \in Nat
    BY <1>2, FS_Subset, FS_CardinalityType DEF Users
  <1>4. IsFiniteSet(Reviews) /\ Cardinality(Reviews) \in Nat
    BY <1>2, FS_Subset, FS_CardinalityType DEF Reviews
  <1>5. Cardinality(Used) = Cardinality(Users) + Cardinality(Reviews)
    <2>1. Used = Users \cup Reviews /\ Users \cap Reviews = {}
      BY DEF Users, Reviews
    <2>2. Cardinality(Users \cup Reviews)
            = Cardinality(Users) + Cardinality(Reviews) - Cardinality(Users \cap Reviews)
      BY <1>3, <1>4, FS_Union
    <2>3. Cardinality(Users \cap Reviews) = 0
      BY <2>1, FS_EmptySet
    <2> HIDE DEF Users
    <2> QED BY <1>3, <1>4, <2>1, <2>2, <2>3
  <1>6. ASSUME NEW T \in SUBSET Users,
               \A r \in Reviews : \E u \in T : q[LaneOf(u)].review = r
        PROVE  Cardinality(Reviews) <= Cardinality(T)
    <2> DEFINE f == [r \in Reviews |-> CHOOSE u \in T : q[LaneOf(u)].review = r]
    <2>1. \A r \in Reviews : f[r] \in T /\ q[LaneOf(f[r])].review = r
      BY <1>6
    <2> HIDE DEF f
    <2>2. f \in [Reviews -> T]
      BY <2>1 DEF f
    <2>3. f \in Injection(Reviews, T)
      BY <2>1, <2>2 DEF Injection, IsInjective
    <2>4. IsFiniteSet(T)
      BY <1>3, FS_Subset
    <2> QED BY <2>3, <2>4, FS_Injection
  <1>7. Cardinality(Reviews) <= Cardinality(Users)
    BY <1>6 DEF ReviewsAreLinked
  <1>8. Cardinality(Users) <= MaxUsers
    BY DEF ReviewsAreLinked
  <1>9. Cardinality(Users) < MaxUsers => Cardinality(Used) + 1 \in Reply
    BY <1>3, <1>4, <1>5, <1>7, DeliveryAssumption DEF Reply
  <1>10. ASSUME NEW u \in Users, q[LaneOf(u)].review = NoReply
         PROVE  Cardinality(Used) + 1 \in Reply
    <2> DEFINE T == Users \ {u}
    <2>1. \A r \in Reviews : r # NoReply
      BY DeliveryAssumption DEF Reviews, Used, Reply, NoReply
    <2>2. \A r \in Reviews : \E w \in T : q[LaneOf(w)].review = r
      BY <1>10, <2>1 DEF ReviewsAreLinked
    <2>3. Cardinality(Reviews) <= Cardinality(T)
      BY <1>6, <2>2
    <2>4. Cardinality(T) = Cardinality(Users) - 1
      BY <1>3, FS_RemoveElement
    <2> QED BY <1>3, <1>4, <1>5, <1>8, <2>3, <2>4, DeliveryAssumption DEF Reply
  <1> QED BY <1>2, <1>3, <1>9, <1>10

\* Rows are counted by a natural number.
LEMMA CardinalityOfUsed == Cardinality(Used) \in Nat /\ Cardinality(Used)' \in Nat
  <1>1. IsFiniteSet(Reply)
    BY DeliveryAssumption, FS_Interval DEF Reply
  <1>2. IsFiniteSet(Used) /\ IsFiniteSet(Used')
    BY <1>1, FS_Subset DEF Used
  <1> QED BY <1>2, FS_CardinalityType

\* Rows that are neither created nor lost keep their orders, their lanes and their reviews.
LEMMA LanesAreKept ==
    ASSUME IInv, LanesStand
    PROVE  /\ Used' = Used /\ Users' = Users
           /\ (OrdersAreDense /\ ReviewsAreLinked /\ LanesAreFailed)'
  <1>1. \A s \in Reply : /\ row'[s].kind = row[s].kind
                         /\ row'[s].st = "none" <=> row[s].st = "none"
                         /\ row[s].st = "none" => row'[s] = row[s]
    BY DEF LanesStand, Persists
  <1>2. Used' = Used
    BY <1>1 DEF Used
  <1>3. Users' = Users /\ Reviews' = Reviews
    BY <1>1, <1>2 DEF Users, Reviews, Used
  <1>4. \A s \in Reply : LaneOf(s)' = LaneOf(s) /\ LaneOf(s) \in Lane
    BY <1>1, DeliveryAssumption DEF LaneOf, Lane, Reply
  <1>5. OrdersAreDense'
    BY <1>1, <1>2 DEF IInv, OrdersAreDense
  <1>6. ReviewsAreLinked'
    <2>1. Users \subseteq Reply
      BY DEF Users, Used
    <2>2. \A u \in Users : q'[LaneOf(u)'].review = q[LaneOf(u)].review
      BY <1>4, <2>1 DEF LanesStand
    <2> QED BY <1>3, <2>2 DEF IInv, ReviewsAreLinked
  <1>7. LanesAreFailed'
    <2>1. ASSUME NEW l \in Lane, q'[l].on
          PROVE  q'[l].failed \in Reply /\ row[q'[l].failed].st # "none" /\ LaneOf(q'[l].failed) = l
      BY <2>1 DEF LanesStand, IInv, LanesAreFailed, Used
    <2> QED BY <1>1, <1>4, <2>1 DEF LanesAreFailed
  <1> QED BY <1>2, <1>3, <1>5, <1>6, <1>7

\* A step that sends nothing keeps what matters about rows, requests and effects.
LEMMA NothingIsSent ==
    ASSUME IInv, (Shape /\ OrdersAreDense /\ ReviewsAreLinked /\ LanesAreFailed)', SendsNothing
    PROVE  IInv'
  <1>0. \A s \in Reply : row[s].st = "none" => ~row[s].ckpt /\ ~row[s].claimed
    BY DEF IInv, OrdersAreDense, EmptyRow
  <1>1. ClaimIsOpen'
    BY DEF SendsNothing, RequestsStand, Born, MovesOn, GivenUp, Reopened, Redated, Lost, Waived,
       Refused, Landed,
           ClaimHeld, IInv, ClaimIsOpen
  <1>2. OpenIsQuiet'
    BY DEF SendsNothing, RequestsStand, Born, MovesOn, GivenUp, Reopened, Redated, Lost, Waived,
       Refused, Landed,
           ClaimHeld, Open, Quiet, Denied, IInv, ClaimIsOpen, OpenIsQuiet
  <1>3. OpenHasNoCard'
    <2>1. SUFFICES ASSUME NEW s \in Reply, Open(s)', ~row'[s].ckpt PROVE made'[s] = 0
      BY DEF OpenHasNoCard
    <2>2. CASE Refused(s)
      BY <2>2, <2>1 DEF SendsNothing, RequestsStand, Born, MovesOn, Refused, ClaimHeld
    <2>3. CASE ~Refused(s)
      <3>1. Open(s) /\ ~row[s].ckpt
        BY <1>0, <2>1, <2>3 DEF SendsNothing, RequestsStand, Born, MovesOn, GivenUp, Reopened,
           Redated, Lost, Waived,
           Landed, Open, Denied
      <3> QED BY <2>1, <3>1 DEF SendsNothing, RequestsStand, IInv, OpenHasNoCard
    <2> QED BY <2>2, <2>3
  <1>4. ExecutionIsKnown'
    BY DEF SendsNothing, RequestsStand, Born, MovesOn, GivenUp, Reopened, Redated, Lost, Waived,
       Refused, Landed,
           ClaimHeld, Open, Quiet, Denied, IInv, ClaimIsOpen, ExecutionIsKnown
  <1>5. WireIsFresh'
    BY DEF SendsNothing, RequestsStand, Born, MovesOn, GivenUp, Reopened, Redated, Lost, Waived,
       Refused, Landed,
           ClaimHeld, IInv, WireIsFresh
  <1> DEFINE Sent(s) == row[s].claimed \/ effects[s] > 0 \/ wire[s] # "none"
  <1>6. OlderIsSettled'
    <2>1. SUFFICES ASSUME NEW r \in Reply, NEW s \in Reply, r < s, LaneOf(r)' = LaneOf(s)',
                          Sent(s)'
                   PROVE  r \in waived' \/ row'[r].st \in {"delivered", "dismissed"}
      BY DEF OlderIsSettled
    <2>2. Sent(s)
      <3>1. row'[s].claimed => row[s].claimed
        BY DEF SendsNothing, RequestsStand, Born, MovesOn, GivenUp, Reopened, Redated, Lost,
           Waived, Refused, Landed
      <3> QED BY <2>1, <3>1 DEF SendsNothing, RequestsStand
    <2>3. row[s].st # "none"
      BY <1>0, <2>2 DEF IInv, OpenIsQuiet, Open, Quiet, Shape
    <2>4. row[r].st # "none"
      <3>1. s \in 1..Cardinality(Used)
        BY <2>3 DEF IInv, OrdersAreDense, Used
      <3>2. r \in 1..Cardinality(Used)
        BY <2>1, <3>1, CardinalityOfUsed, DeliveryAssumption DEF Reply
      <3> QED BY <3>2 DEF IInv, OrdersAreDense, Used
    <2>5. LaneOf(r) = LaneOf(s)
      BY <2>1, <2>3, <2>4 DEF SendsNothing, RequestsStand, Born, MovesOn, LaneOf
    <2>6. r \in waived \/ row[r].st \in {"delivered", "dismissed"}
      BY <2>1, <2>2, <2>5 DEF IInv, OlderIsSettled
    <2> QED BY <2>4, <2>6 DEF SendsNothing, RequestsStand, Born, MovesOn, GivenUp, Reopened,
               Redated, Lost, Waived,
           Refused, Landed, ClaimHeld, Open, Nonterminal, IInv, ClaimIsOpen
  <1>7. CheckpointIsGiven' /\ HonestCheckpoint'
    <2>1. Cardinality(Used) \in Nat /\ Cardinality(Used)' \in Nat
      BY CardinalityOfUsed
    <2>2. /\ SafeOrder(row) \in Int /\ SafeOrder(row) <= Cardinality(Used)
          /\ \A r \in Reply : row[r].st \in {"pending", "dead_letter"} => SafeOrder(row) < r
      <3>1. {r \in Reply : row[r].st # "none"} = 1..Cardinality(Used)
        BY DEF IInv, OrdersAreDense, Used
      <3> QED BY <2>1, <3>1, SafeOrderIsHonest
    <2>3. /\ SafeOrder(row') \in Int /\ SafeOrder(row') <= Cardinality(Used)'
          /\ \A r \in Reply : row'[r].st \in {"pending", "dead_letter"} => SafeOrder(row') < r
      <3>1. {r \in Reply : row'[r].st # "none"} = 1..Cardinality(Used)'
        BY DEF OrdersAreDense, Used
      <3> QED BY <2>1, <3>1, SafeOrderIsHonest
    <2>4. ASSUME NEW r \in Blockers', r \notin waived'
          PROVE  r \in Reply /\ (r \in Blockers \ waived \/ r = Cardinality(Used) + 1)
      BY <2>4 DEF Blockers, Nonterminal, SendsNothing, RequestsStand, Born, MovesOn, GivenUp,
           Reopened, Redated, Lost, Waived, Refused, Landed, ClaimHeld, Open, IInv, ClaimIsOpen
    <2>5. \A r \in Blockers : row[r].st \in {"pending", "dead_letter"}
      BY DEF Blockers, Nonterminal
    <2>6. \A r \in Blockers' : row'[r].st \in {"pending", "dead_letter"}
      BY DEF Blockers, Nonterminal
    <2>7. ckp' \in Int /\ ckp' <= Cardinality(Used)'
      BY <2>1, <2>2, <2>3 DEF SendsNothing, RequestsStand, IInv, CheckpointIsGiven
    <2>8. \A r \in Blockers' \ waived' : ckp' < r
      <3>1. SUFFICES ASSUME NEW r \in Blockers', r \notin waived' PROVE ckp' < r
        OBVIOUS
      <3>2. r \in Nat /\ ckp \in Int /\ ckp <= Cardinality(Used)
        BY <2>4, <3>1, DeliveryAssumption DEF Reply, IInv, CheckpointIsGiven
      <3>3. ckp < r /\ SafeOrder(row) < r
        <4>1. CASE r = Cardinality(Used) + 1
          BY <2>1, <2>2, <3>2, <4>1
        <4>2. CASE r \in Blockers \ waived
          BY <2>2, <2>4, <2>5, <3>1, <4>2 DEF IInv, HonestCheckpoint
        <4> QED BY <2>4, <3>1, <4>1, <4>2
      <3>4. SafeOrder(row') < r
        BY <2>3, <2>4, <2>6, <3>1
      <3> QED BY <3>3, <3>4 DEF SendsNothing, RequestsStand
    <2> QED BY <2>7, <2>8 DEF CheckpointIsGiven, HonestCheckpoint
  <1>9. (NoReplay /\ OneCard /\ ConflictOrder)'
    BY DEF SendsNothing, RequestsStand, IInv, NoReplay, OneCard, ConflictOrder, Shape
  <1> QED BY <1>1, <1>2, <1>3, <1>4, <1>5, <1>6, <1>7, <1>9 DEF IInv

-----------------------------------------------------------------------------
\* A bound of the scenario that is spent leaves the others as they are.
LEMMA SpendingKeepsScenario ==
    ASSUME left \in Scenario,
           Spend("renew") \/ Spend("lapse") \/ Spend("clear") \/ Spend("operate")
             \/ Spend("cutover") \/ Spend("crash")
    PROVE  left' \in Scenario
  BY DEF Scenario, Spend

\* Updates of the records a row and a quarantine are.
LEMMA RowRestated ==
    ASSUME NEW x \in RowType, NEW s \in States
    PROVE  /\ [x EXCEPT !.st = s] \in RowType
           /\ [x EXCEPT !.st = s].st = s /\ [x EXCEPT !.st = s].kind = x.kind
           /\ [x EXCEPT !.st = s].claimed = x.claimed /\ [x EXCEPT !.st = s].ckpt = x.ckpt
  BY DEF RowType

LEMMA LaneReleased ==
    ASSUME NEW x \in LaneType
    PROVE  /\ [x EXCEPT !.on = FALSE] \in LaneType
           /\ ~[x EXCEPT !.on = FALSE].on
           /\ [x EXCEPT !.on = FALSE].failed = x.failed
           /\ [x EXCEPT !.on = FALSE].review = x.review
  BY DEF LaneType

LEMMA LaneFailed ==
    ASSUME NEW x \in LaneType, NEW r \in Reply, NEW b \in {TRUE, FALSE}
    PROVE  /\ [x EXCEPT !.on = b, !.isolated = FALSE, !.failed = r] \in LaneType
           /\ [x EXCEPT !.on = b, !.isolated = FALSE, !.failed = r].failed = r
           /\ [x EXCEPT !.on = b, !.isolated = FALSE, !.failed = r].review = x.review
  BY DEF LaneType

\* Every reply has a lane.
LEMMA LaneOfReply == \A r \in Reply : LaneOf(r) \in Lane
  BY DeliveryAssumption DEF LaneOf, Lane, Reply

\* What releasing or failing a lane does to the quarantines.
LEMMA ReleasedLanes ==
    ASSUME Shape, NEW S, q' = Released(S)
    PROVE  /\ q' \in [Lane -> LaneType]
           /\ \A l \in Lane : /\ q'[l].review = q[l].review /\ q'[l].failed = q[l].failed
                              /\ q'[l].on => q[l].on
  <1>1. /\ DOMAIN q' = Lane
        /\ \A l \in Lane : q'[l] = q[l] \/ q'[l] = [q[l] EXCEPT !.on = FALSE]
    BY DEF Released
  <1>2. \A l \in Lane : q[l] \in LaneType
    BY DEF Shape
  <1>4. ASSUME NEW l \in Lane
        PROVE  /\ q'[l] \in LaneType
               /\ q'[l].review = q[l].review /\ q'[l].failed = q[l].failed
               /\ q'[l].on => q[l].on
    <2>1. CASE q'[l] = q[l]
      BY <1>2, <2>1
    <2>2. CASE q'[l] = [q[l] EXCEPT !.on = FALSE]
      BY <1>2, <2>2, LaneReleased
    <2> QED BY <1>1, <2>1, <2>2
  <1>5. q' = [l \in Lane |-> q'[l]]
    BY DEF Released
  <1> QED BY <1>4, <1>5

LEMMA QuarantinedLane ==
    ASSUME Shape, NEW r \in Reply, NEW active \in {TRUE, FALSE}, q' = Quarantine(r, active)
    PROVE  /\ q' \in [Lane -> LaneType]
           /\ \A l \in Lane : /\ q'[l].review = q[l].review
                              /\ l # LaneOf(r) => q'[l] = q[l]
                              /\ l = LaneOf(r) => q'[l].failed = r
  <1> DEFINE lane == LaneOf(r)
             new == [q[lane] EXCEPT !.on = active, !.isolated = FALSE, !.failed = r]
  <1>1. lane \in Lane
    BY LaneOfReply
  <1>2. q[lane] \in LaneType
    BY <1>1 DEF Shape
  <1>3. new \in LaneType /\ new.failed = r /\ new.review = q[lane].review
    BY ZenonT(40), <1>2, LaneFailed
  <1>4. q' = [q EXCEPT ![lane] = new]
    BY DEF Quarantine
  <1> HIDE DEF lane, new
  <1>5. q \in [Lane -> LaneType]
    BY DEF Shape
  <1>6. /\ q' \in [Lane -> LaneType]
        /\ \A l \in Lane : q'[l] = IF l = lane THEN new ELSE q[l]
    BY <1>1, <1>3, <1>4, <1>5
  <1> QED BY <1>1, <1>3, <1>6 DEF lane

\* The row of a reply the bridge dismisses.
LEMMA DismissedRow ==
    ASSUME Shape, NEW r \in Reply, row' = Dismissed(r)
    PROVE  /\ row' \in [Reply -> RowType]
           /\ \A s \in Reply \ {r} : row'[s] = row[s]
           /\ row'[r].st = "dismissed" /\ row'[r].kind = row[r].kind /\ row'[r].ckpt = row[r].ckpt
           /\ row'[r].claimed = row[r].claimed
  <1>1. row[r] \in RowType /\ row \in [Reply -> RowType]
    BY DEF Shape
  <1>2. /\ [row[r] EXCEPT !.st = "dismissed"] \in RowType
        /\ row' = [row EXCEPT ![r] = [row[r] EXCEPT !.st = "dismissed"]]
    BY <1>1, RowRestated DEF Dismissed, States
  <1>3. row' \in [Reply -> RowType] /\ \A s \in Reply \ {r} : row'[s] = row[s]
    BY <1>1, <1>2
  <1>4. row'[r] = [row[r] EXCEPT !.st = "dismissed"]
    BY <1>1, <1>2
  <1>5. /\ row'[r].st = "dismissed" /\ row'[r].kind = row[r].kind
        /\ row'[r].ckpt = row[r].ckpt /\ row'[r].claimed = row[r].claimed
    BY <1>1, <1>4, RowRestated DEF States
  <1> QED BY <1>3, <1>5

\* What the transition of a failed attempt does to the row and to its lane.
LEMMA FailedAttempt ==
    ASSUME Shape, NEW r \in Reply, NEW f \in AllFailures, ClaimHeld(r), FailClaimed(r, f)
    PROVE  /\ row' \in [Reply -> RowType] /\ q' \in [Lane -> LaneType] /\ cooldown' \in BOOLEAN
           /\ \A s \in Reply \ {r} : row'[s] = row[s]
           /\ row'[r].kind = row[r].kind /\ row'[r].ckpt = row[r].ckpt /\ ~row'[r].claimed
           /\ row'[r].st \in {"pending", "dead_letter", "dismissed"}
           /\ IF f = "uncertain" THEN row'[r].st = "dead_letter" /\ row'[r].why = "uncertain"
                                 ELSE row'[r].why \in {"permanent", "transient", "rejected"}
           /\ \A l \in Lane :
                /\ q'[l].review = q[l].review
                /\ q'[l].on => \/ q[l].on /\ q'[l].failed = q[l].failed
                               \/ l = LaneOf(r) /\ q'[l].failed = r
  <1> DEFINE after == AfterAttempt(r, f)
  <1>1. row[r] \in RowType
    BY DEF Shape
  <1>2. /\ after \in RowType /\ after.kind = row[r].kind /\ after.ckpt = row[r].ckpt
        /\ ~after.claimed /\ after.st \in {"pending", "dead_letter"}
        /\ f = "uncertain" => after.st = "dead_letter" /\ after.why = "uncertain"
        /\ f # "uncertain" => after.why \in {"permanent", "transient", "rejected"}
    <2> DEFINE tries == row[r].tries + 1
               final == f \in {"uncertain", "permanent", "defunct"} \/ tries >= Attempts
               st == IF final THEN "dead_letter" ELSE "pending"
               class == CASE f = "defunct" -> "permanent" [] f = "throttled" -> "transient"
                          [] OTHER -> f
    <2>1. tries \in Nat /\ final \in BOOLEAN
      BY <1>1 DEF RowType
    <2>2. class \in Reasons /\ (f = "uncertain" => class = f)
          /\ (f # "uncertain" => class \in {"permanent", "transient", "rejected"})
      BY DEF Reasons, AllFailures
    <2>3. st \in {"pending", "dead_letter"} /\ (f = "uncertain" => st = "dead_letter")
      OBVIOUS
    <2>4. after = [row[r] EXCEPT !.st = st, !.claimed = FALSE, !.tries = tries, !.why = class,
                                 !.due = final]
      BY DEF AfterAttempt
    <2> HIDE DEF tries, final, st, class, after
    <2>5. /\ after \in RowType /\ after.kind = row[r].kind /\ after.ckpt = row[r].ckpt
          /\ after.claimed = FALSE /\ after.st = st /\ after.why = class
      BY <1>1, <2>1, <2>2, <2>3, <2>4 DEF RowType, States
    <2> QED BY <2>2, <2>3, <2>5
  <1> HIDE DEF after
  <1>3. row' = [row EXCEPT ![r] = after] \/ row' = [row EXCEPT ![r] = [after EXCEPT !.st = "dismissed"]]
    BY DEF FailClaimed, after
  <1>4. f = "uncertain" => row' = [row EXCEPT ![r] = after]
    BY <1>2 DEF FailClaimed, after
  <1>5. [after EXCEPT !.st = "dismissed"] \in RowType
    BY <1>2 DEF RowType, States
  <1>6. \E active \in {TRUE, FALSE} : q' = q \/ q' = Released({r}) \/ q' = Quarantine(r, active)
    BY DEF FailClaimed
  <1>7. /\ q' \in [Lane -> LaneType]
        /\ \A l \in Lane :
                /\ q'[l].review = q[l].review
                /\ q'[l].on => \/ q[l].on /\ q'[l].failed = q[l].failed
                               \/ l = LaneOf(r) /\ q'[l].failed = r
    <2>1. CASE q' = q
      BY <2>1 DEF Shape
    <2>2. CASE q' = Released({r})
      BY <2>2, ReleasedLanes
    <2>3. CASE \E active \in {TRUE, FALSE} : q' = Quarantine(r, active)
      BY <2>3, QuarantinedLane
    <2> QED BY <1>6, <2>1, <2>2, <2>3
  <1>8. cooldown' \in BOOLEAN
    BY DEF FailClaimed, Shape
  <1>9. row' \in [Reply -> RowType] /\ \A s \in Reply \ {r} : row'[s] = row[s]
    BY ZenonT(40), <1>2, <1>3, <1>5 DEF Shape
  <1>10. row'[r] = after \/ row'[r] = [after EXCEPT !.st = "dismissed"]
    BY <1>3 DEF Shape
  <1>11. f = "uncertain" => row'[r] = after
    BY <1>4 DEF Shape
  <1>12. /\ row'[r].kind = row[r].kind /\ row'[r].ckpt = row[r].ckpt /\ ~row'[r].claimed
         /\ row'[r].st \in {"pending", "dead_letter", "dismissed"}
         /\ row'[r].why = after.why
    BY <1>2, <1>10 DEF RowType
  <1>13. IF f = "uncertain" THEN row'[r].st = "dead_letter" /\ row'[r].why = "uncertain"
                            ELSE row'[r].why \in {"permanent", "transient", "rejected"}
    BY <1>2, <1>11, <1>12
  <1> QED BY <1>7, <1>8, <1>9, <1>12, <1>13

\* A step that creates no row and sends nothing keeps the invariant.
LEMMA QuietStep ==
    ASSUME IInv, Shape', KeepsLanes, RequestsStand
    PROVE  IInv'
  <1>1. Used' = Used /\ (OrdersAreDense /\ ReviewsAreLinked /\ LanesAreFailed)'
    BY LanesAreKept DEF KeepsLanes
  <1>2. Cardinality(Used)' >= Cardinality(Used)
    BY <1>1, CardinalityOfUsed
  <1>3. SendsNothing
    BY <1>2 DEF SendsNothing, KeepsLanes
  <1> QED BY <1>1, <1>3, NothingIsSent

\* The replies that drain grants and that a page offers are replies.
LEMMA GrantedIsReply == ASSUME Shape, CanGrant PROVE Granted \in Reply
  BY DEF Shape, CanGrant, Granted, DirectType, NoReply

LEMMA HeadIsReply == HeadReply \in Reply \cup {NoReply}
  <1> DEFINE claimed == {r \in Blockers : row[r].claimed}
             bypass == {r \in Reply : BypassEligible(r)}
  <1>1. HeadReply = IF claimed # {} THEN Min(claimed)
                    ELSE IF bypass # {} THEN Min(bypass)
                    ELSE IF Blockers # {} THEN Min(Blockers) ELSE NoReply
    BY DEF HeadReply
  <1>2. claimed \in SUBSET Reply /\ bypass \in SUBSET Reply /\ Blockers \in SUBSET Reply
    BY DEF Blockers
  <1>3. claimed # {} => Min(claimed) \in Reply
    BY <1>2, OldestReply
  <1>4. bypass # {} => Min(bypass) \in Reply
    BY <1>2, OldestReply
  <1>5. Blockers # {} => Min(Blockers) \in Reply
    BY <1>2, OldestReply
  <1> QED BY <1>1, <1>3, <1>4, <1>5

\* The cache after the head was discarded, or a cold head was offered.
LEMMA CacheIsTyped ==
    ASSUME Shape
    PROVE  /\ Discarded \in Seq(Reply)
           /\ \A r \in Reply : Append(ring, r) \in Seq(Reply)
           /\ [direct EXCEPT !.token = FALSE] \in DirectType
           /\ [r |-> NoReply, token |-> FALSE] \in DirectType
           /\ Idle \in ExecType
  <1>1. ring \in Seq(Reply)
    BY DEF Shape
  <1>2. Discarded \in Seq(Reply)
    BY <1>1 DEF Discarded
  <1>3. \A r \in Reply : Append(ring, r) \in Seq(Reply)
    BY <1>1
  <1>4. /\ [direct EXCEPT !.token = FALSE] \in DirectType
        /\ [r |-> NoReply, token |-> FALSE] \in DirectType
    BY DEF Shape, DirectType
  <1>5. Idle \in ExecType
    BY DEF Idle, ExecType
  <1> QED BY <1>2, <1>3, <1>4, <1>5

\* The bridge dismisses a reply that may be sent again: nothing was sent.
LEMMA DismissingKeepsLanes ==
    ASSUME IInv, NEW r \in Reply, Open(r), row[r].st # "none", row' = Dismissed(r),
           q' = q \/ q' = Released({r})
    PROVE  row' \in [Reply -> RowType] /\ q' \in [Lane -> LaneType] /\ KeepsLanes
  <1>1. Shape /\ ClaimIsOpen
    BY DEF IInv
  <1>2. MovesOn(r) /\ \A s \in Reply \ {r} : row'[s] = row[s]
    BY <1>1, DismissedRow DEF MovesOn, GivenUp, Open, ClaimIsOpen
  <1>3. row' \in [Reply -> RowType]
    BY <1>1, DismissedRow
  <1>4. /\ q' \in [Lane -> LaneType]
        /\ \A l \in Lane : q'[l].review = q[l].review /\ q'[l].failed = q[l].failed
                           /\ (q'[l].on => q[l].on)
    <2>1. CASE q' = q
      BY <1>1, <2>1 DEF Shape
    <2>2. CASE q' = Released({r})
      BY <1>1, <2>2, ReleasedLanes
    <2> QED BY <2>1, <2>2
  <1>5. KeepsLanes
    BY <1>2, <1>4 DEF KeepsLanes, MovesOn, Persists, LanesStand
  <1> QED BY <1>3, <1>4, <1>5

\* The end of a failed execution.
LEMMA FailedExecution ==
    ASSUME IInv, NEW f \in AllFailures, NEW r \in Reply, exec.at # "idle", exec.r = r, Fail(r, f),
           effects' = effects,
           wire' \in [Reply -> {"none", "flying", "applied"}], made' \in [Reply -> Nat],
           \A s \in Reply : wire'[s] = wire[s] \/ wire'[s] = "none",
           \A s \in Reply \ {r} : made'[s] = made[s],
           IF f = "uncertain" THEN made'[r] <= 1
           ELSE made' = made /\ wire'[r] = "none" /\ effects[r] = 0
    PROVE  IInv'
  <1>1. Shape /\ ExecutionIsKnown /\ exec.r = r
    BY DEF IInv, ExecutionIsKnown
  <1>2. exec' = Idle /\ ring' \in Seq(Reply) /\ exec' \in ExecType
    BY <1>1, CacheIsTyped DEF Fail
  <1>3. exec'.at = "idle"
    BY <1>2 DEF Idle
  <1>4. /\ row' \in [Reply -> RowType] /\ q' \in [Lane -> LaneType] /\ cooldown' \in BOOLEAN
        /\ KeepsLanes
        /\ f = "uncertain" => ~Open(r)'
    <2>1. CASE ClaimHeld(r)
      <3>1. FailClaimed(r, f)
        BY <2>1 DEF Fail
      <3>2. /\ row' \in [Reply -> RowType] /\ q' \in [Lane -> LaneType] /\ cooldown' \in BOOLEAN
            /\ \A s \in Reply \ {r} : row'[s] = row[s]
            /\ row'[r].kind = row[r].kind /\ row'[r].ckpt = row[r].ckpt /\ ~row'[r].claimed
            /\ row'[r].st \in {"pending", "dead_letter", "dismissed"}
            /\ IF f = "uncertain" THEN row'[r].st = "dead_letter" /\ row'[r].why = "uncertain"
                                  ELSE row'[r].why \in {"permanent", "transient", "rejected"}
            /\ \A l \in Lane :
                /\ q'[l].review = q[l].review
                /\ q'[l].on => \/ q[l].on /\ q'[l].failed = q[l].failed
                               \/ l = LaneOf(r) /\ q'[l].failed = r
        BY <1>1, <2>1, <3>1, FailedAttempt
      <3>3. ~row[r].ckpt => made[r] = 0
        BY <1>1, <2>1 DEF ExecutionIsKnown, Shape, ExecType
      <3>4. MovesOn(r)
        <4>1. CASE f = "uncertain"
          BY <2>1, <3>2, <4>1 DEF MovesOn, Lost, ClaimHeld
        <4>2. CASE f # "uncertain"
          BY <1>3, <2>1, <3>2, <3>3, <4>2 DEF MovesOn, Refused, ClaimHeld
        <4> QED BY <4>1, <4>2
      <3>5. r \in Used
        BY <1>1, <2>1 DEF Used, ClaimHeld
      <3>6. KeepsLanes
        BY <3>2, <3>4, <3>5 DEF KeepsLanes, MovesOn, Persists, LanesStand
      <3>7. f = "uncertain" => ~Open(r)'
        BY <3>2 DEF Open, Denied
      <3> QED BY <3>2, <3>6, <3>7
    <2>2. CASE ~ClaimHeld(r)
      <3>1. row' = row /\ q' = q /\ cooldown' = cooldown
        BY <2>2 DEF Fail
      <3>2. ~Open(r)'
        BY <1>1, <2>2, <3>1 DEF Open, Denied, ExecutionIsKnown
      <3> QED BY <1>1, <3>1, <3>2 DEF Shape, KeepsLanes, MovesOn, Persists, LanesStand
    <2> QED BY <2>1, <2>2
  <1>5. Shape'
    BY <1>1, <1>2, <1>4 DEF Fail, Shape
  <1>6. RequestsStand
    <2>1. \A s \in Reply : \/ made'[s] = made[s]
                           \/ made'[s] <= 1 /\ ~Open(s)' /\ exec'.at = "idle"
      BY <1>3, <1>4
    <2>2. UNCHANGED <<effects, late, waived, ckp>>
      BY DEF Fail
    <2> QED BY <1>3, <2>1, <2>2 DEF RequestsStand
  <1> QED BY <1>4, <1>5, <1>6, QuietStep

-----------------------------------------------------------------------------
(* The steps that send nothing.                                                                *)

\* drain supersedes the granted reply, or refuses it.
LEMMA GrantIsRefused == ASSUME IInv, SupersedeGranted \/ RefuseGranted PROVE IInv'
  <1> DEFINE r == Granted
  <1>1. Shape /\ r \in Reply
    BY GrantedIsReply DEF IInv, SupersedeGranted, RefuseGranted
  <1> HIDE DEF r
  <1>2. ring' \in Seq(Reply) /\ direct' \in DirectType
    <2>1. ring' \in {<<>>, Discarded} /\ direct' = [direct EXCEPT !.token = FALSE]
      BY DEF SupersedeGranted, RefuseGranted
    <2>2. <<>> \in Seq(Reply)
      OBVIOUS
    <2>3. Discarded \in Seq(Reply) /\ [direct EXCEPT !.token = FALSE] \in DirectType
      BY <1>1, CacheIsTyped
    <2> QED BY <2>1, <2>2, <2>3
  <1>3. \/ Open(r) /\ row[r].st # "none" /\ row' = Dismissed(r) /\ (q' = q \/ q' = Released({r}))
        \/ row' = row /\ q' = q
    BY <1>1 DEF SupersedeGranted, RefuseGranted, Superseded, StaleDismissable, Nonterminal, Open, r
  <1>4. row' \in [Reply -> RowType] /\ q' \in [Lane -> LaneType] /\ KeepsLanes
    <2>1. CASE row' = row /\ q' = q
      BY <1>1, <2>1 DEF Shape, KeepsLanes, MovesOn, Persists, LanesStand
    <2> QED BY <1>1, <1>3, <2>1, DismissingKeepsLanes
  <1>5. Shape'
    BY <1>1, <1>2, <1>4 DEF SupersedeGranted, RefuseGranted, Shape, world
  <1>6. RequestsStand
    BY DEF SupersedeGranted, RefuseGranted, RequestsStand, world
  <1> QED BY <1>4, <1>5, <1>6, QuietStep

\* A page is loaded, by a refill or by the first one.
LEMMA PageIsLoaded == ASSUME IInv, Refill \/ StartupRecovered PROVE IInv'
  <1>1. Shape
    BY DEF IInv
  <1>2. ring' \in Seq(Reply) /\ direct' \in DirectType
    <2>1. CASE UNCHANGED <<ring, direct>>
      BY <1>1, <2>1 DEF Shape
    <2>2. CASE HeadReply # NoReply /\ OfferCold(HeadReply)
      <3>1. HeadReply \in Reply
        BY <2>2, HeadIsReply
      <3>2. ring' \in {ring, Append(ring, HeadReply)}
            /\ direct' \in {direct, [r |-> HeadReply, token |-> TRUE]}
        BY <2>2 DEF OfferCold
      <3>3. [r |-> HeadReply, token |-> TRUE] \in DirectType
        BY <3>1 DEF DirectType
      <3> QED BY <1>1, <3>1, <3>2, <3>3, CacheIsTyped DEF Shape
    <2> QED BY <2>1, <2>2 DEF Refill, StartupRecovered, LoadPage
  <1>3. row' = row /\ q' = q /\ KeepsLanes
    BY DEF Refill, StartupRecovered, KeepsLanes, MovesOn, Persists, LanesStand
  <1>4. Shape'
    BY <1>1, <1>2, <1>3 DEF Refill, StartupRecovered, Shape, world
  <1>5. RequestsStand
    BY DEF Refill, StartupRecovered, LoadPage, RequestsStand, world
  <1> QED BY <1>3, <1>4, <1>5, QuietStep

\* The maintenance dismisses a head, or a review that was rejected.
LEMMA HeadIsRecovered ==
    ASSUME IInv, RecoverHead \/ \E r \in Reply : DismissRejectedReview(r) PROVE IInv'
  <1>1. Shape
    BY DEF IInv
  <1>2. PICK r \in Reply : /\ row' = Dismissed(r) /\ q' = Released({r})
                           /\ Superseded(r) \/ Retirable(r) \/ DismissRejectedReview(r)
    BY HeadIsReply DEF RecoverHead, DismissRejectedReview
  <1>3. Open(r) /\ row[r].st # "none"
    BY <1>2 DEF Superseded, Retirable, DismissRejectedReview, Nonterminal, Open, Denied
  <1>4. row' \in [Reply -> RowType] /\ q' \in [Lane -> LaneType] /\ KeepsLanes
    BY <1>2, <1>3, DismissingKeepsLanes
  <1>5. Shape'
    BY <1>1, <1>4 DEF RecoverHead, DismissRejectedReview, Shape, process, world
  <1>6. RequestsStand
    BY DEF RecoverHead, DismissRejectedReview, RequestsStand, process, world
  <1> QED BY <1>4, <1>5, <1>6, QuietStep

\* Timers, a rotation of the session and a renewal that is lost leave rows and lanes alone but
\* for the time a reply is due at.
LEMMA TimePasses ==
    ASSUME IInv, CooldownEnds \/ SessionCleared \/ RenewalLost \/ \E r \in Reply : BecomeDue(r)
    PROVE  IInv'
  <1>1. Shape
    BY DEF IInv
  <1>2. CASE \E r \in Reply : BecomeDue(r)
    <2>1. PICK r \in Reply : BecomeDue(r)
      BY <1>2
    <2>2. row[r] \in RowType /\ row \in [Reply -> RowType]
      BY <1>1 DEF Shape
    <2> DEFINE new == [row[r] EXCEPT !.due = TRUE]
    <2>3. /\ new \in RowType /\ new.st = row[r].st /\ new.kind = row[r].kind
          /\ new.claimed = row[r].claimed /\ new.ckpt = row[r].ckpt /\ new.why = row[r].why
      BY <2>2 DEF RowType
    <2>4. row' = [row EXCEPT ![r] = new]
      BY <2>1 DEF BecomeDue
    <2> HIDE DEF new
    <2>5. row' \in [Reply -> RowType] /\ row'[r] = new /\ \A s \in Reply \ {r} : row'[s] = row[s]
      BY <2>2, <2>3, <2>4
    <2>6. row[r].st = "pending"
      BY <2>1 DEF BecomeDue
    <2>7. Shape'
      BY <1>1, <2>1, <2>5 DEF BecomeDue, Shape, process, world
    <2>8. MovesOn(r)
      BY <2>3, <2>5, <2>6 DEF MovesOn, Redated
    <2>9. KeepsLanes
      BY <2>1, <2>5, <2>8 DEF KeepsLanes, MovesOn, Persists, LanesStand, BecomeDue
    <2>10. RequestsStand
      BY <2>1 DEF BecomeDue, RequestsStand, process, world
    <2> QED BY <2>7, <2>9, <2>10, QuietStep
  <1>3. CASE CooldownEnds \/ SessionCleared \/ RenewalLost
    <2>1. exec' \in ExecType /\ exec'.at = exec.at /\ exec'.r = exec.r
      BY <1>1, <1>3 DEF CooldownEnds, SessionCleared, RenewalLost, Shape, ExecType, process
    <2>2. owner' \in [epoch : Nat, archived : BOOLEAN] /\ cooldown' \in BOOLEAN
      <3>1. owner \in [epoch : Nat, archived : BOOLEAN] /\ cooldown \in BOOLEAN
        BY <1>1 DEF Shape
      <3>2. [owner EXCEPT !.epoch = @ + 1] \in [epoch : Nat, archived : BOOLEAN]
        BY <3>1
      <3> QED BY <1>3, <3>1, <3>2 DEF CooldownEnds, SessionCleared, RenewalLost, durable
    <2>3. left' \in Scenario
      BY <1>1, <1>3, SpendingKeepsScenario DEF CooldownEnds, SessionCleared, RenewalLost, Shape
    <2>4. UNCHANGED <<row, q, ckp, ring, direct, world>>
      BY <1>3 DEF CooldownEnds, SessionCleared, RenewalLost, process, durable
    <2>5. Shape'
      BY <1>1, <2>1, <2>2, <2>3, <2>4 DEF Shape, world
    <2>6. KeepsLanes /\ RequestsStand
      BY <2>1, <2>4 DEF KeepsLanes, MovesOn, Persists, LanesStand, RequestsStand, world
    <2> QED BY <2>5, <2>6, QuietStep
  <1> QED BY <1>2, <1>3

\* A claim ran out: the outcome of its request is unknown.
LEMMA ClaimExpires == ASSUME IInv, NEW r \in Reply, RecoverExpiredClaim(r) PROVE IInv'
  <1>1. Shape /\ row[r] \in RowType /\ row \in [Reply -> RowType]
    BY DEF IInv, Shape
  <1> DEFINE new == [row[r] EXCEPT !.st = "dead_letter", !.claimed = FALSE, !.why = "uncertain"]
  <1>2. /\ new \in RowType /\ new.st = "dead_letter" /\ new.kind = row[r].kind
        /\ ~new.claimed /\ new.ckpt = row[r].ckpt /\ new.why = "uncertain"
    BY <1>1 DEF RowType, States, Reasons
  <1>3. row' = [row EXCEPT ![r] = new]
    BY <1>1 DEF RecoverExpiredClaim, RowType
  <1> HIDE DEF new
  <1>4. row' \in [Reply -> RowType] /\ row'[r] = new /\ \A s \in Reply \ {r} : row'[s] = row[s]
    BY <1>1, <1>2, <1>3
  <1>5. row[r].st = "pending" /\ row[r].claimed /\ r \in Used
    BY DEF RecoverExpiredClaim, ClaimHeld, Used
  <1>6. MovesOn(r)
    BY <1>2, <1>4, <1>5 DEF MovesOn, Lost
  <1>7. /\ q' \in [Lane -> LaneType]
        /\ \A l \in Lane : /\ q'[l].review = q[l].review
                           /\ l # LaneOf(r) => q'[l] = q[l]
                           /\ l = LaneOf(r) => q'[l].failed = r
    BY <1>1, QuarantinedLane DEF RecoverExpiredClaim
  <1>8. KeepsLanes
    BY <1>4, <1>5, <1>6, <1>7 DEF KeepsLanes, MovesOn, Persists, LanesStand
  <1>9. left' \in Scenario
    BY <1>1, SpendingKeepsScenario DEF RecoverExpiredClaim, Shape
  <1>10. Shape'
    BY <1>1, <1>4, <1>7, <1>9 DEF RecoverExpiredClaim, Shape, process, world
  <1>11. RequestsStand
    BY DEF RecoverExpiredClaim, RequestsStand, process, world
  <1> QED BY <1>8, <1>10, <1>11, QuietStep

\* The operator retries a reply that was denied.
LEMMA OperatorRetries == ASSUME IInv, NEW r \in Reply, ManualRetry(r) PROVE IInv'
  <1>1. Shape /\ row[r] \in RowType /\ row \in [Reply -> RowType]
    BY DEF IInv, Shape
  <1> DEFINE new == [row[r] EXCEPT !.st = "pending", !.tries = 0, !.due = TRUE]
  <1>2. /\ new \in RowType /\ new.st = "pending" /\ new.kind = row[r].kind
        /\ new.claimed = row[r].claimed /\ new.ckpt = row[r].ckpt
    BY <1>1 DEF RowType, States
  <1>3. row' = [row EXCEPT ![r] = new]
    BY <1>1 DEF ManualRetry, RowType
  <1> HIDE DEF new
  <1>4. row' \in [Reply -> RowType] /\ row'[r] = new /\ \A s \in Reply \ {r} : row'[s] = row[s]
    BY <1>1, <1>2, <1>3
  <1>5. Open(r) /\ row[r].st = "dead_letter" /\ ~row[r].claimed
    BY DEF ManualRetry, Open, IInv, ClaimIsOpen
  <1>6. MovesOn(r)
    BY <1>2, <1>4, <1>5 DEF MovesOn, Reopened
  <1>7. /\ q' \in [Lane -> LaneType]
        /\ \A l \in Lane : /\ q'[l].review = q[l].review /\ q'[l].failed = q[l].failed
                           /\ q'[l].on => q[l].on
    BY <1>1, ReleasedLanes DEF ManualRetry
  <1>8. KeepsLanes
    BY <1>4, <1>6, <1>7 DEF KeepsLanes, MovesOn, Persists, LanesStand
  <1>9. left' \in Scenario
    BY <1>1, SpendingKeepsScenario DEF ManualRetry, Shape
  <1>10. Shape'
    BY <1>1, <1>4, <1>7, <1>9 DEF ManualRetry, Shape, process, world
  <1>11. RequestsStand
    BY DEF ManualRetry, RequestsStand, process, world
  <1> QED BY <1>8, <1>10, <1>11, QuietStep

\* The operator gives up a dead letter, whatever became of it.
LEMMA OperatorDismisses == ASSUME IInv, NEW r \in Reply, ManualDismiss(r) PROVE IInv'
  <1>1. Shape
    BY DEF IInv
  <1>2. /\ row' \in [Reply -> RowType]
        /\ \A s \in Reply \ {r} : row'[s] = row[s]
        /\ row'[r].st = "dismissed" /\ row'[r].kind = row[r].kind /\ row'[r].ckpt = row[r].ckpt
        /\ row'[r].claimed = row[r].claimed
    BY <1>1, DismissedRow DEF ManualDismiss
  <1>3. waived' \subseteq Reply /\ waived \subseteq waived' /\ r \in waived'
    BY <1>1 DEF ManualDismiss, Shape
  <1>4. MovesOn(r)
    BY <1>2, <1>3 DEF MovesOn, Waived, Nonterminal, ManualDismiss
  <1>5. /\ q' \in [Lane -> LaneType]
        /\ \A l \in Lane : /\ q'[l].review = q[l].review /\ q'[l].failed = q[l].failed
                           /\ q'[l].on => q[l].on
    BY <1>1, ReleasedLanes DEF ManualDismiss
  <1>6. KeepsLanes
    BY <1>2, <1>4, <1>5 DEF KeepsLanes, MovesOn, Persists, LanesStand
  <1>7. left' \in Scenario
    BY <1>1, SpendingKeepsScenario DEF ManualDismiss, Shape
  <1>8. Shape'
    BY <1>1, <1>2, <1>3, <1>5, <1>7 DEF ManualDismiss, Shape, process
  <1>9. RequestsStand
    BY <1>3 DEF ManualDismiss, RequestsStand, process
  <1> QED BY <1>6, <1>8, <1>9, QuietStep

\* A cutover dismisses what is pending, also under a claim.
LEMMA CutoverWaives == ASSUME IInv, CutoverReset PROVE IInv'
  <1>1. Shape
    BY DEF IInv
  <1>2. \A r \in Reply : row[r] \in RowType
    BY <1>1 DEF Shape
  <1>3. row' = [r \in Reply |-> IF row[r].st = "pending" THEN [row[r] EXCEPT !.st = "dismissed"]
                                                         ELSE row[r]]
    BY DEF CutoverReset
  <1>4. waived' \subseteq Reply /\ waived \subseteq waived'
        /\ \A r \in Reply : row[r].st = "pending" => r \in waived'
    BY <1>1 DEF CutoverReset, Shape
  <1>5. ASSUME NEW r \in Reply
        PROVE  row'[r] \in RowType /\ (row'[r] = row[r] \/ MovesOn(r))
    <2>1. CASE row[r].st = "pending"
      <3>1. row'[r] = [row[r] EXCEPT !.st = "dismissed"]
        BY <1>3, <2>1
      <3>2. /\ row'[r] \in RowType
            /\ row'[r].st = "dismissed" /\ row'[r].kind = row[r].kind
            /\ row'[r].ckpt = row[r].ckpt /\ row'[r].claimed = row[r].claimed
        <4>1. row[r] \in RowType /\ "dismissed" \in States
          BY <1>2 DEF States
        <4> QED BY <3>1, <4>1, RowRestated
      <3> QED BY <1>4, <2>1, <3>2 DEF MovesOn, Waived, Nonterminal
    <2>2. CASE row[r].st # "pending"
      BY <1>2, <1>3, <2>2
    <2> QED BY <2>1, <2>2
  <1>6. row' \in [Reply -> RowType]
    BY <1>3, <1>5
  <1>7. KeepsLanes
    BY <1>5 DEF KeepsLanes, MovesOn, Persists, LanesStand, CutoverReset
  <1>8. left' \in Scenario
    BY <1>1, SpendingKeepsScenario DEF CutoverReset, Shape
  <1>9. owner' \in [epoch : Nat, archived : BOOLEAN]
    <2>1. owner \in [epoch : Nat, archived : BOOLEAN]
      BY <1>1 DEF Shape
    <2> QED BY <2>1 DEF CutoverReset
  <1>10. Shape'
    BY <1>1, <1>4, <1>6, <1>8, <1>9 DEF CutoverReset, Shape, process
  <1>11. RequestsStand
    BY <1>4 DEF CutoverReset, RequestsStand, process
  <1> QED BY <1>7, <1>10, <1>11, QuietStep

\* The process is lost; requests under way stay under way.
LEMMA ProcessIsLost == ASSUME IInv, Crash PROVE IInv'
  <1>1. Shape
    BY DEF IInv
  <1>2. direct' \in DirectType /\ exec' \in ExecType /\ exec'.at = "idle" /\ ring' \in Seq(Reply)
    BY <1>1, CacheIsTyped DEF Crash, Idle
  <1>3. /\ wire' \in [Reply -> {"none", "flying", "applied"}]
        /\ \A s \in Reply : wire'[s] = wire[s] \/ wire'[s] = "none"
    BY <1>1 DEF Crash, Shape
  <1>4. left' \in Scenario
    BY <1>1, SpendingKeepsScenario DEF Crash, Shape
  <1>5. Shape'
    BY <1>1, <1>2, <1>3, <1>4 DEF Crash, Shape, durable
  <1>6. KeepsLanes /\ RequestsStand
    BY <1>2, <1>3 DEF Crash, KeepsLanes, MovesOn, Persists, LanesStand, RequestsStand, durable
  <1> QED BY <1>5, <1>6, QuietStep

\* The next process makes uncertain dead letters of the claims it finds.
LEMMA PriorClaimsAreRecovered == ASSUME IInv, Start PROVE IInv'
  <1> DEFINE prior == {r \in Reply : row[r].claimed}
             new(r) == [row[r] EXCEPT !.st = "dead_letter", !.claimed = FALSE, !.why = "uncertain"]
             failed(l) == CHOOSE r \in prior : LaneOf(r) = l
  <1>1. Shape /\ ClaimIsOpen
    BY DEF IInv
  <1>2. row' = [r \in Reply |-> IF r \in prior THEN new(r) ELSE row[r]]
    BY DEF Start
  <1>3. q' = [l \in Lane |-> IF \E r \in prior : LaneOf(r) = l
                THEN [q[l] EXCEPT !.on = TRUE, !.isolated = FALSE, !.failed = failed(l)]
                ELSE q[l]]
    BY DEF Start
  <1>4. ASSUME NEW r \in Reply
        PROVE  row'[r] \in RowType /\ (row'[r] = row[r] \/ MovesOn(r))
    <2>1. row[r] \in RowType
      BY <1>1 DEF Shape
    <2>2. CASE r \in prior
      <3>1. row'[r] = new(r)
        BY <1>2, <2>2
      <3>2. /\ new(r) \in RowType /\ new(r).st = "dead_letter" /\ new(r).kind = row[r].kind
            /\ ~new(r).claimed /\ new(r).ckpt = row[r].ckpt /\ new(r).why = "uncertain"
        BY <2>1 DEF RowType, States, Reasons
      <3>3. row[r].claimed /\ row[r].st # "none"
        BY <1>1, <2>2 DEF ClaimIsOpen
      <3> HIDE DEF new, prior
      <3> QED BY <3>1, <3>2, <3>3 DEF MovesOn, Lost
    <2>3. CASE r \notin prior
      BY <1>2, <2>1, <2>3
    <2> QED BY <2>2, <2>3
  <1>5. row' \in [Reply -> RowType]
    BY <1>2, <1>4
  <1>6. ASSUME NEW l \in Lane
        PROVE  /\ q'[l] \in LaneType /\ q'[l].review = q[l].review
               /\ q'[l].on => \/ q[l].on /\ q'[l].failed = q[l].failed
                              \/ q'[l].failed \in Used /\ LaneOf(q'[l].failed) = l
    <2>1. q[l] \in LaneType
      BY <1>1 DEF Shape
    <2>2. CASE \E r \in prior : LaneOf(r) = l
      <3>1. failed(l) \in prior /\ LaneOf(failed(l)) = l
        BY <2>2
      <3>2. failed(l) \in Reply /\ failed(l) \in Used
        BY <1>1, <3>1 DEF ClaimIsOpen, Used
      <3>3. q'[l] = [q[l] EXCEPT !.on = TRUE, !.isolated = FALSE, !.failed = failed(l)]
        BY <1>3, <2>2
      <3> HIDE DEF failed, prior
      <3>4. q'[l] \in LaneType /\ q'[l].review = q[l].review /\ q'[l].failed = failed(l)
        BY <2>1, <3>2, <3>3 DEF LaneType
      <3> QED BY <3>1, <3>2, <3>4
    <2>3. CASE ~\E r \in prior : LaneOf(r) = l
      BY <1>3, <2>1, <2>3
    <2> QED BY <2>2, <2>3
  <1>7. q' \in [Lane -> LaneType]
    BY <1>3, <1>6
  <1> HIDE DEF prior, new, failed
  <1>8. KeepsLanes
    BY <1>4, <1>6 DEF KeepsLanes, MovesOn, Persists, LanesStand
  <1>9. Shape'
    BY <1>1, <1>5, <1>7 DEF Start, Shape, world
  <1>10. RequestsStand
    BY DEF Start, RequestsStand, world
  <1> QED BY <1>8, <1>9, <1>10, QuietStep

-----------------------------------------------------------------------------
(* The steps of an execution.                                                                  *)

\* A failure the scenario allows is one of those the transition knows.
LEMMA FailuresAreKnown == ASSUME Shape PROVE left.failures \subseteq AllFailures
  BY DEF Shape, Scenario

\* The create of a stream's card fails.
LEMMA CreateIsLost == ASSUME IInv, NEW f \in left.failures, CreateFails(f) PROVE IInv'
  <1>1. Shape /\ exec.at = "create" /\ exec.r \in Reply
    BY DEF IInv, CreateFails, ExecutionIsKnown
  <1>2. PICK r \in Reply : r = exec.r
    BY <1>1
  <1>3. f \in AllFailures
    BY <1>1, FailuresAreKnown
  <1>4. Quiet(r) /\ made[r] = 0
    BY <1>1, <1>2 DEF IInv, ExecutionIsKnown
  <1>5. PICK extra \in {0, 1} : /\ f # "uncertain" => extra = 0
                                /\ made' = [made EXCEPT ![r] = @ + extra]
    BY <1>2 DEF CreateFails
  <1>6. made \in [Reply -> Nat]
    BY <1>1 DEF Shape
  <1>7. /\ made' \in [Reply -> Nat] /\ made'[r] <= 1 /\ \A s \in Reply \ {r} : made'[s] = made[s]
        /\ f # "uncertain" => made' = made
    BY <1>4, <1>5, <1>6
  <1>8. wire' = wire /\ effects' = effects /\ Fail(r, f) /\ wire \in [Reply -> {"none", "flying", "applied"}]
    BY <1>1, <1>2 DEF CreateFails, Shape
  <1> QED BY <1>1, <1>2, <1>3, <1>4, <1>7, <1>8, FailedExecution DEF Quiet

\* A send fails, or its outcome is unknown.
LEMMA SendIsLost == ASSUME IInv, NEW f \in left.failures, SendFails(f) PROVE IInv'
  <1>1. Shape /\ exec.at = "send" /\ exec.r \in Reply
    BY DEF IInv, SendFails, ExecutionIsKnown
  <1>2. PICK r \in Reply : r = exec.r
    BY <1>1
  <1>3. f \in AllFailures
    BY <1>1, FailuresAreKnown
  <1>4. wire \in [Reply -> {"none", "flying", "applied"}] /\ made \in [Reply -> Nat]
    BY <1>1 DEF Shape
  <1>5. /\ wire' \in [Reply -> {"none", "flying", "applied"}]
        /\ \A s \in Reply : wire'[s] = wire[s] \/ wire'[s] = "none"
        /\ f # "uncertain" => wire'[r] = "none" /\ wire[r] = "flying"
    BY <1>2, <1>4 DEF SendFails
  <1>6. f # "uncertain" => effects[r] = 0
    BY <1>5 DEF IInv, WireIsFresh
  <1>7. made' = made /\ effects' = effects /\ Fail(r, f) /\ made[r] <= 1
    BY <1>2 DEF SendFails, IInv, OneCard
  <1> QED BY <1>1, <1>2, <1>3, <1>4, <1>5, <1>6, <1>7, FailedExecution

\* The provider's answer is recorded, or comes too late for its claim.
LEMMA AnswerIsRecorded == ASSUME IInv, Acknowledge PROVE IInv'
  <1>1. Shape /\ exec.at = "send" /\ exec.r \in Reply
    BY DEF IInv, Acknowledge, ExecutionIsKnown
  <1>2. PICK r \in Reply : r = exec.r
    BY <1>1
  <1>3. wire \in [Reply -> {"none", "flying", "applied"}] /\ made \in [Reply -> Nat]
    BY <1>1 DEF Shape
  <1>4. /\ wire' \in [Reply -> {"none", "flying", "applied"}]
        /\ \A s \in Reply : wire'[s] = wire[s] \/ wire'[s] = "none"
        /\ wire'[r] = "none"
    BY <1>2, <1>3 DEF Acknowledge
  <1>5. made' = made /\ effects' = effects /\ made[r] <= 1
    BY <1>2 DEF Acknowledge, IInv, OneCard
  <1>6. CASE exec.lost \/ ~ClaimHeld(r)
    <2>1. Fail(r, "uncertain") /\ "uncertain" \in AllFailures
      BY <1>2, <1>6 DEF Acknowledge, AllFailures
    <2> QED BY <1>1, <1>2, <1>3, <1>4, <1>5, <2>1, FailedExecution
  <1>7. CASE ~(exec.lost \/ ~ClaimHeld(r))
    <2>1. row[r] \in RowType /\ row \in [Reply -> RowType]
      BY <1>1 DEF Shape
    <2> DEFINE tries == row[r].tries + 1
               new == [row[r] EXCEPT !.st = "delivered", !.claimed = FALSE, !.why = "none",
                                     !.tries = tries]
    <2>0. tries \in Nat
      BY <2>1 DEF RowType
    <2>2. /\ new \in RowType /\ new.st = "delivered" /\ new.kind = row[r].kind
          /\ ~new.claimed /\ new.ckpt = row[r].ckpt
      <3> HIDE DEF tries
      <3> QED BY <2>0, <2>1 DEF RowType, States, Reasons
    <2>3. row' = [row EXCEPT ![r] = new]
      BY <1>2, <1>7, <2>1 DEF Acknowledge, RowType
    <2> HIDE DEF new
    <2>4. row' \in [Reply -> RowType] /\ row'[r] = new /\ \A s \in Reply \ {r} : row'[s] = row[s]
      BY <2>1, <2>2, <2>3
    <2>5. exec' \in ExecType /\ exec'.at = "idle" /\ ring' \in Seq(Reply)
      <3>1. exec' = Idle /\ ring' = Discarded
        BY <1>2, <1>7 DEF Acknowledge
      <3>2. Idle \in ExecType /\ Discarded \in Seq(Reply)
        BY <1>1, CacheIsTyped
      <3> QED BY <3>1, <3>2 DEF Idle
    <2>6. MovesOn(r)
      BY <1>4, <1>7, <2>2, <2>4, <2>5 DEF MovesOn, Landed, ClaimHeld
    <2>7. UNCHANGED <<q, cooldown, owner, eng, direct, late, waived, left>> /\ ckp' = SafeOrder(row')
      BY <1>2, <1>7 DEF Acknowledge
    <2>8. KeepsLanes
      BY <2>4, <2>6, <2>7 DEF KeepsLanes, MovesOn, Persists, LanesStand
    <2>9. Shape'
      BY <1>1, <1>4, <1>5, <2>4, <2>5, <2>7 DEF Shape
    <2>10. RequestsStand
      BY <1>4, <1>5, <2>5, <2>7 DEF RequestsStand
    <2> QED BY <2>8, <2>9, <2>10, QuietStep
  <1> QED BY <1>6, <1>7

\* The granted reply is claimed: nothing of it was sent, and the older ones of its lane are settled.
LEMMA ReplyIsClaimed == ASSUME IInv, ClaimGranted PROVE IInv'
  <1>1. Shape /\ Granted \in Reply
    BY GrantedIsReply DEF IInv, ClaimGranted
  <1>2. PICK r \in Reply : r = Granted
    BY <1>1
  <1>3. row[r] \in RowType /\ row \in [Reply -> RowType]
    BY <1>1 DEF Shape
  <1> DEFINE new == [row[r] EXCEPT !.claimed = TRUE]
  <1>4. /\ new \in RowType /\ new.st = row[r].st /\ new.kind = row[r].kind
        /\ new.claimed /\ new.ckpt = row[r].ckpt /\ new.why = row[r].why
    BY <1>3 DEF RowType
  <1>5. row' = [row EXCEPT ![r] = new]
    BY <1>2, <1>3 DEF ClaimGranted, RowType
  <1> HIDE DEF new
  <1>6. row' \in [Reply -> RowType] /\ row'[r] = new /\ \A s \in Reply \ {r} : row'[s] = row[s]
    BY <1>3, <1>4, <1>5
  <1>7. row[r].st = "pending" /\ ~row[r].claimed /\ ~SameKeyOlder(r)
    BY <1>2 DEF ClaimGranted, CanClaim, ClaimEligible
  <1>8. Open(r) /\ Quiet(r) /\ (~row[r].ckpt => made[r] = 0)
    BY <1>7 DEF Open, IInv, OpenIsQuiet, OpenHasNoCard
  <1>9. /\ exec' \in ExecType /\ exec'.r = r /\ exec'.at \in {"create", "send"}
        /\ exec'.at = "create" => wire' = wire /\ ~row[r].ckpt
    <2>1. \/ exec' = [at |-> "create", r |-> r, lost |-> FALSE] /\ wire' = wire /\ ~row[r].ckpt
          \/ exec' = [at |-> "send", r |-> r, lost |-> FALSE]
      BY <1>2 DEF ClaimGranted
    <2>2. /\ [at |-> "create", r |-> r, lost |-> FALSE] \in ExecType
          /\ [at |-> "send", r |-> r, lost |-> FALSE] \in ExecType
      BY DEF ExecType
    <2>3. CASE exec' = [at |-> "create", r |-> r, lost |-> FALSE] /\ wire' = wire /\ ~row[r].ckpt
      BY <2>2, <2>3
    <2>4. CASE exec' = [at |-> "send", r |-> r, lost |-> FALSE]
      BY <2>2, <2>4
    <2> QED BY <2>1, <2>3, <2>4
  <1>10. /\ wire' \in [Reply -> {"none", "flying", "applied"}]
         /\ \A s \in Reply \ {r} : wire'[s] = wire[s]
    <2>1. wire \in [Reply -> {"none", "flying", "applied"}]
      BY <1>1 DEF Shape
    <2> QED BY <1>2, <2>1 DEF ClaimGranted
  <1>11. direct' \in DirectType
    BY <1>1, CacheIsTyped DEF ClaimGranted
  <1>12. UNCHANGED <<q, ckp, cooldown, owner, eng, ring, effects, made, late, waived, left>>
    BY DEF ClaimGranted
  <1>13. Shape'
    BY <1>1, <1>6, <1>9, <1>10, <1>11, <1>12 DEF Shape
  <1>14. LanesStand
    BY <1>4, <1>6, <1>7, <1>12 DEF LanesStand, Persists
  <1>15. Used' = Used /\ (OrdersAreDense /\ ReviewsAreLinked /\ LanesAreFailed)'
    BY <1>14, LanesAreKept
  <1>16. ClaimIsOpen'
    BY <1>4, <1>6, <1>7, <1>12 DEF IInv, ClaimIsOpen
  <1>17. OpenIsQuiet'
    BY <1>4, <1>6, <1>7, <1>10, <1>12 DEF IInv, OpenIsQuiet, Open, Quiet, Denied
  <1>18. OpenHasNoCard'
    BY <1>4, <1>6, <1>7, <1>12 DEF IInv, OpenHasNoCard, Open, Denied
  <1>19. ExecutionIsKnown'
    BY <1>4, <1>6, <1>7, <1>8, <1>9, <1>12 DEF ExecutionIsKnown, ClaimHeld, Quiet
  <1>20. WireIsFresh'
    BY <1>4, <1>6, <1>7, <1>8, <1>10, <1>12 DEF IInv, WireIsFresh, Quiet
  <1>21. OlderIsSettled'
    <2>1. \A x \in Reply : x < r /\ LaneOf(x) = LaneOf(r) => row[x].st \in {"delivered", "dismissed"}
      <3>1. SUFFICES ASSUME NEW x \in Reply, x < r, LaneOf(x) = LaneOf(r)
                     PROVE  row[x].st \in {"delivered", "dismissed"}
        OBVIOUS
      <3>2. r \in 1..Cardinality(Used)
        BY <1>7 DEF IInv, OrdersAreDense, Used
      <3>3. x \in 1..Cardinality(Used)
        BY <3>1, <3>2, CardinalityOfUsed, DeliveryAssumption DEF Reply
      <3>4. row[x].st # "none"
        BY <3>3 DEF IInv, OrdersAreDense, Used
      <3>5. row[x].st \notin {"pending", "dead_letter"}
        BY <1>7, <3>1 DEF SameKeyOlder, Blockers, Nonterminal
      <3>6. row[x].st \in States
        BY <1>3 DEF RowType
      <3> QED BY <3>4, <3>5, <3>6 DEF States
    <2>2. \A x \in Reply : LaneOf(x)' = LaneOf(x) /\ row'[x].st = row[x].st
      BY <1>4, <1>6 DEF LaneOf
    <2>3. ASSUME NEW x \in Reply, NEW s \in Reply, x < s, LaneOf(x) = LaneOf(s),
                 row'[s].claimed \/ effects'[s] > 0 \/ wire'[s] # "none"
          PROVE  x \in waived \/ row[x].st \in {"delivered", "dismissed"}
      <3>1. CASE s = r
        BY <2>1, <2>3, <3>1
      <3>2. CASE s # r
        BY <1>6, <1>10, <1>12, <2>3, <3>2 DEF IInv, OlderIsSettled
      <3> QED BY <3>1, <3>2
    <2> QED BY <1>12, <2>2, <2>3 DEF OlderIsSettled
  <1>22. CheckpointIsGiven'
    BY <1>12, <1>15 DEF IInv, CheckpointIsGiven
  <1>23. HonestCheckpoint'
    BY <1>4, <1>6, <1>12 DEF IInv, HonestCheckpoint, Blockers, Nonterminal
  <1>24. (NoReplay /\ OneCard /\ ConflictOrder)'
    BY <1>12 DEF IInv, NoReplay, OneCard, ConflictOrder
  <1> QED BY <1>13, <1>15, <1>16, <1>17, <1>18, <1>19, <1>20, <1>21, <1>22, <1>23, <1>24 DEF IInv

\* The card entity of a stream exists: its id is kept before the message is sent.
LEMMA CardIsKept == ASSUME IInv, CardCreated PROVE IInv'
  <1>1. Shape /\ exec.at = "create" /\ exec.r \in Reply
    BY DEF IInv, CardCreated, ExecutionIsKnown
  <1>2. PICK r \in Reply : r = exec.r
    BY <1>1
  <1>3. Quiet(r) /\ made[r] = 0
    BY <1>1, <1>2 DEF IInv, ExecutionIsKnown
  <1>4. /\ made' \in [Reply -> Nat] /\ made'[r] = 1 /\ \A s \in Reply \ {r} : made'[s] = made[s]
        /\ effects' = effects
    <2>1. made \in [Reply -> Nat]
      BY <1>1 DEF Shape
    <2> QED BY <1>2, <1>3, <2>1 DEF CardCreated
  <1>5. CASE ~ClaimHeld(r)
    <2>1. Fail(r, "uncertain") /\ wire' = wire /\ "uncertain" \in AllFailures
      BY <1>2, <1>5 DEF CardCreated, AllFailures
    <2>2. wire' \in [Reply -> {"none", "flying", "applied"}]
      BY <1>1, <2>1 DEF Shape
    <2> QED BY <1>1, <1>2, <1>4, <2>1, <2>2, FailedExecution
  <1>6. CASE ClaimHeld(r)
    <2>1. row[r] \in RowType /\ row \in [Reply -> RowType]
      BY <1>1 DEF Shape
    <2> DEFINE new == [row[r] EXCEPT !.ckpt = TRUE]
    <2>2. /\ new \in RowType /\ new.st = row[r].st /\ new.kind = row[r].kind
          /\ new.claimed = row[r].claimed /\ new.ckpt /\ new.why = row[r].why
      BY <2>1 DEF RowType
    <2>3. row' = [row EXCEPT ![r] = new]
      BY <1>2, <1>6, <2>1 DEF CardCreated, RowType
    <2> HIDE DEF new
    <2>4. row' \in [Reply -> RowType] /\ row'[r] = new /\ \A s \in Reply \ {r} : row'[s] = row[s]
      BY <2>1, <2>2, <2>3
    <2>5. exec' \in ExecType /\ exec'.at = "send" /\ exec'.r = r
      <3>1. exec \in ExecType
        BY <1>1 DEF Shape
      <3>2. exec' = [exec EXCEPT !.at = "send"]
        BY <1>2, <1>6 DEF CardCreated
      <3> QED BY <1>2, <3>1, <3>2 DEF ExecType
    <2>6. /\ wire' \in [Reply -> {"none", "flying", "applied"}] /\ wire'[r] = "flying"
          /\ \A s \in Reply \ {r} : wire'[s] = wire[s]
      <3>1. wire \in [Reply -> {"none", "flying", "applied"}]
        BY <1>1 DEF Shape
      <3> QED BY <1>2, <1>6, <3>1 DEF CardCreated
    <2>7. UNCHANGED <<q, ckp, cooldown, owner, eng, ring, direct, late, waived, left>>
      BY <1>2, <1>6 DEF CardCreated
    <2>8. row[r].st = "pending" /\ row[r].claimed
      BY <1>6 DEF ClaimHeld
    <2>9. Shape'
      BY <1>1, <1>4, <2>4, <2>5, <2>6, <2>7 DEF Shape
    <2>10. LanesStand
      BY <2>2, <2>4, <2>7, <2>8 DEF LanesStand, Persists
    <2>11. Used' = Used /\ (OrdersAreDense /\ ReviewsAreLinked /\ LanesAreFailed)'
      BY <2>10, LanesAreKept
    <2>12. ClaimIsOpen'
      BY <2>2, <2>4, <2>7 DEF IInv, ClaimIsOpen
    <2>13. OpenIsQuiet'
      <3>1. SUFFICES ASSUME NEW s \in Reply,
                            Open(s)' \/ (row'[s].st = "dismissed" /\ s \notin waived')
                     PROVE  Quiet(s)'
        BY DEF OpenIsQuiet
      <3>2. s # r
        BY <2>2, <2>4, <2>8, <3>1 DEF Open, Denied
      <3> QED BY <1>4, <2>4, <2>6, <2>7, <3>1, <3>2 DEF IInv, OpenIsQuiet, Open, Quiet, Denied
    <2>14. OpenHasNoCard'
      BY <1>4, <2>2, <2>4, <2>8 DEF IInv, OpenHasNoCard, Open, Denied
    <2>15. ExecutionIsKnown'
      BY <2>2, <2>4, <2>5, <2>8 DEF ExecutionIsKnown, ClaimHeld
    <2>16. WireIsFresh'
      BY <1>3, <1>4, <2>2, <2>4, <2>6, <2>8 DEF IInv, WireIsFresh, Quiet
    <2>17. OlderIsSettled'
      <3>1. \A x \in Reply : /\ LaneOf(x)' = LaneOf(x) /\ row'[x].st = row[x].st
                             /\ row'[x].claimed = row[x].claimed
        BY <2>2, <2>4 DEF LaneOf
      <3>2. \A s \in Reply : row'[s].claimed \/ effects'[s] > 0 \/ wire'[s] # "none"
                               => row[s].claimed \/ effects[s] > 0 \/ wire[s] # "none"
        BY <1>4, <2>6, <2>8, <3>1
      <3> QED BY <2>7, <3>1, <3>2 DEF IInv, OlderIsSettled
    <2>18. CheckpointIsGiven'
      BY <2>7, <2>11 DEF IInv, CheckpointIsGiven
    <2>19. HonestCheckpoint'
      BY <2>2, <2>4, <2>7 DEF IInv, HonestCheckpoint, Blockers, Nonterminal
    <2>20. (NoReplay /\ OneCard /\ ConflictOrder)'
      BY <1>4, <2>7 DEF IInv, NoReplay, OneCard, ConflictOrder
    <2> QED BY <2>9, <2>11, <2>12, <2>13, <2>14, <2>15, <2>16, <2>17, <2>18, <2>19, <2>20 DEF IInv
  <1> QED BY <1>5, <1>6

\* The provider applies a request: it is the first, and the younger cards of the surface wait.
LEMMA EffectIsApplied == ASSUME IInv, NEW r \in Reply, ProviderApplies(r) PROVE IInv'
  <1>1. Shape /\ wire[r] = "flying" /\ effects[r] = 0
    BY DEF IInv, ProviderApplies, WireIsFresh
  <1>2. /\ wire' \in [Reply -> {"none", "flying", "applied"}] /\ wire'[r] # "flying"
        /\ \A s \in Reply \ {r} : wire'[s] = wire[s]
    <2>1. wire \in [Reply -> {"none", "flying", "applied"}]
      BY <1>1 DEF Shape
    <2> QED BY <2>1 DEF ProviderApplies
  <1>3. /\ effects' \in [Reply -> Nat] /\ effects'[r] = 1
        /\ \A s \in Reply \ {r} : effects'[s] = effects[s]
    <2>1. effects \in [Reply -> Nat]
      BY <1>1 DEF Shape
    <2> QED BY <1>1, <2>1 DEF ProviderApplies
  <1>4. UNCHANGED <<row, q, ckp, cooldown, owner, eng, ring, direct, exec, made, waived, left>>
    BY DEF ProviderApplies, durable, process
  <1>5. ~(Open(r) \/ (row[r].st = "dismissed" /\ r \notin waived)) /\ row[r].st # "delivered"
    BY <1>1 DEF IInv, OpenIsQuiet, Quiet, WireIsFresh
  <1>6. late' \subseteq Reply /\ late' \subseteq waived
    <2>1. CASE \E s \in Reply : s > r /\ LaneOf(s) = LaneOf(r) /\ effects[s] > 0
      <3>1. PICK s \in Reply : s > r /\ LaneOf(s) = LaneOf(r) /\ effects[s] > 0
        BY <2>1
      <3>2. r < s
        BY <3>1, DeliveryAssumption DEF Reply
      <3>3. r \in waived \/ row[r].st \in {"delivered", "dismissed"}
        BY <3>1, <3>2 DEF IInv, OlderIsSettled
      <3>4. late' = late \cup {r}
        BY <2>1 DEF ProviderApplies
      <3> QED BY <1>1, <1>5, <3>3, <3>4 DEF IInv, ConflictOrder, Shape
    <2>2. CASE ~\E s \in Reply : s > r /\ LaneOf(s) = LaneOf(r) /\ effects[s] > 0
      BY <1>1, <2>2 DEF ProviderApplies, IInv, ConflictOrder, Shape
    <2> QED BY <2>1, <2>2
  <1>7. Shape'
    BY <1>1, <1>2, <1>3, <1>4, <1>6 DEF Shape
  <1>8. LanesStand
    BY <1>4 DEF LanesStand, Persists
  <1>9. Used' = Used /\ (OrdersAreDense /\ ReviewsAreLinked /\ LanesAreFailed)'
    BY <1>8, LanesAreKept
  <1>10. (ClaimIsOpen /\ OpenHasNoCard /\ HonestCheckpoint /\ OneCard)'
    BY <1>4 DEF IInv, ClaimIsOpen, OpenHasNoCard, HonestCheckpoint, OneCard, Open, Denied, Blockers,
       Nonterminal
  <1>11. OpenIsQuiet'
    <2>1. SUFFICES ASSUME NEW s \in Reply,
                          Open(s)' \/ (row'[s].st = "dismissed" /\ s \notin waived')
                   PROVE  Quiet(s)'
      BY DEF OpenIsQuiet
    <2>2. Open(s) \/ (row[s].st = "dismissed" /\ s \notin waived)
      BY <1>4, <2>1 DEF Open, Denied
    <2>3. s # r /\ Quiet(s)
      BY <1>5, <2>2 DEF IInv, OpenIsQuiet
    <2> QED BY <1>2, <1>3, <2>3 DEF Quiet
  <1>12. ExecutionIsKnown'
    <2>1. exec.at = "create" => exec.r # r
      BY <1>1 DEF IInv, ExecutionIsKnown, Quiet
    <2> QED BY <1>2, <1>3, <1>4, <2>1 DEF IInv, ExecutionIsKnown, ClaimHeld, Quiet
  <1>13. WireIsFresh'
    BY <1>2, <1>3, <1>4, <1>5 DEF IInv, WireIsFresh
  <1>14. OlderIsSettled'
    <2>1. \A s \in Reply : row'[s].claimed \/ effects'[s] > 0 \/ wire'[s] # "none"
                             => row[s].claimed \/ effects[s] > 0 \/ wire[s] # "none"
      BY <1>1, <1>2, <1>3, <1>4
    <2>2. \A s \in Reply : LaneOf(s)' = LaneOf(s)
      BY <1>4 DEF LaneOf
    <2> QED BY <1>4, <2>1, <2>2 DEF IInv, OlderIsSettled
  <1>15. CheckpointIsGiven'
    BY <1>4, <1>9 DEF IInv, CheckpointIsGiven
  <1>16. (NoReplay /\ ConflictOrder)'
    BY <1>3, <1>4, <1>6 DEF IInv, NoReplay, ConflictOrder
  <1> QED BY <1>7, <1>9, <1>10, <1>11, <1>12, <1>13, <1>14, <1>15, <1>16 DEF IInv

-----------------------------------------------------------------------------
(* The steps that create a row.                                                                *)

\* One more row gets the next order.
LEMMA OrdersGoOn ==
    ASSUME IInv, NEW r \in Reply, r = Cardinality(Used) + 1, row'[r].st = "pending",
           \A s \in Reply \ {r} : Persists(s)
    PROVE  /\ r \notin Used /\ Used' = Used \cup {r} /\ Cardinality(Used)' = Cardinality(Used) + 1
           /\ OrdersAreDense'
           /\ \A s \in Used : LaneOf(s)' = LaneOf(s) /\ row'[s].kind = row[s].kind
                              /\ row'[s].st # "none"
  <1>1. Used = 1..Cardinality(Used) /\ Cardinality(Used) \in Nat
    BY CardinalityOfUsed DEF IInv, OrdersAreDense
  <1>2. r \notin Used
    BY <1>1
  <1>3. \A s \in Reply \ {r} : row'[s].st = "none" <=> row[s].st = "none"
    BY DEF Persists
  <1>4. Used' = Used \cup {r}
    BY <1>3 DEF Used
  <1>5. IsFiniteSet(Used)
    BY <1>1, FS_Interval
  <1>6. Cardinality(Used \cup {r}) = Cardinality(Used) + 1
    BY <1>2, <1>5, FS_AddElement
  <1>7. Cardinality(Used)' = Cardinality(Used) + 1
    BY <1>4, <1>6
  <1>8. Used' = 1..(Cardinality(Used) + 1)
    BY <1>1, <1>4
  <1>9. OrdersAreDense'
    BY <1>3, <1>7, <1>8 DEF OrdersAreDense, IInv, Persists
  <1>10. \A s \in Used : LaneOf(s)' = LaneOf(s) /\ row'[s].kind = row[s].kind
                         /\ row'[s].st # "none"
    BY <1>2 DEF Persists, LaneOf, Used
  <1> QED BY <1>2, <1>4, <1>7, <1>9, <1>10

\* A reservation is committed; the snapshots it replaces were denied.
LEMMA ReplyIsReserved == ASSUME IInv, NEW kind \in AllKinds, Enqueue(kind) PROVE IInv'
  <1> DEFINE n == Cardinality(Used) + 1
             superseded == IF kind = "card" THEN ConfirmedNotApplied ELSE {}
  <1>1. Shape /\ Cardinality(Users) < MaxUsers
    <2>1. Shape /\ Cardinality(Users) < left.users /\ Cardinality(Users) \in Nat
      BY OrdersSuffice DEF IInv, Enqueue
    <2>2. left.users \in 0..MaxUsers
      BY <2>1 DEF Shape, Scenario
    <2> QED BY <2>1, <2>2, DeliveryAssumption
  <1>2. n \in Reply
    BY <1>1, OrdersSuffice DEF IInv
  <1>3. PICK r \in Reply : r = n
    BY <1>2
  <1>4. superseded \subseteq ConfirmedNotApplied
    OBVIOUS
  <1>5. /\ row' = [s \in Reply |-> IF s = r THEN NewRow(kind)
                                   ELSE IF s \in superseded THEN [row[s] EXCEPT !.st = "dismissed"]
                                   ELSE row[s]]
        /\ q' = Released(superseded)
        /\ ring' \in {ring, Append(ring, r)}
    BY <1>3 DEF Enqueue
  <1> HIDE DEF n, superseded
  <1>6. NewRow(kind) \in RowType /\ NewRow(kind).st = "pending" /\ NewRow(kind).kind = kind
        /\ ~NewRow(kind).claimed /\ ~NewRow(kind).ckpt
    BY <1>1 DEF NewRow, EmptyRow, RowType, Kinds, States, Reasons, Shape
  <1>7. row[r].st = "none"
    <2>1. r \notin 1..Cardinality(Used)
      BY <1>3, CardinalityOfUsed DEF n
    <2> QED BY <2>1 DEF IInv, OrdersAreDense, Used
  <1>8. ASSUME NEW s \in Reply
        PROVE  /\ row'[s] \in RowType
               /\ s = r => row'[s] = NewRow(kind) /\ Born(s)
               /\ s # r => row'[s] = row[s] \/ MovesOn(s)
    <2>1. row[s] \in RowType
      BY <1>1 DEF Shape
    <2>2. CASE s = r
      BY <1>3, <1>5, <1>6, <1>7, <2>2 DEF Born, n
    <2>3. CASE s # r /\ s \in superseded
      <3>1. row'[s] = [row[s] EXCEPT !.st = "dismissed"]
        BY <1>5, <2>3
      <3>2. row[s].st = "pending" /\ ~row[s].claimed
        BY <1>4, <2>3 DEF ConfirmedNotApplied
      <3>3. "dismissed" \in States
        BY DEF States
      <3>4. /\ row'[s] \in RowType /\ row'[s].st = "dismissed" /\ row'[s].kind = row[s].kind
            /\ row'[s].ckpt = row[s].ckpt /\ row'[s].claimed = row[s].claimed
        BY <2>1, <3>1, <3>3, RowRestated
      <3> QED BY <2>3, <3>2, <3>4 DEF MovesOn, GivenUp, Open
    <2>4. CASE s # r /\ s \notin superseded
      BY <1>5, <2>1, <2>4
    <2> QED BY <2>2, <2>3, <2>4
  <1>9. row' \in [Reply -> RowType]
    BY <1>5, <1>8
  <1>10. /\ q' \in [Lane -> LaneType]
         /\ \A l \in Lane : /\ q'[l].review = q[l].review /\ q'[l].failed = q[l].failed
                            /\ q'[l].on => q[l].on
    BY <1>1, <1>5, ReleasedLanes
  <1>11. ring' \in Seq(Reply)
    <2>1. ring \in Seq(Reply) /\ Append(ring, r) \in Seq(Reply)
      BY <1>1, CacheIsTyped DEF Shape
    <2> QED BY <1>5, <2>1
  <1>12. Shape'
    BY <1>1, <1>9, <1>10, <1>11 DEF Enqueue, Shape, world
  <1>13. /\ r \notin Used /\ Used' = Used \cup {r} /\ Cardinality(Used)' = Cardinality(Used) + 1
         /\ OrdersAreDense'
         /\ \A s \in Used : LaneOf(s)' = LaneOf(s) /\ row'[s].kind = row[s].kind
                            /\ row'[s].st # "none"
    <2>1. \A s \in Reply \ {r} : Persists(s)
      BY <1>8 DEF Persists, MovesOn
    <2>2. row'[r].st = "pending" /\ r = Cardinality(Used) + 1
      BY <1>3, <1>6, <1>8 DEF n
    <2> QED BY <2>1, <2>2, OrdersGoOn
  <1>14. row'[r].kind = kind /\ kind # "review"
    BY <1>6, <1>8 DEF AllKinds
  <1>15. Users' = Users \cup {r} /\ Reviews' = Reviews
    BY <1>13, <1>14 DEF Users, Reviews
  <1>16. Cardinality(Users)' <= MaxUsers
    <2>1. r \notin Users /\ IsFiniteSet(Users) /\ Cardinality(Users) \in Nat
      BY <1>1, <1>13, OrdersSuffice DEF Users, IInv
    <2>2. Cardinality(Users \cup {r}) = Cardinality(Users) + 1
      BY <2>1, FS_AddElement
    <2> QED BY <1>1, <1>15, <2>1, <2>2, DeliveryAssumption
  <1>17. ReviewsAreLinked'
    <2>1. ASSUME NEW x \in Reviews PROVE \E u \in Users' : q'[LaneOf(u)'].review = x
      <3>1. PICK u \in Users : q[LaneOf(u)].review = x
        BY DEF IInv, ReviewsAreLinked
      <3>2. u \in Used /\ u \in Users' /\ LaneOf(u) \in Lane
        BY <1>15, LaneOfReply DEF Users, Used
      <3> QED BY <1>10, <1>13, <3>1, <3>2
    <2> QED BY <1>15, <1>16, <2>1 DEF ReviewsAreLinked
  <1>18. LanesAreFailed'
    <2>1. ASSUME NEW l \in Lane, q'[l].on
          PROVE  q'[l].failed \in Used /\ LaneOf(q'[l].failed) = l
      BY <1>10, <2>1 DEF IInv, LanesAreFailed, Used
    <2>2. Used \subseteq Reply
      BY DEF Used
    <2> QED BY <1>13, <2>1, <2>2 DEF LanesAreFailed
  <1>19. SendsNothing
    <2>1. Cardinality(Used)' >= Cardinality(Used)
      BY <1>13, CardinalityOfUsed
    <2>2. RequestsStand
      BY DEF RequestsStand, Enqueue, world
    <2> QED BY <1>8, <2>1, <2>2 DEF SendsNothing
  <1> QED BY <1>12, <1>13, <1>17, <1>18, <1>19, NothingIsSent

\* A lane leaves its grace, with a review unless it has one.
LEMMA LaneIsIsolated == ASSUME IInv, NEW l \in Lane, GraceExpires(l) PROVE IInv'
  <1> DEFINE failed == q[l].failed
             reviewed == /\ row[failed].st = "dead_letter" /\ row[failed].kind # "review"
                         /\ q[l].review = NoReply
             n == Cardinality(Used) + 1
  <1>1. Shape /\ q[l].on
    BY DEF IInv, GraceExpires
  <1>2. failed \in Reply /\ row[failed].st # "none" /\ LaneOf(failed) = l
    BY <1>1 DEF IInv, LanesAreFailed
  <1>3. q[l] \in LaneType /\ q \in [Lane -> LaneType]
    BY <1>1 DEF Shape
  <1>4. CASE ~reviewed
    <2>1. row' = row /\ q' = [q EXCEPT ![l].isolated = TRUE, ![l].review = @]
      BY <1>4 DEF GraceExpires, Degrade
    <2>2. /\ q' \in [Lane -> LaneType]
          /\ \A k \in Lane : /\ q'[k].review = q[k].review /\ q'[k].failed = q[k].failed
                             /\ q'[k].on = q[k].on
      BY <1>3, <2>1 DEF LaneType
    <2>3. KeepsLanes
      BY <2>1, <2>2 DEF KeepsLanes, LanesStand, Persists
    <2>4. Shape'
      BY <1>1, <2>1, <2>2 DEF GraceExpires, Shape, process, world
    <2>5. RequestsStand
      BY DEF RequestsStand, GraceExpires, process, world
    <2> QED BY <2>3, <2>4, <2>5, QuietStep
  <1>5. CASE reviewed
    <2>1. failed \in Users
      BY <1>2, <1>5 DEF Users, Used
    <2>2. n \in Reply
      BY <1>1, <1>2, <1>5, <2>1, OrdersSuffice DEF IInv
    <2>3. PICK r \in Reply : r = n
      BY <2>2
    <2>4. row' = [row EXCEPT ![r] = NewRow("review")]
          /\ q' = [q EXCEPT ![l].isolated = TRUE, ![l].review = r]
      BY <1>5, <2>3 DEF GraceExpires, Degrade
    <2>5. NewRow("review") \in RowType /\ NewRow("review").st = "pending"
          /\ NewRow("review").kind = "review"
          /\ ~NewRow("review").claimed /\ ~NewRow("review").ckpt
      BY <1>1 DEF NewRow, EmptyRow, RowType, Kinds, States, Reasons, Shape
    <2>6. /\ row' \in [Reply -> RowType] /\ row'[r] = NewRow("review")
          /\ \A s \in Reply \ {r} : row'[s] = row[s]
      <3>1. row \in [Reply -> RowType]
        BY <1>1 DEF Shape
      <3> QED BY <2>4, <2>5, <3>1
    <2>7. /\ q' \in [Lane -> LaneType] /\ q'[l].review = r
          /\ \A k \in Lane : q'[k].failed = q[k].failed /\ q'[k].on = q[k].on
          /\ \A k \in Lane \ {l} : q'[k].review = q[k].review
      BY <1>3, <2>4 DEF LaneType
    <2>8. /\ r \notin Used /\ Used' = Used \cup {r} /\ Cardinality(Used)' = Cardinality(Used) + 1
          /\ OrdersAreDense'
          /\ \A s \in Used : LaneOf(s)' = LaneOf(s) /\ row'[s].kind = row[s].kind
                             /\ row'[s].st # "none"
      <3>1. \A s \in Reply \ {r} : Persists(s)
        BY <2>6 DEF Persists
      <3>2. row'[r].st = "pending" /\ r = Cardinality(Used) + 1
        BY <2>3, <2>5, <2>6
      <3> QED BY <3>1, <3>2, OrdersGoOn
    <2>9. Shape'
      BY <1>1, <2>6, <2>7 DEF GraceExpires, Shape, process, world
    <2>10. Users' = Users /\ Reviews' = Reviews \cup {r}
      BY <2>5, <2>6, <2>8 DEF Users, Reviews
    <2>11. ReviewsAreLinked'
      <3>1. Cardinality(Users)' <= MaxUsers
        BY <2>10 DEF IInv, ReviewsAreLinked
      <3>2. ASSUME NEW x \in Reviews PROVE \E u \in Users' : q'[LaneOf(u)'].review = x
        <4>1. PICK u \in Users : q[LaneOf(u)].review = x
          BY DEF IInv, ReviewsAreLinked
        <4>2. x # NoReply
          BY DeliveryAssumption DEF Reviews, Used, Reply, NoReply
        <4>3. u \in Used /\ LaneOf(u) \in Lane \ {l}
          BY <1>5, <4>1, <4>2, LaneOfReply DEF Users, Used
        <4> QED BY <2>7, <2>8, <2>10, <4>1, <4>3
      <3>3. \E u \in Users' : q'[LaneOf(u)'].review = r
        <4>1. PICK u \in Users : u = failed
          BY <2>1
        <4>2. LaneOf(u)' = l
          BY <1>2, <2>8, <4>1 DEF Users
        <4> QED BY <2>7, <2>10, <4>2
      <3> QED BY <2>10, <3>1, <3>2, <3>3 DEF ReviewsAreLinked
    <2>12. LanesAreFailed'
      <3>1. ASSUME NEW k \in Lane, q'[k].on
            PROVE  q'[k].failed \in Used /\ LaneOf(q'[k].failed) = k
        BY <2>7, <3>1 DEF IInv, LanesAreFailed, Used
      <3>2. Used \subseteq Reply
        BY DEF Used
      <3> QED BY <2>8, <3>1, <3>2 DEF LanesAreFailed
    <2>13. SendsNothing
      <3>1. Born(r)
        BY <2>3, <2>5, <2>6, <2>8 DEF Born, Used
      <3>2. Cardinality(Used)' >= Cardinality(Used)
        BY <2>8, CardinalityOfUsed
      <3>3. RequestsStand
        BY DEF RequestsStand, GraceExpires, process, world
      <3> QED BY <2>6, <3>1, <3>2, <3>3 DEF SendsNothing
    <2> QED BY <2>8, <2>9, <2>11, <2>12, <2>13, NothingIsSent
  <1> QED BY <1>4, <1>5

-----------------------------------------------------------------------------
\* Every step of the store, the engine, the operator, the process and the provider keeps the
\* invariant.
LEMMA StepKeepsInvariant == IInv /\ [Next]_vars => IInv'
  <1> SUFFICES ASSUME IInv, [Next]_vars PROVE IInv'
    OBVIOUS
  <1>1. CASE UNCHANGED vars
    <2>1. UNCHANGED <<row, q, ckp, cooldown, owner, eng, ring, direct, exec, wire, effects, made,
                      late, waived, left>>
      BY <1>1 DEF vars, durable, process, world
    <2>2. Shape'
      BY <2>1 DEF IInv, Shape
    <2>3. KeepsLanes /\ RequestsStand
      BY <2>1 DEF KeepsLanes, LanesStand, Persists, RequestsStand
    <2> QED BY <2>2, <2>3, QuietStep
  <1>2. CASE \E kind \in AllKinds : Enqueue(kind)
    BY <1>2, ReplyIsReserved
  <1>3. CASE Execute
    BY <1>3, GrantIsRefused, ReplyIsClaimed DEF Execute
  <1>4. CASE Respond
    BY <1>4, CardIsKept, AnswerIsRecorded, CreateIsLost, SendIsLost DEF Respond
  <1>5. CASE Refill \/ StartupRecovered
    BY <1>5, PageIsLoaded
  <1>6. CASE Settle
    BY <1>6, HeadIsRecovered, LaneIsIsolated DEF Settle
  <1>7. CASE Tick \/ RenewalLost \/ SessionCleared
    BY <1>7, TimePasses DEF Tick
  <1>8. CASE \E r \in Reply : RecoverExpiredClaim(r) \/ ManualRetry(r) \/ ManualDismiss(r)
                              \/ ProviderApplies(r)
    BY <1>8, ClaimExpires, OperatorRetries, OperatorDismisses, EffectIsApplied
  <1>9. CASE CutoverReset \/ Crash \/ Start
    BY <1>9, CutoverWaives, ProcessIsLost, PriorClaimsAreRecovered
  <1> QED BY <1>1, <1>2, <1>3, <1>4, <1>5, <1>6, <1>7, <1>8, <1>9 DEF Next

\* The invariant holds before anything is reserved.
LEMMA InitHolds == Init => IInv
  <1> SUFFICES ASSUME Init PROVE IInv
    OBVIOUS
  <1>1. EmptyRow \in RowType /\ EmptyRow.st = "none" /\ ~EmptyRow.claimed
    BY DEF EmptyRow, RowType, Kinds, States, Reasons
  <1>2. EmptyLane \in LaneType /\ ~EmptyLane.on
    BY DEF EmptyLane, LaneType
  <1>3. \A r \in Reply : row[r] = EmptyRow /\ Quiet(r) /\ made[r] = 0
    BY DEF Init, Quiet
  <1>4. exec \in ExecType /\ exec.at = "idle"
    BY DEF Init, Idle, ExecType
  <1>5. Shape
    <2>1. row \in [Reply -> RowType] /\ q \in [Lane -> LaneType]
      BY <1>1, <1>2 DEF Init
    <2>2. direct \in DirectType /\ owner \in [epoch : Nat, archived : BOOLEAN]
      BY DEF Init, DirectType
    <2>3. /\ wire \in [Reply -> {"none", "flying", "applied"}]
          /\ effects \in [Reply -> Nat] /\ made \in [Reply -> Nat]
      BY DEF Init
    <2>4. left \in Scenario /\ ring \in Seq(Reply)
      BY DeliveryAssumption DEF Init
    <2>5. cooldown \in BOOLEAN /\ late \subseteq Reply /\ waived \subseteq Reply
      BY DEF Init
    <2> QED BY <1>4, <2>1, <2>2, <2>3, <2>4, <2>5 DEF Shape
  <1>6. Used = {}
    BY <1>1, <1>3 DEF Used
  <1>7. Users = {} /\ Reviews = {} /\ Cardinality(Used) = 0 /\ Cardinality(Users) = 0
    BY <1>6, FS_EmptySet DEF Users, Reviews
  <1>8. OrdersAreDense
    BY <1>3, <1>6, <1>7 DEF OrdersAreDense
  <1>9. ReviewsAreLinked
    BY <1>7, DeliveryAssumption DEF ReviewsAreLinked
  <1>10. LanesAreFailed
    BY <1>2 DEF Init, LanesAreFailed
  <1>11. ClaimIsOpen /\ OpenIsQuiet /\ OpenHasNoCard /\ ExecutionIsKnown
    BY <1>1, <1>3, <1>4 DEF ClaimIsOpen, OpenIsQuiet, OpenHasNoCard, ExecutionIsKnown
  <1>12. WireIsFresh /\ OlderIsSettled
    BY <1>1, <1>3 DEF WireIsFresh, OlderIsSettled, Quiet
  <1>13. CheckpointIsGiven /\ HonestCheckpoint
    BY <1>1, <1>3, <1>7 DEF Init, CheckpointIsGiven, HonestCheckpoint, Blockers, Nonterminal
  <1>14. NoReplay /\ OneCard /\ ConflictOrder
    BY <1>3 DEF Init, NoReplay, OneCard, ConflictOrder, Quiet
  <1> QED BY <1>5, <1>8, <1>9, <1>10, <1>11, <1>12, <1>13, <1>14 DEF IInv

\* The inductive invariant of the delivery: which replies may still be sent, what was sent of
\* them, and what is settled before them.
THEOREM InvariantHolds == Spec => []IInv
  <1>1. Init => IInv
    BY InitHolds
  <1>2. IInv /\ [Next]_vars => IInv'
    BY StepKeepsInvariant
  <1> QED BY <1>1, <1>2, PTL DEF Spec

\* Whatever is retried, recovered after a crash, expired or retried by the operator, an effect
\* becomes visible at most once (acknowledgePreparedDelivery, failPreparedDelivery and the
\* recoveries of claims).
THEOREM EffectsOnce == Spec => []NoReplay
  <1>1. IInv => NoReplay
    BY DEF IInv
  <1> QED BY <1>1, InvariantHolds, PTL

\* A stream never owns two card entities (checkpointCard between the two provider calls).
THEOREM OneCardPerStream == Spec => []OneCard
  <1>1. IInv => OneCard
    BY DEF IInv
  <1> QED BY <1>1, InvariantHolds, PTL

\* What the bridge dismisses by itself had no effect and has no request under way
\* (advanceSupersededHead, dismissStaleGenericPrimaryDelivery, the failure transition).
THEOREM DismissedInSilence == Spec => []QuietDismissal
  <1>1. IInv => QuietDismissal
    BY DEF IInv, OpenIsQuiet, Quiet, QuietDismissal
  <1> QED BY <1>1, InvariantHolds, PTL

\* Cards of one surface are applied in the order of their snapshots, unless the older one was
\* waived (claimGenericPrimaryDelivery refuses a reply while an older one of its key is open).
THEOREM CardsInOrder == Spec => []ConflictOrder
  <1>1. IInv => ConflictOrder
    BY DEF IInv
  <1> QED BY <1>1, InvariantHolds, PTL

\* The checkpoint of the Ring passes no reply that is still to be settled
\* (advanceCheckpointAfterTerminalTransition, commitDiscoveredCheckpoints).
THEOREM CheckpointIsHonest == Spec => []HonestCheckpoint
  <1>1. IInv => HonestCheckpoint
    BY DEF IInv
  <1> QED BY <1>1, InvariantHolds, PTL
-----------------------------------------------------------------------------
(* The limits: of the attempts at a reply, of the cache and of the checkpoint.                 *)

\* A reply has the attempts of the policy, and one that is pending has another left.
AttemptsFit(r) == row[r].tries <= Attempts /\ (row[r].st = "pending" => row[r].tries < Attempts)

\* The cache holds no more than it may, each reply once and the oldest first.
CacheFits == /\ Len(ring) <= RingLimit
             /\ \A i, j \in DOMAIN ring : i < j => ring[i] < ring[j]

Bounded == /\ \A r \in Reply : AttemptsFit(r)
           /\ CacheFits
           /\ ckp >= 0 /\ eng \in {"down", "starting", "running"}

\* The checkpoint a query computes is never negative.
LEMMA SafeOrderIsNatural == ASSUME NEW table PROVE SafeOrder(table) >= 0
  <1> DEFINE blocking == {r \in Reply : table[r].st \in {"pending", "dead_letter"}}
             used == {r \in Reply : table[r].st # "none"}
  <1>1. SafeOrder(table) = IF blocking # {} THEN Min(blocking) - 1 ELSE Cardinality(used)
    BY DEF SafeOrder
  <1>2. CASE blocking # {}
    <2>1. Min(blocking) \in Reply
      BY <1>2, OldestReply
    <2>2. Min(blocking) \in Nat /\ Min(blocking) >= 1
      BY <2>1, DeliveryAssumption DEF Reply
    <2> QED BY <1>1, <1>2, <2>2
  <1>3. CASE blocking = {}
    <2>1. IsFiniteSet(Reply) /\ used \subseteq Reply
      BY DeliveryAssumption, FS_Interval DEF Reply
    <2>2. Cardinality(used) \in Nat
      BY <2>1, FS_Subset, FS_CardinalityType
    <2> HIDE DEF used
    <2> QED BY <1>1, <1>3, <2>2
  <1> QED BY <1>2, <1>3

\* Taking the head from the cache, or a younger reply into it, keeps its order and its limit.
LEMMA DiscardKeepsCache == ASSUME Shape, CacheFits, ring' = Discarded PROVE CacheFits'
  <1>1. ring \in Seq(Reply) /\ Reply \subseteq Nat
    BY DeliveryAssumption DEF Shape, Reply
  <1>2. CASE ring = <<>>
    BY <1>2 DEF Discarded, CacheFits
  <1>3. CASE ring # <<>>
    <2>1. ring' = Tail(ring)
      BY <1>3 DEF Discarded
    <2>2. Len(ring') = Len(ring) - 1 /\ \A i \in 1..Len(ring') : ring'[i] = ring[i + 1]
      BY <1>1, <1>3, <2>1
    <2>3. Len(ring) \in Nat /\ Len(ring') \in Nat /\ DOMAIN ring' = 1..Len(ring')
          /\ DOMAIN ring = 1..Len(ring)
      BY <1>1, <1>3, <2>1
    <2>4. Len(ring') <= RingLimit
      BY <2>2, <2>3, DeliveryAssumption DEF CacheFits
    <2>5. ASSUME NEW i \in DOMAIN ring', NEW j \in DOMAIN ring', i < j PROVE ring'[i] < ring'[j]
      <3>1. i + 1 \in DOMAIN ring /\ j + 1 \in DOMAIN ring /\ i + 1 < j + 1
        BY <2>2, <2>3, <2>5
      <3>2. ring[i + 1] < ring[j + 1]
        BY <3>1 DEF CacheFits
      <3> QED BY <2>2, <2>3, <3>2
    <2> QED BY <2>4, <2>5 DEF CacheFits
  <1> QED BY <1>2, <1>3

LEMMA OfferKeepsCache ==
    ASSUME Shape, CacheFits, NEW r \in Reply, NEW kind, Accepts(r, kind), ring' = Append(ring, r)
    PROVE  CacheFits'
  <1>1. ring \in Seq(Reply) /\ Len(ring) \in Nat /\ DOMAIN ring = 1..Len(ring)
    BY DEF Shape
  <1>2. \A s \in Reply : s \in Nat
    BY DeliveryAssumption DEF Reply
  <1>3. /\ Len(ring') = Len(ring) + 1 /\ DOMAIN ring' = 1..(Len(ring) + 1)
        /\ ring'[Len(ring) + 1] = r /\ \A i \in 1..Len(ring) : ring'[i] = ring[i]
    BY <1>1
  <1>4. Len(ring') <= RingLimit
    BY <1>1, <1>3, DeliveryAssumption DEF Accepts
  <1>5. ASSUME NEW i \in 1..Len(ring) PROVE ring[i] < r /\ ring[i] \in Nat
    <2>1. ring # <<>> /\ Len(ring) \in DOMAIN ring /\ i \in DOMAIN ring
      BY <1>1
    <2>2. ring[Len(ring)] < r
      BY <2>1 DEF Accepts
    <2>3. ring[i] \in Nat /\ ring[Len(ring)] \in Nat /\ r \in Nat
      BY <1>1, <1>2, <2>1
    <2>4. i = Len(ring) \/ ring[i] < ring[Len(ring)]
      BY <1>1, <2>1 DEF CacheFits
    <2> QED BY <2>2, <2>3, <2>4
  <1>6. ASSUME NEW i \in DOMAIN ring', NEW j \in DOMAIN ring', i < j PROVE ring'[i] < ring'[j]
    <2>1. i \in 1..Len(ring) /\ ring'[i] = ring[i]
      BY <1>1, <1>3, <1>6
    <2>2. CASE j = Len(ring) + 1
      BY <1>3, <1>5, <2>1, <2>2
    <2>3. CASE j # Len(ring) + 1
      <3>1. j \in 1..Len(ring) /\ ring'[j] = ring[j]
        BY <1>1, <1>3, <2>3
      <3> QED BY <1>1, <1>6, <2>1, <3>1 DEF CacheFits
    <2> QED BY <2>2, <2>3
  <1> QED BY <1>4, <1>6 DEF CacheFits

\* The cache only ever loses its head or all of it, or is offered what it accepts.
CacheMoves ==
  \/ ring' = ring \/ ring' = <<>> \/ ring' = Discarded
  \/ \E r \in Reply : \E kind \in Kinds : Accepts(r, kind) /\ ring' = Append(ring, r)
Untouched(s) == row'[s].tries = row[s].tries /\ (row'[s].st = "pending" => row[s].st = "pending")

LEMMA BoundedStep ==
    ASSUME Shape, Bounded, CacheMoves, ckp' \in {ckp, SafeOrder(row), SafeOrder(row')},
           eng' \in {"down", "starting", "running"},
           \A s \in Reply : row'[s] = row[s] \/ Untouched(s) \/ AttemptsFit(s)'
    PROVE  Bounded'
  <1>1. CacheFits'
    <2>1. CacheFits
      BY DEF Bounded
    <2>2. CASE ring' = ring
      BY <2>1, <2>2 DEF CacheFits
    <2>3. CASE ring' = <<>>
      BY <2>3, DeliveryAssumption DEF CacheFits
    <2>4. CASE ring' = Discarded
      BY <2>1, <2>4, DiscardKeepsCache
    <2>5. CASE \E r \in Reply : \E kind \in Kinds : Accepts(r, kind) /\ ring' = Append(ring, r)
      BY <2>1, <2>5, OfferKeepsCache
    <2> QED BY <2>2, <2>3, <2>4, <2>5 DEF CacheMoves
  <1>2. ckp' >= 0
    BY SafeOrderIsNatural DEF Bounded
  <1>3. \A s \in Reply : AttemptsFit(s)'
    BY DEF Bounded, Untouched, AttemptsFit
  <1> QED BY <1>1, <1>2, <1>3 DEF Bounded

\* A row changes in place.
LEMMA RowKept ==
    ASSUME Shape, NEW r \in Reply, NEW new, row' = [row EXCEPT ![r] = new],
           new.tries = row[r].tries, new.st = "pending" => row[r].st = "pending"
    PROVE  \A s \in Reply : row'[s] = row[s] \/ Untouched(s)
  <1>1. row'[r] = new /\ \A s \in Reply : s # r => row'[s] = row[s]
    BY DEF Shape
  <1> QED BY <1>1 DEF Untouched

\* A dismissed row keeps its attempts.
LEMMA DismissedIsKept ==
    ASSUME Shape, NEW r \in Reply, row' = Dismissed(r)
    PROVE  \A s \in Reply : row'[s] = row[s] \/ Untouched(s)
  <1>1. row[r] \in RowType
    BY DEF Shape
  <1> DEFINE new == [row[r] EXCEPT !.st = "dismissed"]
  <1>2. new.tries = row[r].tries /\ new.st = "dismissed"
    BY <1>1 DEF RowType
  <1>3. row' = [row EXCEPT ![r] = new]
    BY DEF Dismissed
  <1> HIDE DEF new
  <1> QED BY <1>2, <1>3, RowKept

\* A failed attempt is one of those the policy allows, and the last is final.
LEMMA FailureIsCounted ==
    ASSUME Shape, Bounded, NEW r \in Reply, NEW f \in AllFailures, Fail(r, f)
    PROVE  \A s \in Reply : row'[s] = row[s] \/ AttemptsFit(s)'
  <1>1. CASE ~ClaimHeld(r)
    BY <1>1 DEF Fail
  <1>2. CASE ClaimHeld(r)
    <2>1. row[r] \in RowType /\ row \in [Reply -> RowType]
      BY DEF Shape
    <2> DEFINE tries == row[r].tries + 1
               final == f \in {"uncertain", "permanent", "defunct"} \/ tries >= Attempts
               st == IF final THEN "dead_letter" ELSE "pending"
               class == CASE f = "defunct" -> "permanent" [] f = "throttled" -> "transient"
                          [] OTHER -> f
               after == AfterAttempt(r, f)
               gone == [after EXCEPT !.st = "dismissed"]
    <2>2. tries \in Nat /\ tries <= Attempts /\ Attempts \in Nat
      <3>1. row[r].tries \in Nat /\ row[r].tries < Attempts
        BY <1>2, <2>1 DEF RowType, Bounded, AttemptsFit, ClaimHeld
      <3> QED BY <3>1, DeliveryAssumption
    <2>3. st = "pending" => tries < Attempts
      BY <2>2
    <2>4. after = [row[r] EXCEPT !.st = st, !.claimed = FALSE, !.tries = tries, !.why = class,
                                 !.due = final]
      BY DEF AfterAttempt
    <2> HIDE DEF tries, final, st, class, after
    <2>5. after.tries = tries /\ after.st = st /\ "st" \in DOMAIN after
      BY <2>1, <2>4 DEF RowType
    <2>6. gone.tries = tries /\ gone.st = "dismissed"
      BY <2>1, <2>4, <2>5 DEF RowType
    <2>7. row' = [row EXCEPT ![r] = after] \/ row' = [row EXCEPT ![r] = gone]
      BY <1>2 DEF Fail, FailClaimed, after
    <2> HIDE DEF gone
    <2>8. /\ row'[r] = after \/ row'[r] = gone
          /\ \A s \in Reply : s # r => row'[s] = row[s]
      BY <2>1, <2>7
    <2>9. AttemptsFit(r)'
      BY <2>2, <2>3, <2>5, <2>6, <2>8 DEF AttemptsFit
    <2> QED BY <2>8, <2>9
  <1> QED BY <1>1, <1>2

\* A reservation is a row without attempts.
LEMMA NewRowFits ==
    ASSUME NEW r \in Reply, NEW kind, row'[r] = NewRow(kind) PROVE AttemptsFit(r)'
  <1>1. NewRow(kind).tries = 0
    BY DEF NewRow, EmptyRow
  <1> QED BY <1>1, DeliveryAssumption DEF AttemptsFit

LEMMA ReservationIsBounded ==
    ASSUME IInv, Bounded, NEW kind \in AllKinds, Enqueue(kind) PROVE Bounded'
  <1> DEFINE r == Cardinality(Used) + 1
             superseded == IF kind = "card" THEN ConfirmedNotApplied ELSE {}
  <1>1. Shape /\ OrdersAreDense /\ ReviewsAreLinked
    BY DEF IInv
  <1>2. Cardinality(Users) < MaxUsers
    <2>1. left.users \in 0..MaxUsers /\ Cardinality(Users) < left.users
      BY <1>1 DEF Shape, Scenario, Enqueue
    <2>2. Cardinality(Users) \in Nat
      BY <1>1, OrdersSuffice
    <2> QED BY <2>1, <2>2, DeliveryAssumption
  <1>3. r \in Reply
    BY <1>1, <1>2, OrdersSuffice
  <1>4. /\ row' = [s \in Reply |-> IF s = r THEN NewRow(kind)
                                   ELSE IF s \in superseded THEN [row[s] EXCEPT !.st = "dismissed"]
                                   ELSE row[s]]
        /\ ring' = IF Accepts(r, kind) THEN Append(ring, r) ELSE ring
        /\ UNCHANGED <<ckp, eng>>
    BY DEF Enqueue
  <1> HIDE DEF r, superseded
  <1>5. ASSUME NEW s \in Reply PROVE row'[s] = row[s] \/ Untouched(s) \/ AttemptsFit(s)'
    <2>1. CASE s = r
      BY <1>3, <1>4, <2>1, NewRowFits
    <2>2. CASE s # r /\ s \in superseded
      <3>1. row[s] \in RowType /\ row'[s] = [row[s] EXCEPT !.st = "dismissed"]
        BY <1>1, <1>4, <2>2 DEF Shape
      <3>2. row'[s].tries = row[s].tries /\ row'[s].st = "dismissed"
        BY <3>1 DEF RowType
      <3> QED BY <3>2 DEF Untouched
    <2>3. CASE s # r /\ s \notin superseded
      BY <1>4, <2>3
    <2> QED BY <2>1, <2>2, <2>3
  <1>6. CacheMoves
    BY <1>3, <1>4 DEF CacheMoves, Kinds
  <1>7. eng' \in {"down", "starting", "running"}
    BY <1>4 DEF Bounded
  <1> QED BY <1>1, <1>4, <1>5, <1>6, <1>7, BoundedStep

\* The granted reply runs, is superseded or refused; its row is claimed or dismissed.
LEMMA ExecutionIsBounded == ASSUME IInv, Bounded, Execute PROVE Bounded'
  <1>1. Shape /\ CanGrant
    BY DEF IInv, Execute, SupersedeGranted, ClaimGranted, RefuseGranted
  <1>2. Granted \in Reply
    BY <1>1, GrantedIsReply
  <1>3. CASE SupersedeGranted
    <2>1. \A s \in Reply : row'[s] = row[s] \/ Untouched(s)
      BY <1>1, <1>2, <1>3, DismissedIsKept DEF SupersedeGranted
    <2>2. CacheMoves /\ ckp' = SafeOrder(row') /\ eng' \in {"down", "starting", "running"}
      BY <1>3 DEF SupersedeGranted, CacheMoves, Bounded
    <2> QED BY <1>1, <2>1, <2>2, BoundedStep
  <1>4. CASE ClaimGranted
    <2> DEFINE new == [row[Granted] EXCEPT !.claimed = TRUE]
    <2>1. row[Granted] \in RowType /\ row \in [Reply -> RowType]
      BY <1>1, <1>2 DEF Shape
    <2>2. new.tries = row[Granted].tries /\ new.st = row[Granted].st
      BY <2>1 DEF RowType
    <2>3. row' = [row EXCEPT ![Granted] = new]
      BY <1>2, <1>4, <2>1 DEF ClaimGranted
    <2> HIDE DEF new
    <2>4. \A s \in Reply : row'[s] = row[s] \/ Untouched(s)
      BY <1>1, <1>2, <2>2, <2>3, RowKept
    <2>5. CacheMoves /\ ckp' = ckp /\ eng' \in {"down", "starting", "running"}
      BY <1>4 DEF ClaimGranted, CacheMoves, Bounded
    <2> QED BY <1>1, <2>4, <2>5, BoundedStep
  <1>5. CASE RefuseGranted
    <2>1. row' = row \/ row' = Dismissed(Granted)
      BY <1>5 DEF RefuseGranted
    <2>2. \A s \in Reply : row'[s] = row[s] \/ Untouched(s)
      BY <1>1, <1>2, <2>1, DismissedIsKept
    <2>3. /\ CacheMoves /\ ckp' \in {ckp, SafeOrder(row), SafeOrder(row')}
          /\ eng' \in {"down", "starting", "running"}
      BY <1>5 DEF RefuseGranted, CacheMoves, Bounded
    <2> QED BY <1>1, <2>2, <2>3, BoundedStep
  <1> QED BY <1>3, <1>4, <1>5 DEF Execute

\* An execution ends, or goes on from the card it created to the message.
LEMMA AnswerIsBounded == ASSUME IInv, Bounded, Respond PROVE Bounded'
  <1>1. Shape
    BY DEF IInv
  <1>2. exec.at # "idle" /\ exec.r \in Reply
    <2>1. exec.at # "idle"
      BY DEF Respond, CardCreated, Acknowledge, CreateFails, SendFails
    <2> QED BY <2>1 DEF IInv, ExecutionIsKnown
  <1>3. PICK r \in Reply : r = exec.r
    BY <1>2
  <1>4. row[r] \in RowType /\ row \in [Reply -> RowType]
    BY <1>1 DEF Shape
  <1>5. ASSUME NEW f \in AllFailures, Fail(r, f) PROVE Bounded'
    <2>1. \A s \in Reply : row'[s] = row[s] \/ AttemptsFit(s)'
      BY <1>1, <1>5, FailureIsCounted
    <2>2. CacheMoves /\ ckp' = ckp /\ eng' \in {"down", "starting", "running"}
      BY <1>5 DEF Fail, CacheMoves, Bounded
    <2> QED BY <1>1, <2>1, <2>2, BoundedStep
  <1>6. ASSUME CardCreated, ~Fail(r, "uncertain") PROVE Bounded'
    <2> DEFINE new == [row[r] EXCEPT !.ckpt = TRUE]
    <2>1. new.tries = row[r].tries /\ new.st = row[r].st
      BY <1>4 DEF RowType
    <2>2. row' = [row EXCEPT ![r] = new] /\ UNCHANGED <<ckp, eng, ring>>
      BY <1>3, <1>4, <1>6 DEF CardCreated
    <2> HIDE DEF new
    <2>3. \A s \in Reply : row'[s] = row[s] \/ Untouched(s)
      BY <1>1, <2>1, <2>2, RowKept
    <2>4. CacheMoves /\ ckp' = ckp /\ eng' \in {"down", "starting", "running"}
      BY <2>2 DEF CacheMoves, Bounded
    <2> QED BY <1>1, <2>3, <2>4, BoundedStep
  <1>7. ASSUME Acknowledge, ~Fail(r, "uncertain") PROVE Bounded'
    <2> DEFINE tries == row[r].tries + 1
               new == [row[r] EXCEPT !.st = "delivered", !.claimed = FALSE, !.why = "none",
                                     !.tries = tries]
    <2>1. /\ ClaimHeld(r) /\ ckp' = SafeOrder(row') /\ ring' = Discarded /\ eng' = eng
          /\ row' = [row EXCEPT ![r].st = "delivered", ![r].claimed = FALSE,
                                ![r].why = "none", ![r].tries = @ + 1]
      BY <1>3, <1>7 DEF Acknowledge
    <2>2. row' = [row EXCEPT ![r] = new]
      BY <1>4, <2>1
    <2>3. row[r].tries \in Nat /\ row[r].tries < Attempts
      BY <1>4, <2>1 DEF RowType, Bounded, AttemptsFit, ClaimHeld
    <2>4. new.tries = tries /\ new.st = "delivered" /\ tries <= Attempts
      BY <1>4, <2>3, DeliveryAssumption DEF RowType
    <2> HIDE DEF new, tries
    <2>5. row'[r] = new /\ \A s \in Reply : s # r => row'[s] = row[s]
      BY <1>4, <2>2
    <2>6. \A s \in Reply : row'[s] = row[s] \/ AttemptsFit(s)'
      BY <2>4, <2>5 DEF AttemptsFit
    <2>7. CacheMoves /\ eng' \in {"down", "starting", "running"}
      BY <2>1 DEF CacheMoves, Bounded
    <2> QED BY <1>1, <2>1, <2>6, <2>7, BoundedStep
  <1>8. ASSUME NEW f \in left.failures, CreateFails(f) \/ SendFails(f) PROVE Bounded'
    <2>1. f \in AllFailures /\ Fail(r, f)
      BY <1>1, <1>3, <1>8, FailuresAreKnown DEF CreateFails, SendFails
    <2> QED BY <1>5, <2>1
  <1>9. "uncertain" \in AllFailures
    BY DEF AllFailures
  <1> QED BY <1>5, <1>6, <1>7, <1>8, <1>9 DEF Respond

\* A page offers its head to the cache; the checkpoint is computed anew.
LEMMA PageIsBounded == ASSUME IInv, Bounded, Refill \/ StartupRecovered PROVE Bounded'
  <1>1. Shape
    BY DEF IInv
  <1>2. LoadPage /\ row' = row /\ eng' \in {"down", "starting", "running"}
    BY DEF Refill, StartupRecovered, Bounded
  <1>3. CacheMoves
    <2>1. CASE ring' = ring
      BY <2>1 DEF CacheMoves
    <2>2. CASE ring' # ring
      <3>1. HeadReply \in Reply /\ Accepts(HeadReply, row[HeadReply].kind)
            /\ ring' = Append(ring, HeadReply)
        BY <1>2, <2>2, HeadIsReply DEF LoadPage, OfferCold
      <3>2. row[HeadReply].kind \in Kinds
        BY <1>1, <3>1 DEF Shape, RowType
      <3> QED BY <3>1, <3>2 DEF CacheMoves
    <2> QED BY <2>1, <2>2
  <1>4. ckp' = SafeOrder(row)
    BY <1>2 DEF LoadPage
  <1> QED BY <1>1, <1>2, <1>3, <1>4, BoundedStep

\* Maintenance dismisses a head or isolates a lane, whose review is a row without attempts.
LEMMA MaintenanceIsBounded == ASSUME IInv, Bounded, Settle PROVE Bounded'
  <1>1. Shape
    BY DEF IInv
  <1>2. UNCHANGED <<eng, ring>>
    BY DEF Settle, RecoverHead, GraceExpires, DismissRejectedReview, process
  <1>3. CacheMoves /\ eng' \in {"down", "starting", "running"}
    BY <1>2 DEF CacheMoves, Bounded
  <1>4. ckp' \in {ckp, SafeOrder(row), SafeOrder(row')}
    BY DEF Settle, RecoverHead, GraceExpires, DismissRejectedReview
  <1>5. CASE RecoverHead \/ \E r \in Reply : DismissRejectedReview(r)
    <2>1. PICK r \in Reply : row' = Dismissed(r)
      BY <1>5, HeadIsReply DEF RecoverHead, DismissRejectedReview
    <2>2. \A s \in Reply : row'[s] = row[s] \/ Untouched(s)
      BY <1>1, <2>1, DismissedIsKept
    <2> QED BY <1>1, <1>3, <1>4, <2>2, BoundedStep
  <1>6. CASE \E l \in Lane : GraceExpires(l)
    <2>1. PICK r : r = Cardinality(Used) + 1
      OBVIOUS
    <2>2. row' = row \/ row' = [row EXCEPT ![r] = NewRow("review")]
      BY <1>6, <2>1 DEF GraceExpires, Degrade
    <2>3. ASSUME NEW s \in Reply PROVE row'[s] = row[s] \/ AttemptsFit(s)'
      <3>1. row'[s] = row[s] \/ row'[s] = NewRow("review")
        BY <1>1, <2>2 DEF Shape
      <3> QED BY <3>1, NewRowFits
    <2> QED BY <1>1, <1>3, <1>4, <2>3, BoundedStep
  <1> QED BY <1>5, <1>6 DEF Settle

\* Timers, the operator and the provider.
LEMMA RowIsBounded ==
    ASSUME IInv, Bounded, NEW r \in Reply,
           BecomeDue(r) \/ RecoverExpiredClaim(r) \/ ManualRetry(r) \/ ManualDismiss(r)
           \/ ProviderApplies(r)
    PROVE  Bounded'
  <1>1. Shape /\ row[r] \in RowType /\ row \in [Reply -> RowType]
    BY DEF IInv, Shape
  <1>2. UNCHANGED <<eng, ring, ckp>>
    BY DEF BecomeDue, RecoverExpiredClaim, ManualRetry, ManualDismiss, ProviderApplies, process,
           durable
  <1>3. CacheMoves /\ eng' \in {"down", "starting", "running"} /\ ckp' = ckp
    BY <1>2 DEF CacheMoves, Bounded
  <1> DEFINE due == [row[r] EXCEPT !.due = TRUE]
             lost == [row[r] EXCEPT !.st = "dead_letter", !.claimed = FALSE, !.why = "uncertain"]
             again == [row[r] EXCEPT !.st = "pending", !.tries = 0, !.due = TRUE]
  <1>4. /\ due.tries = row[r].tries /\ due.st = row[r].st
        /\ lost.tries = row[r].tries /\ lost.st = "dead_letter"
        /\ again.tries = 0
    BY <1>1 DEF RowType
  <1>5. /\ BecomeDue(r) => row' = [row EXCEPT ![r] = due]
        /\ RecoverExpiredClaim(r) => row' = [row EXCEPT ![r] = lost]
        /\ ManualRetry(r) => row' = [row EXCEPT ![r] = again]
        /\ ManualDismiss(r) => row' = Dismissed(r)
        /\ ProviderApplies(r) => row' = row
    BY <1>1 DEF BecomeDue, RecoverExpiredClaim, ManualRetry, ManualDismiss, ProviderApplies, durable
  <1> HIDE DEF due, lost, again
  <1>6. CASE BecomeDue(r)
    <2>1. \A s \in Reply : row'[s] = row[s] \/ Untouched(s)
      BY <1>1, <1>4, <1>5, <1>6, RowKept
    <2> QED BY <1>1, <1>3, <2>1, BoundedStep
  <1>7. CASE RecoverExpiredClaim(r)
    <2>1. \A s \in Reply : row'[s] = row[s] \/ Untouched(s)
      BY <1>1, <1>4, <1>5, <1>7, RowKept
    <2> QED BY <1>1, <1>3, <2>1, BoundedStep
  <1>8. CASE ManualRetry(r)
    <2>1. row'[r] = again /\ \A s \in Reply : s # r => row'[s] = row[s]
      BY <1>1, <1>5, <1>8
    <2>2. AttemptsFit(r)'
      BY <1>4, <2>1, DeliveryAssumption DEF AttemptsFit
    <2>3. \A s \in Reply : row'[s] = row[s] \/ AttemptsFit(s)'
      BY <2>1, <2>2
    <2> QED BY <1>1, <1>3, <2>3, BoundedStep
  <1>9. CASE ManualDismiss(r)
    <2>1. \A s \in Reply : row'[s] = row[s] \/ Untouched(s)
      BY <1>1, <1>5, <1>9, DismissedIsKept
    <2> QED BY <1>1, <1>3, <2>1, BoundedStep
  <1>10. CASE ProviderApplies(r)
    <2>1. \A s \in Reply : row'[s] = row[s]
      BY <1>5, <1>10
    <2> QED BY <1>1, <1>3, <2>1, BoundedStep
  <1> QED BY <1>6, <1>7, <1>8, <1>9, <1>10

\* The process ends and starts, and the owner is archived: no row gains an attempt.
LEMMA LifeIsBounded == ASSUME IInv, Bounded, CutoverReset \/ Crash \/ Start PROVE Bounded'
  <1>1. Shape /\ row \in [Reply -> RowType]
    BY DEF IInv, Shape
  <1>2. CacheMoves /\ ckp' = ckp /\ eng' \in {"down", "starting", "running"}
    BY DEF CutoverReset, Crash, Start, CacheMoves, Bounded, process, durable
  <1>3. ASSUME NEW s \in Reply PROVE row'[s] = row[s] \/ Untouched(s)
    <2> DEFINE gone == [row[s] EXCEPT !.st = "dismissed"]
               lost == [row[s] EXCEPT !.st = "dead_letter", !.claimed = FALSE, !.why = "uncertain"]
    <2>1. row[s] \in RowType
      BY <1>1
    <2>2. /\ gone.tries = row[s].tries /\ gone.st = "dismissed"
          /\ lost.tries = row[s].tries /\ lost.st = "dead_letter"
      BY <2>1 DEF RowType
    <2>3. row'[s] = row[s] \/ row'[s] = gone \/ row'[s] = lost
      BY DEF CutoverReset, Crash, Start, durable
    <2> HIDE DEF gone, lost
    <2> QED BY <2>2, <2>3 DEF Untouched
  <1> QED BY <1>1, <1>2, <1>3, BoundedStep

LEMMA StepKeepsBounds == IInv /\ Bounded /\ [Next]_vars => Bounded'
  <1> SUFFICES ASSUME IInv, Bounded, [Next]_vars PROVE Bounded'
    OBVIOUS
  <1>1. CASE UNCHANGED vars \/ CooldownEnds \/ SessionCleared \/ RenewalLost
    <2>1. UNCHANGED <<row, ckp, eng, ring>>
      BY <1>1 DEF vars, durable, process, CooldownEnds, SessionCleared, RenewalLost
    <2>2. Shape /\ CacheMoves /\ eng' \in {"down", "starting", "running"}
      BY <2>1 DEF IInv, CacheMoves, Bounded
    <2> QED BY <2>1, <2>2, BoundedStep
  <1>2. CASE \E kind \in AllKinds : Enqueue(kind)
    BY <1>2, ReservationIsBounded
  <1>3. CASE Execute \/ Respond
    BY <1>3, ExecutionIsBounded, AnswerIsBounded
  <1>4. CASE Refill \/ StartupRecovered \/ Settle
    BY <1>4, PageIsBounded, MaintenanceIsBounded
  <1>5. CASE \E r \in Reply : \/ BecomeDue(r) \/ RecoverExpiredClaim(r) \/ ManualRetry(r)
                              \/ ManualDismiss(r) \/ ProviderApplies(r)
    BY <1>5, RowIsBounded
  <1>6. CASE CutoverReset \/ Crash \/ Start
    BY <1>6, LifeIsBounded
  <1> QED BY <1>1, <1>2, <1>3, <1>4, <1>5, <1>6 DEF Next, Tick

LEMMA InitIsBounded == Init => Bounded
  <1> SUFFICES ASSUME Init PROVE Bounded
    OBVIOUS
  <1>1. EmptyRow.tries = 0 /\ EmptyRow.st = "none"
    BY DEF EmptyRow
  <1>2. \A r \in Reply : AttemptsFit(r)
    BY <1>1, DeliveryAssumption DEF Init, AttemptsFit
  <1>3. CacheFits
    BY DeliveryAssumption DEF Init, CacheFits
  <1> QED BY <1>2, <1>3 DEF Init, Bounded

\* The cache never exceeds its item limit and keeps its replies in order, and no reply is attempted
\* more often than the policy allows (PreparedDeliveryRing.offer, the failure transition).
THEOREM LimitsHold == Spec => []Bounded
  BY InvariantHolds, InitIsBounded, StepKeepsBounds, PTL DEF Spec

\* Every reachable row, lane, checkpoint, cache and execution has its type, within the limits of
\* the Ring, of the retry policy and of the replies there are.
THEOREM TypeCorrect == Spec => []TypeOK
  <1>1. IInv /\ Bounded => TypeOK
    <2> SUFFICES ASSUME IInv, Bounded PROVE TypeOK
      OBVIOUS
    <2>1. Shape
      BY DEF IInv
    <2>2. row \in [Reply -> [kind : AllKinds \cup {"none", "review"},
                             st : {"none", "pending", "delivered", "dead_letter", "dismissed"},
                             claimed : BOOLEAN, tries : 0..Attempts,
                             why : {"none", "permanent", "transient", "rejected", "uncertain"},
                             due : BOOLEAN, ckpt : BOOLEAN, epoch : Nat]]
      <3>1. \A r \in Reply : row[r] \in RowType /\ row[r].tries <= Attempts
        BY <2>1 DEF Shape, Bounded, AttemptsFit
      <3>2. ASSUME NEW r \in Reply PROVE row[r].tries \in 0..Attempts
        <4>1. row[r].tries \in Nat /\ row[r].tries <= Attempts /\ Attempts \in Nat
          BY <3>1, DeliveryAssumption DEF RowType
        <4> QED BY <4>1
      <3> QED BY <2>1, <3>1, <3>2 DEF Shape, RowType, Kinds, States, Reasons
    <2>3. ckp \in 0..2 * MaxUsers
      <3>1. PICK n \in Nat : n = Cardinality(Used)
        BY CardinalityOfUsed
      <3>2. ckp \in Int /\ ckp <= n /\ ckp >= 0 /\ Used = 1..n
        BY <3>1 DEF IInv, CheckpointIsGiven, OrdersAreDense, Bounded
      <3>3. n <= 2 * MaxUsers
        <4>1. CASE n = 0
          BY <4>1, DeliveryAssumption
        <4>2. CASE n # 0
          <5>1. n \in Reply
            BY <3>2, <4>2 DEF Used
          <5> QED BY <5>1, DeliveryAssumption DEF Reply
        <4> QED BY <4>1, <4>2
      <3> QED BY <3>2, <3>3, DeliveryAssumption
    <2>4. ring \in Seq(Reply) /\ Len(ring) <= RingLimit /\ eng \in {"down", "starting", "running"}
      BY <2>1 DEF Shape, Bounded, CacheFits
    <2>5. /\ direct \in [r : Reply \cup {NoReply}, token : BOOLEAN]
          /\ exec \in [at : {"idle", "create", "send"}, r : Reply \cup {NoReply}, lost : BOOLEAN]
          /\ q \in [Lane -> [on : BOOLEAN, isolated : BOOLEAN, failed : Reply \cup {NoReply},
                             review : Reply \cup {NoReply}]]
      BY <2>1 DEF Shape, DirectType, ExecType, LaneType
    <2> QED BY <2>1, <2>2, <2>3, <2>4, <2>5 DEF TypeOK, Shape
  <1> QED BY <1>1, InvariantHolds, LimitsHold, PTL
=============================================================================
