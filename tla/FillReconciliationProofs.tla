----------------------- MODULE FillReconciliationProofs -----------------------
(***************************************************************************)
(* Proofs about FillReconciliation, for any number of orders, any set of   *)
(* reconcilers and any limits, with every fault the model knows.           *)
(***************************************************************************)
EXTENDS FillReconciliation, TLAPS

\* An actor that has the message of an order in hand.
Holds(a, o) == act[a].pc \in {"send", "record", "release"} /\ act[a].cur = o

\* Whoever is about to write has something to write about.
InHand ==
  /\ act[Watcher].pc = "commit" => /\ act[Watcher].cur \in Orders
                                   /\ act[Watcher].change[act[Watcher].cur].new \in Status
  /\ \A a \in Actors : act[a].pc \in {"send", "record", "release"} => act[a].cur \in Orders

\* The watcher leaves a marker on settled orders only.
MarkerOnTerminal == \A o \in Orders : marker[o] = "pending" => local[o] \in Terminal

EffectsInv == TypeOK /\ InHand /\ MarkerOnTerminal /\ EffectsExactlyOnce

\* A terminal status the store or an actor knows is the broker's.
TerminalKnown ==
  /\ \A o \in Orders : local[o] \in Terminal => remote[o] = local[o]
  /\ \A a \in Actors, o \in Orders :
       /\ act[a].change[o].new \in Terminal => remote[o] = act[a].change[o].new
       /\ act[a].change[o].fin => local[o] \in Terminal

\* What is about to be announced is committed.
OnlyFilledInHand ==
  \A a \in Actors, o \in Orders : o \in act[a].out \/ Holds(a, o) => local[o] = "filled"

MessageInv == EffectsInv /\ TerminalKnown /\ OnlyFilledInHand /\ MessageAfterCommit

\* The claim of a message in hand stands, and nobody else has it.
OneClaimant ==
  \A a \in Actors, o \in Orders :
    Holds(a, o) => /\ claim[o] = "claimed"
                   /\ \A b \in Actors : Holds(b, o) => a = b

\* A message that arrived, and whose answer did, is not sent or released again.
DeliveredIsGuarded ==
  \A o \in Orders : delivered[o] > 0 /\ o \notin unanswered =>
    /\ o \in receipt \/ claim[o] = "claimed"
    /\ \A a \in Actors : Holds(a, o) => act[a].pc = "record"

ClaimInv == TypeOK /\ InHand /\ OneClaimant /\ DeliveredIsGuarded /\ TwiceOnlyUnanswered

-----------------------------------------------------------------------------
(* What the updates of an actor keep.                                      *)

\* Idle, and having found nothing, are states of an actor.
LEMMA FreshActor == Idle \in Actor /\ NoChange \in Change /\ Unread \in Row
<1>1. NoChange \in Change
  BY DEF NoChange, Change
<1>2. Unread \in Row
  BY DEF Unread, Row
<1> QED
  BY <1>1, <1>2 DEF Idle, Actor, Control

\* Moving on, and taking orders or a message in hand, keep an actor well formed.
LEMMA MovedActor ==
  ASSUME NEW e \in Actor, NEW p \in Control, NEW q \in Orders \cup {0}, NEW S \in SUBSET Orders
  PROVE  /\ [e EXCEPT !.pc = p] \in Actor
         /\ [e EXCEPT !.todo = S] \in Actor
         /\ [e EXCEPT !.out = S] \in Actor
         /\ [e EXCEPT !.pc = p, !.todo = S] \in Actor
         /\ [e EXCEPT !.pc = p, !.out = S] \in Actor
         /\ [e EXCEPT !.pc = p, !.cur = q] \in Actor
         /\ [e EXCEPT !.pc = p, !.cur = q, !.out = S] \in Actor
<1>1. [e EXCEPT !.pc = p] \in Actor
  BY DEF Actor
<1>2. [e EXCEPT !.todo = S] \in Actor
  BY DEF Actor
<1>3. [e EXCEPT !.out = S] \in Actor
  BY DEF Actor
<1>4. [e EXCEPT !.pc = p, !.todo = S] \in Actor
  BY DEF Actor
<1>5. [e EXCEPT !.pc = p, !.out = S] \in Actor
  BY DEF Actor
<1>6. [e EXCEPT !.pc = p, !.cur = q] \in Actor
  BY DEF Actor
<1>7. [e EXCEPT !.pc = p, !.cur = q, !.out = S] \in Actor
  BY DEF Actor
<1> QED
  BY <1>1, <1>2, <1>3, <1>4, <1>5, <1>6, <1>7

\* So does the broker's answer,
LEMMA ToldActor ==
  ASSUME NEW e \in Actor, NEW p \in Control, NEW o \in Orders, NEW S \in SUBSET Orders,
         NEW s \in Status \cup {"none"}
  PROVE  /\ [e EXCEPT !.pc = p, !.todo = S, !.cur = o, !.change[o].new = s] \in Actor
         /\ [e EXCEPT !.todo = S, !.change[o].new = s] \in Actor
<1> DEFINE c == [e.change EXCEPT ![o].new = s]
<1>1. c \in [Orders -> Change]
  BY DEF Actor, Change
<1>2. [e EXCEPT !.pc = p, !.todo = S, !.cur = o, !.change[o].new = s]
        = [e EXCEPT !.pc = p, !.todo = S, !.cur = o, !.change = c]
  BY DEF Actor
<1>3. [e EXCEPT !.todo = S, !.change[o].new = s] = [e EXCEPT !.todo = S, !.change = c]
  BY DEF Actor
<1> HIDE DEF c
<1>4. [e EXCEPT !.pc = p, !.todo = S, !.cur = o, !.change = c] \in Actor
  BY <1>1 DEF Actor
<1>5. [e EXCEPT !.todo = S, !.change = c] \in Actor
  BY <1>1 DEF Actor
<1> QED
  BY <1>2, <1>3, <1>4, <1>5

\* a commit that is over,
LEMMA ClearedActor ==
  ASSUME NEW e \in Actor, NEW p \in Control, NEW q \in Orders \cup {0},
         NEW o \in Orders, NEW S \in SUBSET Orders, NEW c \in Change
  PROVE  /\ [e EXCEPT !.pc = p, !.cur = q, !.change[o] = c, !.out = S] \in Actor
         /\ [e EXCEPT !.pc = p, !.cur = q, !.change[o] = c] \in Actor
<1>1. [e EXCEPT !.pc = p, !.cur = q, !.change[o] = c, !.out = S] \in Actor
  BY DEF Actor
<1>2. [e EXCEPT !.pc = p, !.cur = q, !.change[o] = c] \in Actor
  BY DEF Actor
<1> QED
  BY <1>1, <1>2

\* and the start of a pass.
LEMMA PassBegun ==
  ASSUME NEW e \in Actor, NEW p \in Control, NEW S \in SUBSET Orders,
         NEW f \in [Orders -> Row], NEW g \in [Orders -> Change]
  PROVE  [e EXCEPT !.pc = p, !.todo = S, !.seen = f, !.change = g] \in Actor
BY DEF Actor

\* One actor moves, the others stay.
LEMMA OneMoves ==
  ASSUME act \in [Actors -> Actor], NEW a \in Actors, NEW e \in Actor, Becomes(a, e)
  PROVE  /\ act' \in [Actors -> Actor]
         /\ act'[a] = e
         /\ \A b \in Actors : b # a => act'[b] = act[b]
BY DEF Becomes

-----------------------------------------------------------------------------

\* If one actor moves to a state that has what its next step writes, all have.
LEMMA ShapeKept ==
  ASSUME TypeOK, InHand, NEW a \in Actors, NEW e \in Actor, Becomes(a, e),
         a = Watcher /\ e.pc = "commit" => e.cur \in Orders /\ e.change[e.cur].new \in Status,
         e.pc \in {"send", "record", "release"} => e.cur \in Orders
  PROVE  act' \in [Actors -> Actor] /\ InHand'
<1>1. act \in [Actors -> Actor]
  BY DEF TypeOK
<1>2. /\ act' \in [Actors -> Actor]
      /\ act'[a] = e
      /\ \A b \in Actors : b # a => act'[b] = act[b]
  BY <1>1, OneMoves
<1>3. Watcher \in Actors
  BY DEF Actors
<1> QED
  BY <1>2, <1>3 DEF InHand

\* A change of no row asks for nothing; any other names a status.
LEMMA RealChange ==
  ASSUME NEW c \in Change, c # NoChange, ~c.fin
  PROVE  c.new \in Status
<1>1. c = [new |-> c.new, fin |-> c.fin]
  BY Zenon DEF Change
<1>2. c.fin = FALSE
  BY DEF Change
<1>3. c.new # "none"
  BY <1>1, <1>2 DEF NoChange
<1> QED
  BY <1>3 DEF Change

\* An idle actor has nothing in hand.
LEMMA IdleHolds == Idle.pc = "idle"
BY DEF Idle

\* The shape of the state: every row and every actor keeps its type, and an
\* actor that is about to write has an order to write about.
LEMMA ShapeHolds == Spec => [](TypeOK /\ InHand)
<1>1. Init => TypeOK /\ InHand
  <2> SUFFICES ASSUME Init PROVE TypeOK /\ InHand
    OBVIOUS
  <2>1. act = [a \in Actors |-> Idle]
    BY DEF Init
  <2>2. Watcher \in Actors
    BY DEF Actors
  <2>3. InHand
    BY <2>1, <2>2 DEF InHand, Idle
  <2>4. TypeOK
    BY <2>1, FreshActor DEF Init, TypeOK, Status
  <2> QED
    BY <2>3, <2>4
<1>2. TypeOK /\ InHand /\ [Next]_vars => (TypeOK /\ InHand)'
  <2> SUFFICES ASSUME TypeOK, InHand, [Next]_vars
               PROVE  (TypeOK /\ InHand)'
    OBVIOUS
  <2> DEFINE Goal == (TypeOK /\ InHand)'
  <2>a. Watcher \in Actors /\ Reconcilers \subseteq Actors /\ Watcher \notin Reconcilers
    BY ActorsAssumption DEF Actors
  <2>b. /\ \A a \in Actors : act[a] \in Actor
        /\ \A a \in Actors : act[a].todo \subseteq Orders /\ act[a].out \subseteq Orders
        /\ failed \subseteq Orders
    BY DEF TypeOK, Actor
  <2> USE <2>a, <2>b
  <2>1. ASSUME NEW o \in Orders, NEW s \in Status, BrokerStep(o, s) PROVE Goal
    BY <2>1 DEF BrokerStep, TypeOK, InHand, rows, messages
  <2>2. CASE Crash
    BY <2>2, FreshActor, IdleHolds DEF Crash, TypeOK, InHand, rows, messages
  <2>3. CASE ReadPending
    <3> DEFINE e == [act[Watcher] EXCEPT !.pc = "retries",
                                         !.todo = Oldest(WatchLimit, WatchPending)]
    <3>1. e \in Actor
      BY <2>3, MovedActor, Zenon DEF ReadPending, Oldest, WatchPending, Control
    <3>2. Becomes(Watcher, e)
      BY <2>3, Zenon DEF ReadPending
    <3>3. /\ e.pc = "commit" => e.cur \in Orders /\ e.change[e.cur].new \in Status
          /\ e.pc \in {"send", "record", "release"} => e.cur \in Orders
      BY <2>3 DEF ReadPending, Actor, At, InHand
    <3> HIDE DEF e
    <3>4. act' \in [Actors -> Actor] /\ InHand'
      BY <3>1, <3>2, <3>3, ShapeKept
    <3> QED
      BY <2>3, <3>4 DEF ReadPending, TypeOK, rows, messages
  <2>4. CASE ReadRetryable
    <3> DEFINE e == [act[Watcher] EXCEPT !.pc = "publish",
                                         !.out = Oldest(WatchLimit, Retryable)]
    <3>1. e \in Actor
      BY <2>4, MovedActor, Zenon DEF ReadRetryable, Oldest, Retryable, Control
    <3>2. Becomes(Watcher, e)
      BY <2>4, Zenon DEF ReadRetryable
    <3>3. /\ e.pc = "commit" => e.cur \in Orders /\ e.change[e.cur].new \in Status
          /\ e.pc \in {"send", "record", "release"} => e.cur \in Orders
      BY <2>4 DEF ReadRetryable, Actor, At, InHand
    <3> HIDE DEF e
    <3>4. act' \in [Actors -> Actor] /\ InHand'
      BY <3>1, <3>2, <3>3, ShapeKept
    <3> QED
      BY <2>4, <3>4 DEF ReadRetryable, TypeOK, rows, messages
  <2>5. ASSUME NEW o \in Orders, WatchPoll(o) PROVE Goal
    <3> DEFINE e == [act[Watcher] EXCEPT !.pc = "commit", !.todo = @ \ {o}, !.cur = o,
                                         !.change[o].new = remote[o]]
    <3>0. /\ act[Watcher] \in Actor
          /\ "commit" \in Control
          /\ act[Watcher].todo \ {o} \in SUBSET Orders
          /\ remote[o] \in Status \cup {"none"}
      BY <2>5 DEF WatchPoll, TypeOK, Control
    <3>1. e \in Actor
      BY <3>0, ToldActor, Zenon
    <3>2. Becomes(Watcher, e)
      BY <2>5, Zenon DEF WatchPoll
    <3>3. /\ e.pc = "commit" => e.cur \in Orders /\ e.change[e.cur].new \in Status
          /\ e.pc \in {"send", "record", "release"} => e.cur \in Orders
      BY <2>5 DEF WatchPoll, Actor, At, InHand, Change, TypeOK
    <3> HIDE DEF e
    <3>4. act' \in [Actors -> Actor] /\ InHand'
      BY <3>1, <3>2, <3>3, ShapeKept
    <3> QED
      BY <2>5, <3>4 DEF WatchPoll, TypeOK, rows, messages
  <2>6. CASE Commit
    <3> DEFINE o == act[Watcher].cur
               s == act[Watcher].change[o].new
               T == IF s # local[o] /\ local[o] \notin Terminal /\ s = "filled" THEN {o} ELSE {}
               e == [act[Watcher] EXCEPT !.pc = "publish", !.cur = 0,
                                         !.change[o] = NoChange, !.out = T]
    <3>1. o \in Orders /\ s \in Status
      BY <2>6 DEF Commit, At, InHand
    <3>a. T \in SUBSET Orders
      BY <3>1
    <3> HIDE DEF o, s, T
    <3>2. e \in Actor
      BY <3>1, <3>a, ClearedActor, FreshActor, Zenon DEF Control
    <3> USE DEF o, s, T
    <3>3. Becomes(Watcher, e)
      BY <2>6, Zenon DEF Commit
    <3>4. e.pc = "publish"
      BY DEF Actor
    <3> HIDE DEF e
    <3>5. act' \in [Actors -> Actor] /\ InHand'
      BY <3>2, <3>3, <3>4, ShapeKept
    <3> QED
      BY <2>6, <3>1, <3>5 DEF Commit, TypeOK, messages
  <2>7. CASE CommitRaises
    <3> DEFINE e == [act[Watcher] EXCEPT !.pc = "poll", !.cur = 0,
                                         !.change[act[Watcher].cur] = NoChange]
    <3>1. e \in Actor
      BY <2>7, ClearedActor, FreshActor, Zenon DEF CommitRaises, At, InHand, Control
    <3>2. Becomes(Watcher, e)
      BY <2>7, Zenon DEF CommitRaises
    <3>3. /\ e.pc = "commit" => e.cur \in Orders /\ e.change[e.cur].new \in Status
          /\ e.pc \in {"send", "record", "release"} => e.cur \in Orders
      BY <2>7 DEF CommitRaises, Actor, At, InHand
    <3> HIDE DEF e
    <3>4. act' \in [Actors -> Actor] /\ InHand'
      BY <3>1, <3>2, <3>3, ShapeKept
    <3> QED
      BY <2>7, <3>4 DEF CommitRaises, TypeOK, rows, messages
  <2>8. CASE WatchEnds
    <3>1. Becomes(Watcher, Idle)
      BY <2>8 DEF WatchEnds
    <3>2. act' \in [Actors -> Actor] /\ InHand'
      BY <3>1, FreshActor, ShapeKept, IdleHolds
    <3> QED
      BY <2>8, <3>2 DEF WatchEnds, TypeOK, rows, messages
  <2>9. ASSUME NEW a \in Actors, NEW o \in Orders, PollFails(a, o) PROVE Goal
    <3> DEFINE e == [act[a] EXCEPT !.todo = @ \ {o}]
    <3>1. e \in Actor
      BY <2>9, MovedActor, Zenon DEF PollFails, Control
    <3>2. Becomes(a, e)
      BY <2>9, Zenon DEF PollFails
    <3>3. /\ a = Watcher /\ e.pc = "commit" => e.cur \in Orders /\ e.change[e.cur].new \in Status
          /\ e.pc \in {"send", "record", "release"} => e.cur \in Orders
      BY <2>9 DEF PollFails, Actor, At, InHand
    <3> HIDE DEF e
    <3>4. act' \in [Actors -> Actor] /\ InHand'
      BY <3>1, <3>2, <3>3, ShapeKept
    <3> QED
      BY <2>9, <3>4 DEF PollFails, TypeOK, rows, messages
  <2>10. ASSUME NEW r \in Reconcilers, ReadOrders(r) PROVE Goal
    <3>1. PICK S \in SUBSET Orders, f \in [Orders -> Row], g \in [Orders -> Change] :
            Becomes(r, [act[r] EXCEPT !.pc = "poll", !.todo = S, !.seen = f, !.change = g])
      <4> DEFINE found == Newest(ReconLimit, ReconPending)
                 local_only == {o \in found : marker[o] = "pending"}
                 f == [o \in Orders |-> IF o \in found \ local_only
                         THEN [status |-> local[o], history |-> history[o]] ELSE Unread]
                 g == [o \in Orders |-> IF o \in local_only
                         THEN [new |-> local[o], fin |-> TRUE] ELSE NoChange]
      <4>1. f \in [Orders -> Row]
        BY FreshActor DEF Row, TypeOK
      <4>2. g \in [Orders -> Change]
        BY FreshActor DEF Change, TypeOK
      <4>3. found \ local_only \subseteq Orders
        BY DEF Newest, ReconPending
      <4>4. Becomes(r, [act[r] EXCEPT !.pc = "poll", !.todo = found \ local_only,
                                      !.seen = f, !.change = g])
        BY <2>10 DEF ReadOrders
      <4> HIDE DEF f, g, found, local_only
      <4> QED
        BY <4>1, <4>2, <4>3, <4>4
    <3> DEFINE e == [act[r] EXCEPT !.pc = "poll", !.todo = S, !.seen = f, !.change = g]
    <3>2. e \in Actor
      BY PassBegun, Zenon DEF Control
    <3>3. e.pc = "poll"
      BY DEF Actor
    <3>4. Becomes(r, e)
      BY <3>1
    <3> HIDE DEF e
    <3>5. act' \in [Actors -> Actor] /\ InHand'
      BY <3>2, <3>3, <3>4, ShapeKept
    <3> QED
      BY <2>10, <3>5 DEF ReadOrders, TypeOK, rows, messages
  <2>11. ASSUME NEW r \in Reconcilers, NEW o \in Orders, ReconPoll(r, o) PROVE Goal
    <3> DEFINE s == IF remote[o] # act[r].seen[o].status THEN remote[o] ELSE act[r].change[o].new
               e == [act[r] EXCEPT !.todo = @ \ {o}, !.change[o].new = s]
    <3>1. s \in Status \cup {"none"}
      BY DEF Actor, Change, TypeOK
    <3>a. /\ act[r] \in Actor
          /\ "poll" \in Control
          /\ act[r].todo \ {o} \in SUBSET Orders
      BY DEF Control
    <3>2. e \in Actor
      <4> HIDE DEF s
      <4> QED
        BY <3>1, <3>a, ToldActor, Zenon
    <3>3. Becomes(r, e)
      <4>1. [act[r] EXCEPT !.todo = @ \ {o}, !.change[o].new =
               IF remote[o] # act[r].seen[o].status THEN remote[o] ELSE @] = e
        BY DEF Actor
      <4> QED
        BY <2>11, <4>1 DEF ReconPoll
    <3>4. e.pc = "poll"
      BY <2>11 DEF Actor, ReconPoll, At
    <3> HIDE DEF e
    <3>5. act' \in [Actors -> Actor] /\ InHand'
      BY <3>2, <3>3, <3>4, ShapeKept
    <3> QED
      BY <2>11, <3>5 DEF ReconPoll, TypeOK, rows, messages
  <2>12. ASSUME NEW r \in Reconcilers, Apply(r) PROVE Goal
    <3> DEFINE e == [Idle EXCEPT !.pc = AfterApply(r), !.out = Announced(r)]
    <3>1. AfterApply(r) \in {"learn", "publish"} /\ Announced(r) \in SUBSET Orders
      BY DEF AfterApply, Announced
    <3>2. e \in Actor
      BY <3>1, FreshActor, MovedActor, Zenon DEF Control
    <3>3. e.pc \in {"learn", "publish"}
      BY <3>1 DEF Idle
    <3>4. Becomes(r, e)
      BY <2>12, Zenon DEF Apply
    <3> HIDE DEF e
    <3>5. act' \in [Actors -> Actor] /\ InHand'
      BY <3>2, <3>3, <3>4, ShapeKept
    <3>6. \A o \in Overwritten(r) : act[r].change[o].new \in Status
      BY RealChange DEF Overwritten, Changed, Actor
    <3>7. local' \in [Orders -> Status]
      BY <2>12, <3>6 DEF Apply, TypeOK
    <3>8. \A o \in Orders : act[r].seen[o].history \subseteq Status
      BY DEF Actor, Row
    <3>9. history' \in [Orders -> SUBSET Status]
      BY <2>12, <3>6, <3>8 DEF Apply, TypeOK
    <3>10. marker' \in [Orders -> {"none", "pending", "applied"}]
      BY <2>12 DEF Apply, MarkerAfter, TypeOK
    <3>11. effects' \in [Orders -> 0 .. 2]
      BY <2>12 DEF Apply, Again, TypeOK
    <3> QED
      BY <2>12, <3>5, <3>7, <3>9, <3>10, <3>11 DEF Apply, TypeOK, messages
  <2>13. ASSUME NEW r \in Reconcilers, ApplyRaises(r) PROVE Goal
    <3>1. Becomes(r, Idle)
      BY <2>13 DEF ApplyRaises
    <3>2. act' \in [Actors -> Actor] /\ InHand'
      BY <3>1, FreshActor, ShapeKept, IdleHolds
    <3> QED
      BY <2>13, <3>2 DEF ApplyRaises, TypeOK, rows, messages
  <2>14. ASSUME NEW r \in Reconcilers, Learn(r) PROVE Goal
    <3> DEFINE e == [act[r] EXCEPT !.pc = "publish"]
    <3>1. e \in Actor
      BY <2>14, MovedActor, Zenon DEF Learn, Control
    <3>2. Becomes(r, e)
      BY <2>14, Zenon DEF Learn
    <3>3. /\ r = Watcher /\ e.pc = "commit" => e.cur \in Orders /\ e.change[e.cur].new \in Status
          /\ e.pc \in {"send", "record", "release"} => e.cur \in Orders
      BY <2>14 DEF Learn, Actor, At, InHand
    <3> HIDE DEF e
    <3>4. act' \in [Actors -> Actor] /\ InHand'
      BY <3>1, <3>2, <3>3, ShapeKept
    <3> QED
      BY <2>14, <3>4 DEF Learn, TypeOK, rows, messages
  <2>15. ASSUME NEW r \in Reconcilers, LearnRaises(r) PROVE Goal
    <3>1. Becomes(r, Idle)
      BY <2>15 DEF LearnRaises
    <3>2. act' \in [Actors -> Actor] /\ InHand'
      BY <3>1, FreshActor, ShapeKept, IdleHolds
    <3> QED
      BY <2>15, <3>2 DEF LearnRaises, TypeOK, rows, messages
  <2>16. ASSUME NEW a \in Actors, Published(a) PROVE Goal
    <3> DEFINE e == IF a = Watcher THEN [act[a] EXCEPT !.pc = "poll"] ELSE Idle
    <3>1. e \in Actor
      BY MovedActor, FreshActor, Zenon DEF Control
    <3>2. e.pc \in {"poll", "idle"}
      BY DEF Actor, Idle
    <3>3. Becomes(a, e)
      BY <2>16, Zenon DEF Published
    <3> HIDE DEF e
    <3>4. act' \in [Actors -> Actor] /\ InHand'
      BY <3>1, <3>2, <3>3, ShapeKept
    <3> QED
      BY <2>16, <3>4 DEF Published, TypeOK, rows, messages
  <2>17. ASSUME NEW a \in Actors, NEW o \in Orders, Claim(a, o) PROVE Goal
    <3> DEFINE e == IF Free(o) THEN [act[a] EXCEPT !.pc = "send", !.cur = o,
                                                   !.out = @ \ {o}]
                        ELSE [act[a] EXCEPT !.out = @ \ {o}]
    <3>1. e \in Actor
      BY MovedActor, Zenon DEF Control
    <3>2. /\ a = Watcher => e.pc # "commit"
          /\ e.pc \in {"send", "record", "release"} => e.cur \in Orders
      BY <2>17 DEF Claim, Actor, At
    <3>3. Becomes(a, e)
      BY <2>17, Zenon DEF Claim
    <3> HIDE DEF e
    <3>4. act' \in [Actors -> Actor] /\ InHand'
      BY <3>1, <3>2, <3>3, ShapeKept
    <3> QED
      BY <2>17, <3>4 DEF Claim, TypeOK, rows
  <2>18. ASSUME NEW a \in Actors, ClaimRaises(a) PROVE Goal
    <3>1. Becomes(a, Idle)
      BY <2>18 DEF ClaimRaises
    <3>2. act' \in [Actors -> Actor] /\ InHand'
      BY <3>1, FreshActor, ShapeKept, IdleHolds
    <3> QED
      BY <2>18, <3>2 DEF ClaimRaises, TypeOK, rows, messages
  <2>19. ASSUME NEW a \in Actors, SendAccepted(a) PROVE Goal
    <3> DEFINE e == [act[a] EXCEPT !.pc = "record"]
    <3>1. e \in Actor
      BY <2>19, MovedActor, Zenon DEF SendAccepted, Again, Control
    <3>2. Becomes(a, e)
      BY <2>19, Zenon DEF SendAccepted
    <3>3. /\ a = Watcher /\ e.pc = "commit" => e.cur \in Orders /\ e.change[e.cur].new \in Status
          /\ e.pc \in {"send", "record", "release"} => e.cur \in Orders
      BY <2>19 DEF SendAccepted, Actor, At, InHand
    <3> HIDE DEF e
    <3>4. act' \in [Actors -> Actor] /\ InHand'
      BY <3>1, <3>2, <3>3, ShapeKept
    <3>5. act[a].cur \in Orders
      BY <2>19 DEF SendAccepted, At, InHand
    <3> QED
      BY <2>19, <3>4, <3>5 DEF SendAccepted, TypeOK, rows, messages, Again
  <2>20. ASSUME NEW a \in Actors, SendRejected(a) PROVE Goal
    <3> DEFINE e == [act[a] EXCEPT !.pc = "release"]
    <3>1. e \in Actor
      BY <2>20, MovedActor, Zenon DEF SendRejected, Control
    <3>2. Becomes(a, e)
      BY <2>20, Zenon DEF SendRejected
    <3>3. /\ a = Watcher /\ e.pc = "commit" => e.cur \in Orders /\ e.change[e.cur].new \in Status
          /\ e.pc \in {"send", "record", "release"} => e.cur \in Orders
      BY <2>20 DEF SendRejected, Actor, At, InHand
    <3> HIDE DEF e
    <3>4. act' \in [Actors -> Actor] /\ InHand'
      BY <3>1, <3>2, <3>3, ShapeKept
    <3> QED
      BY <2>20, <3>4 DEF SendRejected, TypeOK, rows, messages
  <2>21. ASSUME NEW a \in Actors, SendAnswerLost(a) PROVE Goal
    <3> DEFINE e == [act[a] EXCEPT !.pc = "release"]
    <3>1. e \in Actor
      BY <2>21, MovedActor, Zenon DEF SendAnswerLost, Again, Control
    <3>2. Becomes(a, e)
      BY <2>21, Zenon DEF SendAnswerLost
    <3>3. /\ a = Watcher /\ e.pc = "commit" => e.cur \in Orders /\ e.change[e.cur].new \in Status
          /\ e.pc \in {"send", "record", "release"} => e.cur \in Orders
      BY <2>21 DEF SendAnswerLost, Actor, At, InHand
    <3> HIDE DEF e
    <3>4. act' \in [Actors -> Actor] /\ InHand'
      BY <3>1, <3>2, <3>3, ShapeKept
    <3>5. act[a].cur \in Orders
      BY <2>21 DEF SendAnswerLost, At, InHand
    <3> QED
      BY <2>21, <3>4, <3>5 DEF SendAnswerLost, TypeOK, rows, messages, Again
  <2>22. ASSUME NEW a \in Actors, Record(a) PROVE Goal
    <3> DEFINE e == [act[a] EXCEPT !.pc = "publish", !.cur = 0]
    <3>1. e \in Actor
      BY <2>22, MovedActor, Zenon DEF Record, NextMessage, Control
    <3>2. Becomes(a, e)
      BY <2>22, Zenon DEF Record, NextMessage
    <3>3. /\ a = Watcher /\ e.pc = "commit" => e.cur \in Orders /\ e.change[e.cur].new \in Status
          /\ e.pc \in {"send", "record", "release"} => e.cur \in Orders
      BY <2>22 DEF Record, Actor, At, InHand
    <3> HIDE DEF e
    <3>4. act' \in [Actors -> Actor] /\ InHand'
      BY <3>1, <3>2, <3>3, ShapeKept
    <3>5. act[a].cur \in Orders
      BY <2>22 DEF Record, At, InHand
    <3> QED
      BY <2>22, <3>4, <3>5 DEF Record, TypeOK, rows, messages
  <2>23. ASSUME NEW a \in Actors, Release(a) PROVE Goal
    <3> DEFINE e == [act[a] EXCEPT !.pc = "publish", !.cur = 0]
    <3>1. e \in Actor
      BY <2>23, MovedActor, Zenon DEF Release, NextMessage, Control
    <3>2. Becomes(a, e)
      BY <2>23, Zenon DEF Release, NextMessage
    <3>3. /\ a = Watcher /\ e.pc = "commit" => e.cur \in Orders /\ e.change[e.cur].new \in Status
          /\ e.pc \in {"send", "record", "release"} => e.cur \in Orders
      BY <2>23 DEF Release, Actor, At, InHand
    <3> HIDE DEF e
    <3>4. act' \in [Actors -> Actor] /\ InHand'
      BY <3>1, <3>2, <3>3, ShapeKept
    <3>5. act[a].cur \in Orders
      BY <2>23 DEF Release, At, InHand
    <3> QED
      BY <2>23, <3>4, <3>5 DEF Release, TypeOK, rows, messages
  <2>24. ASSUME NEW a \in Actors, RecordOrReleaseRaises(a) PROVE Goal
    <3> DEFINE e == [act[a] EXCEPT !.pc = "publish", !.cur = 0]
    <3>1. e \in Actor
      BY <2>24, MovedActor, Zenon DEF RecordOrReleaseRaises, NextMessage, Control
    <3>2. Becomes(a, e)
      BY <2>24, Zenon DEF RecordOrReleaseRaises, NextMessage
    <3>3. /\ a = Watcher /\ e.pc = "commit" => e.cur \in Orders /\ e.change[e.cur].new \in Status
          /\ e.pc \in {"send", "record", "release"} => e.cur \in Orders
      BY <2>24 DEF RecordOrReleaseRaises, Actor, At, InHand
    <3> HIDE DEF e
    <3>4. act' \in [Actors -> Actor] /\ InHand'
      BY <3>1, <3>2, <3>3, ShapeKept
    <3> QED
      BY <2>24, <3>4 DEF RecordOrReleaseRaises, TypeOK, rows, messages
  <2>25. CASE UNCHANGED vars
    BY <2>25 DEF vars, rows, messages, TypeOK, InHand
  <2> QED
    BY <2>1, <2>2, <2>3, <2>4, <2>5, <2>6, <2>7, <2>8, <2>9, <2>10, <2>11, <2>12,
       <2>13, <2>14, <2>15, <2>16, <2>17, <2>18, <2>19, <2>20, <2>21, <2>22, <2>23, <2>24, <2>25
       DEF Next, Watch, Reconcile, Publish
<1> QED
  BY <1>1, <1>2, PTL DEF Spec

\* Every row and every actor keeps its type, whatever fails, crashes or is lost.
THEOREM FillTypeCorrect == Spec => []TypeOK
BY ShapeHolds, PTL

-----------------------------------------------------------------------------

\* A change an actor knows of was told by the broker or comes from a marked row.
ToldOrMarked(b, x) ==
  \/ act'[b].change[x] \in {act[b].change[x], NoChange}
  \/ /\ act'[b].change[x].new = remote[x]
     /\ act'[b].change[x].fin = act[b].change[x].fin
     /\ UNCHANGED <<remote, rows>>
  \/ /\ act'[b].change[x] = [new |-> local[x], fin |-> TRUE]
     /\ marker[x] = "pending"
     /\ UNCHANGED <<remote, rows>>

\* Every step tells an actor only what the broker or a marked row says.
LEMMA ChangesAreTold ==
  ASSUME TypeOK, [Next]_vars, NEW b \in Actors, NEW x \in Orders
  PROVE  ToldOrMarked(b, x)
<1>a. Watcher \in Actors /\ Reconcilers \subseteq Actors /\ Watcher \notin Reconcilers
  BY ActorsAssumption DEF Actors
<1>b. act \in [Actors -> Actor]
  BY DEF TypeOK
<1> USE <1>a, <1>b DEF Becomes, Actor, Idle, At, rows, ToldOrMarked
<1>1. ASSUME NEW o \in Orders, NEW s \in Status, BrokerStep(o, s)
      PROVE  ToldOrMarked(b, x)
  BY <1>1 DEF BrokerStep
<1>2. ASSUME Crash PROVE ToldOrMarked(b, x)
  BY <1>2 DEF Crash
<1>3. ASSUME ReadPending PROVE ToldOrMarked(b, x)
  BY <1>3 DEF ReadPending
<1>4. ASSUME ReadRetryable PROVE ToldOrMarked(b, x)
  BY <1>4 DEF ReadRetryable
<1>5. ASSUME NEW o \in Orders, WatchPoll(o) PROVE ToldOrMarked(b, x)
  BY <1>5 DEF WatchPoll, Change, NoChange
<1>6. ASSUME Commit PROVE ToldOrMarked(b, x)
  BY <1>6 DEF Commit
<1>7. ASSUME CommitRaises PROVE ToldOrMarked(b, x)
  BY <1>7 DEF CommitRaises
<1>8. ASSUME WatchEnds PROVE ToldOrMarked(b, x)
  BY <1>8 DEF WatchEnds
<1>9. ASSUME NEW a \in Actors, NEW o \in Orders, PollFails(a, o)
      PROVE  ToldOrMarked(b, x)
  BY <1>9 DEF PollFails
<1>10. ASSUME NEW r \in Reconcilers, ReadOrders(r) PROVE ToldOrMarked(b, x)
  BY <1>10 DEF ReadOrders, Change, NoChange
<1>11. ASSUME NEW r \in Reconcilers, NEW o \in Orders, ReconPoll(r, o)
      PROVE  ToldOrMarked(b, x)
  <2>1. CASE remote[o] # act[r].seen[o].status
    BY <1>11, <2>1 DEF ReconPoll, Change
  <2>2. CASE remote[o] = act[r].seen[o].status
    BY <1>11, <2>2 DEF ReconPoll, Change
  <2> QED
    BY <2>1, <2>2
<1>12. ASSUME NEW r \in Reconcilers, Apply(r) PROVE ToldOrMarked(b, x)
  BY <1>12 DEF Apply
<1>13. ASSUME NEW r \in Reconcilers, ApplyRaises(r) PROVE ToldOrMarked(b, x)
  BY <1>13 DEF ApplyRaises
<1>14. ASSUME NEW r \in Reconcilers, Learn(r) PROVE ToldOrMarked(b, x)
  BY <1>14 DEF Learn
<1>15. ASSUME NEW r \in Reconcilers, LearnRaises(r) PROVE ToldOrMarked(b, x)
  BY <1>15 DEF LearnRaises
<1>16. ASSUME NEW a \in Actors, Published(a) PROVE ToldOrMarked(b, x)
  BY <1>16 DEF Published
<1>17. ASSUME NEW a \in Actors, NEW o \in Orders, Claim(a, o) PROVE ToldOrMarked(b, x)
  <2>1. CASE Free(o)
    <3>1. Becomes(a, [act[a] EXCEPT !.pc = "send", !.cur = o, !.out = @ \ {o}])
      BY <1>17, <2>1 DEF Claim
    <3>2. a \in Actors /\ UNCHANGED <<remote, rows>>
      BY <1>17 DEF Claim
    <3> QED
      BY <3>1, <3>2
  <2>2. CASE ~Free(o)
    BY <1>17, <2>2 DEF Claim
  <2> QED
    BY <2>1, <2>2
<1>18. ASSUME NEW a \in Actors, ClaimRaises(a) PROVE ToldOrMarked(b, x)
  BY <1>18 DEF ClaimRaises
<1>19. ASSUME NEW a \in Actors, SendAccepted(a) PROVE ToldOrMarked(b, x)
  BY <1>19 DEF SendAccepted
<1>20. ASSUME NEW a \in Actors, SendRejected(a) PROVE ToldOrMarked(b, x)
  BY <1>20 DEF SendRejected
<1>21. ASSUME NEW a \in Actors, SendAnswerLost(a) PROVE ToldOrMarked(b, x)
  BY <1>21 DEF SendAnswerLost
<1>22. ASSUME NEW a \in Actors, Record(a) PROVE ToldOrMarked(b, x)
  BY <1>22 DEF Record, NextMessage
<1>23. ASSUME NEW a \in Actors, Release(a) PROVE ToldOrMarked(b, x)
  BY <1>23 DEF Release, NextMessage
<1>24. ASSUME NEW a \in Actors, RecordOrReleaseRaises(a) PROVE ToldOrMarked(b, x)
  BY <1>24 DEF RecordOrReleaseRaises, NextMessage
<1>25. ASSUME UNCHANGED vars PROVE ToldOrMarked(b, x)
  BY <1>25 DEF vars, messages
<1> HIDE DEF ToldOrMarked
<1> QED
  BY <1>1, <1>2, <1>3, <1>4, <1>5, <1>6, <1>7, <1>8, <1>9, <1>10, <1>11, <1>12,
     <1>13, <1>14, <1>15, <1>16, <1>17, <1>18, <1>19, <1>20, <1>21, <1>22, <1>23, <1>24, <1>25
     DEF Next, Watch, Reconcile, Publish

\* What an actor will announce it found failed, or moved itself.
FoundOrMoved(b, x) ==
  x \in act'[b].out =>
    \/ x \in act[b].out
    \/ x \in Retryable /\ UNCHANGED rows
    \/ local'[x] = "filled"
    \/ b \in Reconcilers /\ Apply(b) /\ x \in Announced(b)

\* Every step adds to an actor's list only what it found or moved.
LEMMA AnnouncedAreFound ==
  ASSUME TypeOK, [Next]_vars, NEW b \in Actors, NEW x \in Orders
  PROVE  FoundOrMoved(b, x)
<1>a. Watcher \in Actors /\ Reconcilers \subseteq Actors /\ Watcher \notin Reconcilers
  BY ActorsAssumption DEF Actors
<1>b. act \in [Actors -> Actor]
  BY DEF TypeOK
<1> USE <1>a, <1>b DEF Becomes, Actor, Idle, At, rows, FoundOrMoved
<1>1. ASSUME NEW o \in Orders, NEW s \in Status, BrokerStep(o, s)
      PROVE  FoundOrMoved(b, x)
  BY <1>1 DEF BrokerStep
<1>2. ASSUME Crash PROVE FoundOrMoved(b, x)
  BY <1>2 DEF Crash
<1>3. ASSUME ReadPending PROVE FoundOrMoved(b, x)
  BY <1>3 DEF ReadPending
<1>4. ASSUME ReadRetryable PROVE FoundOrMoved(b, x)
  BY <1>4 DEF ReadRetryable, Oldest
<1>5. ASSUME NEW o \in Orders, WatchPoll(o) PROVE FoundOrMoved(b, x)
  BY <1>5 DEF WatchPoll
<1>6. ASSUME Commit PROVE FoundOrMoved(b, x)
  <2>1. local \in [Orders -> Status]
    BY DEF TypeOK
  <2> QED
    BY <1>6, <2>1 DEF Commit
<1>7. ASSUME CommitRaises PROVE FoundOrMoved(b, x)
  BY <1>7 DEF CommitRaises
<1>8. ASSUME WatchEnds PROVE FoundOrMoved(b, x)
  BY <1>8 DEF WatchEnds
<1>9. ASSUME NEW a \in Actors, NEW o \in Orders, PollFails(a, o)
      PROVE  FoundOrMoved(b, x)
  BY <1>9 DEF PollFails
<1>10. ASSUME NEW r \in Reconcilers, ReadOrders(r) PROVE FoundOrMoved(b, x)
  BY <1>10 DEF ReadOrders
<1>11. ASSUME NEW r \in Reconcilers, NEW o \in Orders, ReconPoll(r, o)
      PROVE  FoundOrMoved(b, x)
  BY <1>11 DEF ReconPoll
<1>12. ASSUME NEW r \in Reconcilers, Apply(r) PROVE FoundOrMoved(b, x)
  BY <1>12 DEF Apply
<1>13. ASSUME NEW r \in Reconcilers, ApplyRaises(r) PROVE FoundOrMoved(b, x)
  BY <1>13 DEF ApplyRaises
<1>14. ASSUME NEW r \in Reconcilers, Learn(r) PROVE FoundOrMoved(b, x)
  BY <1>14 DEF Learn
<1>15. ASSUME NEW r \in Reconcilers, LearnRaises(r) PROVE FoundOrMoved(b, x)
  BY <1>15 DEF LearnRaises
<1>16. ASSUME NEW a \in Actors, Published(a) PROVE FoundOrMoved(b, x)
  BY <1>16 DEF Published
<1>17. ASSUME NEW a \in Actors, NEW o \in Orders, Claim(a, o) PROVE FoundOrMoved(b, x)
  <2>1. CASE Free(o)
    <3>1. Becomes(a, [act[a] EXCEPT !.pc = "send", !.cur = o, !.out = @ \ {o}])
      BY <1>17, <2>1 DEF Claim
    <3>2. a \in Actors /\ UNCHANGED <<remote, rows>>
      BY <1>17 DEF Claim
    <3> QED
      BY <3>1, <3>2
  <2>2. CASE ~Free(o)
    BY <1>17, <2>2 DEF Claim
  <2> QED
    BY <2>1, <2>2
<1>18. ASSUME NEW a \in Actors, ClaimRaises(a) PROVE FoundOrMoved(b, x)
  BY <1>18 DEF ClaimRaises
<1>19. ASSUME NEW a \in Actors, SendAccepted(a) PROVE FoundOrMoved(b, x)
  BY <1>19 DEF SendAccepted
<1>20. ASSUME NEW a \in Actors, SendRejected(a) PROVE FoundOrMoved(b, x)
  BY <1>20 DEF SendRejected
<1>21. ASSUME NEW a \in Actors, SendAnswerLost(a) PROVE FoundOrMoved(b, x)
  BY <1>21 DEF SendAnswerLost
<1>22. ASSUME NEW a \in Actors, Record(a) PROVE FoundOrMoved(b, x)
  BY <1>22 DEF Record, NextMessage
<1>23. ASSUME NEW a \in Actors, Release(a) PROVE FoundOrMoved(b, x)
  BY <1>23 DEF Release, NextMessage
<1>24. ASSUME NEW a \in Actors, RecordOrReleaseRaises(a) PROVE FoundOrMoved(b, x)
  BY <1>24 DEF RecordOrReleaseRaises, NextMessage
<1>25. ASSUME UNCHANGED vars PROVE FoundOrMoved(b, x)
  BY <1>25 DEF vars, messages
<1> HIDE DEF FoundOrMoved
<1> QED
  BY <1>1, <1>2, <1>3, <1>4, <1>5, <1>6, <1>7, <1>8, <1>9, <1>10, <1>11, <1>12,
     <1>13, <1>14, <1>15, <1>16, <1>17, <1>18, <1>19, <1>20, <1>21, <1>22, <1>23, <1>24, <1>25
     DEF Next, Watch, Reconcile, Publish

\* An actor takes a message in hand only to announce an order of its list.
TakenFromList(b, x) == Holds(b, x)' => Holds(b, x) \/ x \in act[b].out

\* Every message in hand comes from a list.
LEMMA HeldIsTakenUp ==
  ASSUME TypeOK, [Next]_vars, NEW b \in Actors, NEW x \in Orders
  PROVE  TakenFromList(b, x)
<1>a. Watcher \in Actors /\ Reconcilers \subseteq Actors /\ Watcher \notin Reconcilers
  BY ActorsAssumption DEF Actors
<1>b. act \in [Actors -> Actor]
  BY DEF TypeOK
<1> USE <1>a, <1>b DEF Becomes, Actor, Idle, At, Holds, TakenFromList
<1>1. ASSUME NEW o \in Orders, NEW s \in Status, BrokerStep(o, s)
      PROVE  TakenFromList(b, x)
  BY <1>1 DEF BrokerStep
<1>2. ASSUME Crash PROVE TakenFromList(b, x)
  BY <1>2 DEF Crash
<1>3. ASSUME ReadPending PROVE TakenFromList(b, x)
  BY <1>3 DEF ReadPending
<1>4. ASSUME ReadRetryable PROVE TakenFromList(b, x)
  BY <1>4 DEF ReadRetryable
<1>5. ASSUME NEW o \in Orders, WatchPoll(o) PROVE TakenFromList(b, x)
  BY <1>5 DEF WatchPoll
<1>6. ASSUME Commit PROVE TakenFromList(b, x)
  BY <1>6 DEF Commit
<1>7. ASSUME CommitRaises PROVE TakenFromList(b, x)
  BY <1>7 DEF CommitRaises
<1>8. ASSUME WatchEnds PROVE TakenFromList(b, x)
  BY <1>8 DEF WatchEnds
<1>9. ASSUME NEW a \in Actors, NEW o \in Orders, PollFails(a, o)
      PROVE  TakenFromList(b, x)
  BY <1>9 DEF PollFails
<1>10. ASSUME NEW r \in Reconcilers, ReadOrders(r) PROVE TakenFromList(b, x)
  BY <1>10 DEF ReadOrders
<1>11. ASSUME NEW r \in Reconcilers, NEW o \in Orders, ReconPoll(r, o)
      PROVE  TakenFromList(b, x)
  BY <1>11 DEF ReconPoll
<1>12. ASSUME NEW r \in Reconcilers, Apply(r) PROVE TakenFromList(b, x)
  BY <1>12 DEF Apply, AfterApply
<1>13. ASSUME NEW r \in Reconcilers, ApplyRaises(r) PROVE TakenFromList(b, x)
  BY <1>13 DEF ApplyRaises
<1>14. ASSUME NEW r \in Reconcilers, Learn(r) PROVE TakenFromList(b, x)
  BY <1>14 DEF Learn
<1>15. ASSUME NEW r \in Reconcilers, LearnRaises(r) PROVE TakenFromList(b, x)
  BY <1>15 DEF LearnRaises
<1>16. ASSUME NEW a \in Actors, Published(a) PROVE TakenFromList(b, x)
  BY <1>16 DEF Published
<1>17. ASSUME NEW a \in Actors, NEW o \in Orders, Claim(a, o) PROVE TakenFromList(b, x)
  <2>1. CASE Free(o)
    <3>1. Becomes(a, [act[a] EXCEPT !.pc = "send", !.cur = o, !.out = @ \ {o}])
      BY <1>17, <2>1 DEF Claim
    <3>2. a \in Actors /\ o \in act[a].out
      BY <1>17 DEF Claim
    <3> QED
      BY <3>1, <3>2
  <2>2. CASE ~Free(o)
    BY <1>17, <2>2 DEF Claim
  <2> QED
    BY <2>1, <2>2
<1>18. ASSUME NEW a \in Actors, ClaimRaises(a) PROVE TakenFromList(b, x)
  BY <1>18 DEF ClaimRaises
<1>19. ASSUME NEW a \in Actors, SendAccepted(a) PROVE TakenFromList(b, x)
  BY <1>19 DEF SendAccepted
<1>20. ASSUME NEW a \in Actors, SendRejected(a) PROVE TakenFromList(b, x)
  BY <1>20 DEF SendRejected
<1>21. ASSUME NEW a \in Actors, SendAnswerLost(a) PROVE TakenFromList(b, x)
  BY <1>21 DEF SendAnswerLost
<1>22. ASSUME NEW a \in Actors, Record(a) PROVE TakenFromList(b, x)
  BY <1>22 DEF Record, NextMessage
<1>23. ASSUME NEW a \in Actors, Release(a) PROVE TakenFromList(b, x)
  BY <1>23 DEF Release, NextMessage
<1>24. ASSUME NEW a \in Actors, RecordOrReleaseRaises(a) PROVE TakenFromList(b, x)
  BY <1>24 DEF RecordOrReleaseRaises, NextMessage
<1>25. ASSUME UNCHANGED vars PROVE TakenFromList(b, x)
  BY <1>25 DEF vars, messages
<1> HIDE DEF TakenFromList
<1> QED
  BY <1>1, <1>2, <1>3, <1>4, <1>5, <1>6, <1>7, <1>8, <1>9, <1>10, <1>11, <1>12,
     <1>13, <1>14, <1>15, <1>16, <1>17, <1>18, <1>19, <1>20, <1>21, <1>22, <1>23, <1>24, <1>25
     DEF Next, Watch, Reconcile, Publish

\* Only the two transactions of the reconciliation write the rows.
LEMMA RowsMove ==
  ASSUME [Next]_vars
  PROVE  UNCHANGED rows \/ Commit \/ \E r \in Reconcilers : Apply(r)
BY Zenon DEF Next, vars, Watch, Reconcile, Publish, BrokerStep, Crash, ReadPending,
       ReadRetryable, WatchPoll, CommitRaises, WatchEnds, PollFails, ReadOrders,
       ReconPoll, ApplyRaises, Learn, LearnRaises, Published, Claim, ClaimRaises,
       SendAccepted, SendRejected, SendAnswerLost, Record, Release,
       RecordOrReleaseRaises

\* A settled row keeps its status: both transactions look at it again.
LEMMA SettledStays ==
  ASSUME TypeOK, InHand, [Next]_vars, NEW x \in Orders, local[x] \in Terminal
  PROVE  local'[x] = local[x]
<1>0. local \in [Orders -> Status]
  BY DEF TypeOK
<1>1. CASE UNCHANGED rows
  BY <1>1 DEF rows
<1>2. CASE Commit
  BY <1>0, <1>2 DEF Commit
<1>3. ASSUME NEW r \in Reconcilers, Apply(r) PROVE local'[x] = local[x]
  <2>1. x \notin Overwritten(r)
    BY DEF Overwritten
  <2> QED
    BY <1>3, <2>1 DEF Apply
<1> QED
  BY <1>1, <1>2, <1>3, RowsMove

\* Whoever settles an order first wins, whatever the others read before.
THEOREM TerminalStays == Spec => TerminalIsFinal
<1>1. TypeOK /\ InHand /\ [Next]_vars
        => [\A o \in Orders : local[o] \in Terminal => local'[o] = local[o]]_vars
  BY SettledStays
<1> QED
  BY <1>1, ShapeHolds, PTL DEF Spec, TerminalIsFinal

\* The broker, too, settles an order once.
LEMMA BrokerSettlesOnce ==
  ASSUME TypeOK, [Next]_vars, NEW x \in Orders, remote[x] \in Terminal
  PROVE  remote'[x] = remote[x]
<1>0. remote \in [Orders -> Status]
  BY DEF TypeOK
<1>1. ASSUME NEW o \in Orders, NEW s \in Status, BrokerStep(o, s)
      PROVE  remote'[x] = remote[x]
  BY <1>0, <1>1 DEF BrokerStep
<1>2. UNCHANGED remote \/ \E o \in Orders, s \in Status : BrokerStep(o, s)
  BY Zenon DEF Next, vars, Watch, Reconcile, Publish, Crash, Commit, ReadPending,
         ReadRetryable, WatchPoll, CommitRaises, WatchEnds, PollFails, ReadOrders,
         ReconPoll, Apply, ApplyRaises, Learn, LearnRaises, Published, Claim,
         ClaimRaises, SendAccepted, SendRejected, SendAnswerLost, Record, Release,
         RecordOrReleaseRaises
<1> QED
  BY <1>1, <1>2

-----------------------------------------------------------------------------

\* The effects, and where a marker may stand.
LEMMA EffectsInvHolds == Spec => []EffectsInv
<1>1. Init => MarkerOnTerminal /\ EffectsExactlyOnce
  BY DEF Init, MarkerOnTerminal, EffectsExactlyOnce
<1>2. EffectsInv /\ [Next]_vars => (MarkerOnTerminal /\ EffectsExactlyOnce)'
  <2> SUFFICES ASSUME EffectsInv, [Next]_vars, NEW o \in Orders
               PROVE  /\ marker'[o] = "pending" => local'[o] \in Terminal
                      /\ effects'[o] = IF local'[o] = "filled" /\ marker'[o] # "pending"
                                       THEN 1 ELSE 0
    BY DEF MarkerOnTerminal, EffectsExactlyOnce
  <2> DEFINE Goal == /\ marker'[o] = "pending" => local'[o] \in Terminal
                     /\ effects'[o] = IF local'[o] = "filled" /\ marker'[o] # "pending"
                                      THEN 1 ELSE 0
  <2>a. /\ marker[o] = "pending" => local[o] \in Terminal
        /\ effects[o] = IF local[o] = "filled" /\ marker[o] # "pending" THEN 1 ELSE 0
    BY DEF EffectsInv, MarkerOnTerminal, EffectsExactlyOnce
  <2>1. CASE UNCHANGED rows
    BY <2>a, <2>1 DEF rows
  <2>2. CASE Commit
    <3>1. /\ act[Watcher].cur \in Orders
          /\ local \in [Orders -> Status]
          /\ marker \in [Orders -> {"none", "pending", "applied"}]
      BY <2>2 DEF Commit, At, EffectsInv, InHand, TypeOK
    <3> QED
      BY <2>a, <2>2, <3>1 DEF Commit, Terminal
  <2>3. ASSUME NEW r \in Reconcilers, Apply(r) PROVE Goal
    <3> DEFINE s == IF o \in Overwritten(r) THEN act[r].change[o].new ELSE local[o]
    <3>1. /\ local'[o] = s
          /\ marker'[o] = IF o \in Finalized(r) THEN "applied" ELSE marker[o]
          /\ effects'[o] = IF o \in Finalized(r) \cup Overwritten(r) /\ s = "filled"
                           THEN Again(effects[o]) ELSE effects[o]
      BY <2>3 DEF Apply, MarkerAfter
    <3>2. o \in Finalized(r) => marker[o] = "pending"
      BY DEF Finalized
    <3>3. o \in Overwritten(r) => local[o] \notin Terminal
      BY DEF Overwritten
    <3> HIDE DEF s
    <3>4. CASE o \in Finalized(r)
      <4>1. local[o] \in Terminal /\ o \notin Overwritten(r)
        BY <2>a, <3>2, <3>3, <3>4
      <4>2. s = local[o]
        BY <4>1 DEF s
      <4> QED
        BY <2>a, <3>1, <3>2, <3>4, <4>1, <4>2 DEF Again
    <3>5. CASE o \notin Finalized(r) /\ o \in Overwritten(r)
      BY <2>a, <3>1, <3>3, <3>5 DEF Again, Terminal
    <3>6. CASE o \notin Finalized(r) /\ o \notin Overwritten(r)
      <4>1. s = local[o]
        BY <3>6 DEF s
      <4> QED
        BY <2>a, <3>1, <3>6, <4>1
    <3> QED
      BY <3>4, <3>5, <3>6
  <2> QED
    BY <2>1, <2>2, <2>3, RowsMove
<1> QED
  BY <1>1, <1>2, ShapeHolds, PTL DEF Spec, EffectsInv

\* The execution of a fill is marked once, in the transaction that settles the
\* order or in the one that clears its marker, however the watcher and any
\* number of reconciliations interleave, crash or fail.
THEOREM EffectsOnce == Spec => []EffectsExactlyOnce
BY EffectsInvHolds, PTL DEF EffectsInv

-----------------------------------------------------------------------------

\* A terminal status that is stored or in an actor's hands stays the broker's.
LEMMA TerminalKnownStep ==
  ASSUME MessageInv, [Next]_vars
  PROVE  TerminalKnown'
<1> TypeOK /\ InHand /\ TerminalKnown /\ MarkerOnTerminal
  BY DEF MessageInv, EffectsInv
<1>1. ASSUME NEW o \in Orders, local'[o] \in Terminal PROVE remote'[o] = local'[o]
  <2> DEFINE Goal == remote'[o] = local'[o]
  <2>1. CASE local[o] \in Terminal
    BY <2>1, SettledStays, BrokerSettlesOnce DEF TerminalKnown
  <2>2. CASE local[o] \notin Terminal /\ UNCHANGED rows
    BY <1>1, <2>2 DEF rows
  <2>3. CASE Commit /\ local[o] \notin Terminal
    <3>1. act[Watcher].cur \in Orders /\ local \in [Orders -> Status] /\ Watcher \in Actors
      BY <2>3 DEF Commit, At, InHand, TypeOK, Actors
    <3>2. o = act[Watcher].cur /\ local'[o] = act[Watcher].change[o].new
      BY <1>1, <2>3, <3>1 DEF Commit
    <3> QED
      BY <1>1, <2>3, <3>1, <3>2 DEF TerminalKnown, Commit
  <2>4. ASSUME NEW r \in Reconcilers, Apply(r), local[o] \notin Terminal PROVE Goal
    <3>1. o \in Overwritten(r) /\ local'[o] = act[r].change[o].new
      BY <1>1, <2>4 DEF Apply
    <3>2. r \in Actors
      BY DEF Actors
    <3> QED
      BY <1>1, <2>4, <3>1, <3>2 DEF TerminalKnown, Apply
  <2> QED
    BY <2>1, <2>2, <2>3, <2>4, RowsMove
<1>2. ASSUME NEW a \in Actors, NEW o \in Orders
      PROVE  /\ act'[a].change[o].new \in Terminal => remote'[o] = act'[a].change[o].new
             /\ act'[a].change[o].fin => local'[o] \in Terminal
  <2>1. CASE act'[a].change[o] = act[a].change[o]
    BY <2>1, SettledStays, BrokerSettlesOnce DEF TerminalKnown
  <2>2. CASE act'[a].change[o] = NoChange
    BY <2>2 DEF NoChange, Terminal
  <2>3. CASE /\ act'[a].change[o].new = remote[o]
             /\ act'[a].change[o].fin = act[a].change[o].fin
             /\ UNCHANGED <<remote, rows>>
    BY <2>3 DEF TerminalKnown, rows
  <2>4. CASE /\ act'[a].change[o] = [new |-> local[o], fin |-> TRUE]
             /\ marker[o] = "pending"
             /\ UNCHANGED <<remote, rows>>
    BY <2>4 DEF TerminalKnown, MarkerOnTerminal, rows
  <2> QED
    BY <2>1, <2>2, <2>3, <2>4, ChangesAreTold DEF ToldOrMarked
<1> QED
  BY <1>1, <1>2 DEF TerminalKnown

\* What a reconciliation announces it committed, or another actor did.
LEMMA AnnouncedIsFilled ==
  ASSUME MessageInv, NEW r \in Reconcilers, Apply(r), NEW o \in Announced(r)
  PROVE  local'[o] = "filled"
<1>1. o \in Orders /\ act[r].change[o].new = "filled" /\ r \in Actors
  BY DEF Announced, Actors
<1>2. remote[o] = "filled" /\ (act[r].change[o].fin => local[o] \in Terminal)
  BY <1>1 DEF MessageInv, TerminalKnown, Terminal
<1>3. local'[o] = IF o \in Overwritten(r) THEN act[r].change[o].new ELSE local[o]
  BY <1>1 DEF Apply
<1>4. CASE o \in Overwritten(r)
  BY <1>1, <1>3, <1>4
<1>5. CASE o \notin Overwritten(r)
  <2>1. o \in Changed(r)
    BY <1>1 DEF Changed, NoChange
  <2>2. local[o] \in Terminal
    BY <1>2, <1>5, <2>1 DEF Overwritten
  <2> QED
    BY <1>1, <1>2, <1>3, <1>5, <2>2 DEF MessageInv, TerminalKnown
<1> QED
  BY <1>4, <1>5

\* Orders to announce are committed ones, and stay so.
LEMMA OnlyFilledInHandStep ==
  ASSUME MessageInv, [Next]_vars
  PROVE  OnlyFilledInHand'
<1> TypeOK /\ InHand /\ OnlyFilledInHand
  BY DEF MessageInv, EffectsInv
<1> SUFFICES ASSUME NEW a \in Actors, NEW o \in Orders, o \in act'[a].out \/ Holds(a, o)'
             PROVE  local'[o] = "filled"
  BY DEF OnlyFilledInHand
<1>0. local[o] = "filled" => local'[o] = "filled"
  BY SettledStays DEF Terminal
<1>1. CASE o \in act[a].out \/ Holds(a, o)
  BY <1>0, <1>1 DEF OnlyFilledInHand
<1>2. CASE o \in Retryable
  BY <1>0, <1>2 DEF Retryable
<1>3. CASE a \in Reconcilers /\ Apply(a) /\ o \in Announced(a)
  BY <1>3, AnnouncedIsFilled
<1> QED
  BY <1>1, <1>2, <1>3, AnnouncedAreFound, HeldIsTakenUp DEF FoundOrMoved, TakenFromList

\* A message leaves only while its order is in hand.
LEMMA SentWasHeld ==
  ASSUME TypeOK, InHand, [Next]_vars, NEW o \in Orders, delivered'[o] # delivered[o]
  PROVE  \E a \in Actors : Holds(a, o)
<1>0. delivered \in [Orders -> 0 .. 2]
  BY DEF TypeOK
<1>1. UNCHANGED delivered \/ \E a \in Actors : SendAccepted(a) \/ SendAnswerLost(a)
  BY Zenon DEF Next, vars, messages, Watch, Reconcile, Publish, Crash, Commit, ReadPending,
         ReadRetryable, WatchPoll, CommitRaises, WatchEnds, PollFails, ReadOrders,
         ReconPoll, Apply, ApplyRaises, Learn, LearnRaises, Published, Claim,
         ClaimRaises, SendRejected, Record, Release, RecordOrReleaseRaises,
         BrokerStep
<1>2. PICK a \in Actors : SendAccepted(a) \/ SendAnswerLost(a)
  BY <1>1
<1>3. act[a].cur = o /\ act[a].pc = "send"
  BY <1>0, <1>2 DEF SendAccepted, SendAnswerLost, At
<1> QED
  BY <1>3 DEF Holds

\* The order of the broker, the store and the chat.
LEMMA MessageInvHolds == Spec => []MessageInv
<1>1. Init => TerminalKnown /\ OnlyFilledInHand /\ MessageAfterCommit
  <2> SUFFICES ASSUME Init PROVE TerminalKnown /\ OnlyFilledInHand /\ MessageAfterCommit
    OBVIOUS
  <2>1. \A a \in Actors : act[a] = Idle
    BY DEF Init
  <2>2. \A o \in Orders : local[o] = "new" /\ delivered[o] = 0
    BY DEF Init
  <2> QED
    BY <2>1, <2>2
       DEF Idle, NoChange, TerminalKnown, OnlyFilledInHand, MessageAfterCommit,
           Holds, Terminal
<1>2. MessageInv /\ [Next]_vars => (TerminalKnown /\ OnlyFilledInHand)'
  BY TerminalKnownStep, OnlyFilledInHandStep
<1>3. MessageInv /\ [Next]_vars => MessageAfterCommit'
  <2> SUFFICES ASSUME MessageInv, [Next]_vars, NEW o \in Orders, delivered'[o] > 0
               PROVE  local'[o] = "filled"
    BY DEF MessageAfterCommit
  <2> TypeOK /\ InHand
    BY DEF MessageInv, EffectsInv
  <2>1. local[o] = "filled"
    BY SentWasHeld DEF MessageInv, OnlyFilledInHand, MessageAfterCommit
  <2> QED
    BY <2>1, SettledStays DEF Terminal
<1> QED
  BY <1>1, <1>2, <1>3, EffectsInvHolds, PTL DEF Spec, MessageInv

\* The chat never learns of a fill before the store, from whomever.
THEOREM MessageAfterCommitHolds == Spec => []MessageAfterCommit
BY MessageInvHolds, PTL DEF MessageInv

-----------------------------------------------------------------------------

\* The steps of a publication that deal with the message in hand.
Publishes(a) ==
  \/ \E o \in Orders : Claim(a, o)
  \/ SendAccepted(a) \/ SendRejected(a) \/ SendAnswerLost(a)
  \/ Record(a) \/ Release(a) \/ RecordOrReleaseRaises(a)

\* Every other step leaves the messages alone, in hand or not.
MessagesLeft(b, x) ==
  \/ \E c \in Actors : Publishes(c)
  \/ UNCHANGED messages /\ (Holds(b, x)' => Holds(b, x) /\ act'[b].pc = act[b].pc)

\* Steps other than a publication's leave the messages alone.
LEMMA OthersLeaveMessages ==
  ASSUME TypeOK, [Next]_vars, NEW b \in Actors, NEW x \in Orders
  PROVE  MessagesLeft(b, x)
<1>a. Watcher \in Actors /\ Reconcilers \subseteq Actors /\ Watcher \notin Reconcilers
  BY ActorsAssumption DEF Actors
<1>b. act \in [Actors -> Actor]
  BY DEF TypeOK
<1> USE <1>a, <1>b DEF Becomes, Actor, Idle, At, Holds, MessagesLeft
<1>1. ASSUME NEW o \in Orders, NEW s \in Status, BrokerStep(o, s)
      PROVE  MessagesLeft(b, x)
  BY <1>1 DEF BrokerStep
<1>2. ASSUME Crash PROVE MessagesLeft(b, x)
  BY <1>2 DEF Crash
<1>3. ASSUME ReadPending PROVE MessagesLeft(b, x)
  BY <1>3 DEF ReadPending
<1>4. ASSUME ReadRetryable PROVE MessagesLeft(b, x)
  BY <1>4 DEF ReadRetryable
<1>5. ASSUME NEW o \in Orders, WatchPoll(o) PROVE MessagesLeft(b, x)
  BY <1>5 DEF WatchPoll
<1>6. ASSUME Commit PROVE MessagesLeft(b, x)
  BY <1>6 DEF Commit
<1>7. ASSUME CommitRaises PROVE MessagesLeft(b, x)
  BY <1>7 DEF CommitRaises
<1>8. ASSUME WatchEnds PROVE MessagesLeft(b, x)
  BY <1>8 DEF WatchEnds
<1>9. ASSUME NEW a \in Actors, NEW o \in Orders, PollFails(a, o)
      PROVE  MessagesLeft(b, x)
  BY <1>9 DEF PollFails
<1>10. ASSUME NEW r \in Reconcilers, ReadOrders(r) PROVE MessagesLeft(b, x)
  BY <1>10 DEF ReadOrders
<1>11. ASSUME NEW r \in Reconcilers, NEW o \in Orders, ReconPoll(r, o)
      PROVE  MessagesLeft(b, x)
  BY <1>11 DEF ReconPoll
<1>12. ASSUME NEW r \in Reconcilers, Apply(r) PROVE MessagesLeft(b, x)
  BY <1>12 DEF Apply, AfterApply
<1>13. ASSUME NEW r \in Reconcilers, ApplyRaises(r) PROVE MessagesLeft(b, x)
  BY <1>13 DEF ApplyRaises
<1>14. ASSUME NEW r \in Reconcilers, Learn(r) PROVE MessagesLeft(b, x)
  BY <1>14 DEF Learn
<1>15. ASSUME NEW r \in Reconcilers, LearnRaises(r) PROVE MessagesLeft(b, x)
  BY <1>15 DEF LearnRaises
<1>16. ASSUME NEW a \in Actors, Published(a) PROVE MessagesLeft(b, x)
  BY <1>16 DEF Published
<1>17. ASSUME NEW a \in Actors, NEW o \in Orders, Claim(a, o) PROVE MessagesLeft(b, x)
  BY <1>17 DEF Publishes
<1>18. ASSUME NEW a \in Actors, ClaimRaises(a) PROVE MessagesLeft(b, x)
  BY <1>18 DEF ClaimRaises
<1>19. ASSUME NEW a \in Actors, SendAccepted(a) PROVE MessagesLeft(b, x)
  BY <1>19 DEF Publishes
<1>20. ASSUME NEW a \in Actors, SendRejected(a) PROVE MessagesLeft(b, x)
  BY <1>20 DEF Publishes
<1>21. ASSUME NEW a \in Actors, SendAnswerLost(a) PROVE MessagesLeft(b, x)
  BY <1>21 DEF Publishes
<1>22. ASSUME NEW a \in Actors, Record(a) PROVE MessagesLeft(b, x)
  BY <1>22 DEF Publishes
<1>23. ASSUME NEW a \in Actors, Release(a) PROVE MessagesLeft(b, x)
  BY <1>23 DEF Publishes
<1>24. ASSUME NEW a \in Actors, RecordOrReleaseRaises(a) PROVE MessagesLeft(b, x)
  BY <1>24 DEF Publishes
<1>25. ASSUME UNCHANGED vars PROVE MessagesLeft(b, x)
  BY <1>25 DEF vars, messages
<1> HIDE DEF MessagesLeft
<1> QED
  BY <1>1, <1>2, <1>3, <1>4, <1>5, <1>6, <1>7, <1>8, <1>9, <1>10, <1>11, <1>12,
     <1>13, <1>14, <1>15, <1>16, <1>17, <1>18, <1>19, <1>20, <1>21, <1>22, <1>23, <1>24, <1>25
     DEF Next, Watch, Reconcile, Publish

\* A step of a publication moves one actor; the others hold what they held.
LEMMA PublisherMoves ==
  ASSUME TypeOK, NEW a \in Actors, Publishes(a), NEW b \in Actors, b # a
  PROVE  act'[b] = act[b]
<1>1. act \in [Actors -> Actor]
  BY DEF TypeOK
<1>2. \E e : Becomes(a, e)
  BY DEF Publishes, Claim, SendAccepted, SendRejected, SendAnswerLost, Record, Release,
         RecordOrReleaseRaises, NextMessage
<1> QED
  BY <1>1, <1>2 DEF Becomes

\* What a publication's step does to the message of an order and to its holder.
LEMMA ClaimInvStep ==
  ASSUME ClaimInv, NEW a \in Actors, Publishes(a)
  PROVE  (OneClaimant /\ DeliveredIsGuarded /\ TwiceOnlyUnanswered)'
<1> DEFINE Goal == (OneClaimant /\ DeliveredIsGuarded /\ TwiceOnlyUnanswered)'
<1>a. /\ act \in [Actors -> Actor]
      /\ \A b \in Actors : b # a => act'[b] = act[b]
      /\ claim \in [Orders -> {"none", "claimed", "failed"}]
      /\ delivered \in [Orders -> 0 .. 2]
  BY PublisherMoves DEF ClaimInv, TypeOK
<1>b. OneClaimant /\ DeliveredIsGuarded /\ TwiceOnlyUnanswered /\ InHand
  BY DEF ClaimInv
<1> USE <1>a, <1>b DEF OneClaimant, DeliveredIsGuarded, TwiceOnlyUnanswered, Holds, At
<1>1. ASSUME NEW o \in Orders, Claim(a, o) PROVE Goal
  <2>1. CASE Free(o)
    <3>1. act'[a].pc = "send" /\ act'[a].cur = o
      <4>1. Becomes(a, [act[a] EXCEPT !.pc = "send", !.cur = o, !.out = @ \ {o}])
        BY <1>1, <2>1 DEF Claim
      <4> QED
        BY <4>1 DEF Becomes, Actor
    <3>2. claim' = [claim EXCEPT ![o] = "claimed"]
      BY <1>1, <2>1 DEF Claim
    <3>3. UNCHANGED <<receipt, delivered, unanswered>>
      BY <1>1 DEF Claim
    <3>4. o \notin receipt /\ claim[o] # "claimed"
      BY <2>1 DEF Free
    <3> QED
      BY <3>1, <3>2, <3>3, <3>4
  <2>2. CASE ~Free(o)
    <3>1. act'[a].pc = "publish"
      BY <1>1, <2>2 DEF Claim, Becomes, Actor
    <3>2. UNCHANGED <<claim, receipt, delivered, unanswered>>
      BY <1>1, <2>2 DEF Claim
    <3> QED
      BY <3>1, <3>2
  <2> QED
    BY <2>1, <2>2
<1>2. CASE SendAccepted(a)
  <2>1. act[a].pc = "send" /\ act[a].cur \in Orders
        /\ act'[a].pc = "record" /\ act'[a].cur = act[a].cur
    BY <1>2 DEF SendAccepted, Becomes, Actor, InHand
  <2>2. /\ delivered' = [delivered EXCEPT ![act[a].cur] = Again(@)]
        /\ UNCHANGED <<claim, receipt, unanswered>>
    BY <1>2 DEF SendAccepted
  <2> QED
    BY <2>1, <2>2 DEF Again
<1>3. CASE SendRejected(a)
  <2>1. /\ act[a].pc = "send"
        /\ act[a].cur \in Orders
        /\ act'[a].pc = "release"
        /\ act'[a].cur = act[a].cur
    BY <1>3 DEF SendRejected, Becomes, Actor, InHand
  <2> QED
    BY <1>3, <2>1 DEF SendRejected, messages
<1>4. CASE SendAnswerLost(a)
  <2>1. /\ act[a].pc = "send"
        /\ act[a].cur \in Orders
        /\ act'[a].pc = "release"
        /\ act'[a].cur = act[a].cur
    BY <1>4 DEF SendAnswerLost, Becomes, Actor, InHand
  <2>2. /\ delivered' = [delivered EXCEPT ![act[a].cur] = Again(@)]
        /\ unanswered' = unanswered \cup {act[a].cur}
        /\ UNCHANGED <<claim, receipt>>
    BY <1>4 DEF SendAnswerLost
  <2> QED
    BY <2>1, <2>2 DEF Again
<1>5. CASE Record(a)
  <2>1. act[a].pc = "record" /\ act[a].cur \in Orders /\ act'[a].pc = "publish"
    BY <1>5 DEF Record, NextMessage, Becomes, Actor, InHand
  <2>2. receipt' = receipt \cup {act[a].cur} /\ UNCHANGED <<claim, delivered, unanswered>>
    BY <1>5 DEF Record
  <2> QED
    BY <2>1, <2>2
<1>6. CASE Release(a)
  <2>1. act[a].pc = "release" /\ act[a].cur \in Orders /\ act'[a].pc = "publish"
    BY <1>6 DEF Release, NextMessage, Becomes, Actor, InHand
  <2>2. /\ claim' = [claim EXCEPT ![act[a].cur] = "failed"]
        /\ UNCHANGED <<receipt, delivered, unanswered>>
    BY <1>6 DEF Release
  <2> QED
    BY <2>1, <2>2
<1>7. CASE RecordOrReleaseRaises(a)
  <2>1. act'[a].pc = "publish"
    BY <1>7 DEF RecordOrReleaseRaises, NextMessage, Becomes, Actor
  <2> QED
    BY <1>7, <2>1 DEF RecordOrReleaseRaises, messages
<1> QED
  BY <1>1, <1>2, <1>3, <1>4, <1>5, <1>6, <1>7 DEF Publishes

\* The claim protocol of the messages.
LEMMA ClaimInvHolds == Spec => []ClaimInv
<1>1. Init => OneClaimant /\ DeliveredIsGuarded /\ TwiceOnlyUnanswered
  <2> SUFFICES ASSUME Init PROVE OneClaimant /\ DeliveredIsGuarded /\ TwiceOnlyUnanswered
    OBVIOUS
  <2>1. \A a \in Actors : act[a].pc = "idle"
    BY DEF Init, Idle
  <2>2. \A o \in Orders : delivered[o] = 0
    BY DEF Init
  <2> QED
    BY <2>1, <2>2 DEF OneClaimant, DeliveredIsGuarded, TwiceOnlyUnanswered, Holds
<1>2. ClaimInv /\ [Next]_vars => (OneClaimant /\ DeliveredIsGuarded /\ TwiceOnlyUnanswered)'
  <2> SUFFICES ASSUME ClaimInv, [Next]_vars
               PROVE  (OneClaimant /\ DeliveredIsGuarded /\ TwiceOnlyUnanswered)'
    OBVIOUS
  <2>1. CASE \E c \in Actors : Publishes(c)
    BY <2>1, ClaimInvStep
  <2>2. CASE ~ \E c \in Actors : Publishes(c)
    <3>1. \A b \in Actors, x \in Orders :
            Holds(b, x)' => Holds(b, x) /\ act'[b].pc = act[b].pc
      BY <2>2, OthersLeaveMessages DEF ClaimInv, MessagesLeft
    <3>2. CASE Orders = {} \/ Actors = {}
      BY <3>2 DEF OneClaimant, DeliveredIsGuarded, TwiceOnlyUnanswered, Actors
    <3>3. CASE Orders # {} /\ Actors # {}
      <4>1. UNCHANGED messages
        BY <2>2, <3>3, OthersLeaveMessages DEF ClaimInv, MessagesLeft
      <4> QED
        BY <3>1, <4>1
           DEF ClaimInv, OneClaimant, DeliveredIsGuarded, TwiceOnlyUnanswered, messages
    <3> QED
      BY <3>2, <3>3
  <2> QED
    BY <2>1, <2>2
<1> QED
  BY <1>1, <1>2, ShapeHolds, PTL DEF Spec, ClaimInv

\* One message per fill, unless the answer to an accepted one was lost, whoever
\* publishes it and whatever crashes or is not written in between.
THEOREM TwiceOnlyUnansweredHolds == Spec => []TwiceOnlyUnanswered
BY ClaimInvHolds, PTL DEF ClaimInv

-----------------------------------------------------------------------------
(* Who has to announce a fill, without faults of the process and of the    *)
(* store, and whatever answers of Telegram are lost or refused.            *)

\* The process and the store work, learning does too, and every
\* reconciliation announces what it finds.
NoFaults ==
  /\ ~MayCrash /\ ~StoreMayFail /\ ~LearningMayFail
  /\ Silent = {}

Assigned(a, o) == o \in act[a].out \/ Holds(a, o)

\* Nobody looks for fills while there are some to announce.
NoneWhileLooking ==
  \A a \in Actors : act[a].pc \in {"idle", "retries", "poll", "commit"} => act[a].out = {}

\* A claim belongs to an actor until it is recorded or released.
ClaimIsHeld ==
  \A o \in Orders : claim[o] = "claimed" => o \in receipt \/ \E a \in Actors : Holds(a, o)

\* A committed fill is announced, in somebody's hands, or has failed.
FillIsAssigned ==
  \A o \in Orders : local[o] = "filled" =>
    o \in receipt \/ o \in failed \/ \E a \in Actors : Assigned(a, o)

DutyInv == MessageInv /\ NoneWhileLooking /\ ClaimIsHeld /\ FillIsAssigned

-----------------------------------------------------------------------------

KeepsEmpty(b) ==
  act'[b].pc \in {"idle", "retries", "poll", "commit"} => act'[b].out = {}

\* Every step that ends or begins a look has nothing left to announce.
LEMMA NoneWhileLookingStep ==
  ASSUME TypeOK, NoneWhileLooking, [Next]_vars, NEW b \in Actors
  PROVE  KeepsEmpty(b)
<1>a. Watcher \in Actors /\ Reconcilers \subseteq Actors /\ Watcher \notin Reconcilers
  BY ActorsAssumption DEF Actors
<1>b. act \in [Actors -> Actor]
  BY DEF TypeOK
<1> USE <1>a, <1>b DEF NoneWhileLooking, Becomes, Actor, Idle, At, KeepsEmpty
<1>1. ASSUME NEW o \in Orders, NEW s \in Status, BrokerStep(o, s)
      PROVE  KeepsEmpty(b)
  BY <1>1 DEF BrokerStep
<1>2. ASSUME Crash PROVE KeepsEmpty(b)
  BY <1>2 DEF Crash
<1>3. ASSUME ReadPending PROVE KeepsEmpty(b)
  BY <1>3 DEF ReadPending
<1>4. ASSUME ReadRetryable PROVE KeepsEmpty(b)
  BY <1>4 DEF ReadRetryable
<1>5. ASSUME NEW o \in Orders, WatchPoll(o) PROVE KeepsEmpty(b)
  BY <1>5 DEF WatchPoll
<1>6. ASSUME Commit PROVE KeepsEmpty(b)
  BY <1>6 DEF Commit
<1>7. ASSUME CommitRaises PROVE KeepsEmpty(b)
  BY <1>7 DEF CommitRaises
<1>8. ASSUME WatchEnds PROVE KeepsEmpty(b)
  BY <1>8 DEF WatchEnds
<1>9. ASSUME NEW a \in Actors, NEW o \in Orders, PollFails(a, o)
      PROVE  KeepsEmpty(b)
  BY <1>9 DEF PollFails
<1>10. ASSUME NEW r \in Reconcilers, ReadOrders(r) PROVE KeepsEmpty(b)
  BY <1>10 DEF ReadOrders
<1>11. ASSUME NEW r \in Reconcilers, NEW o \in Orders, ReconPoll(r, o)
      PROVE  KeepsEmpty(b)
  BY <1>11 DEF ReconPoll
<1>12. ASSUME NEW r \in Reconcilers, Apply(r) PROVE KeepsEmpty(b)
  BY <1>12 DEF Apply, AfterApply
<1>13. ASSUME NEW r \in Reconcilers, ApplyRaises(r) PROVE KeepsEmpty(b)
  BY <1>13 DEF ApplyRaises
<1>14. ASSUME NEW r \in Reconcilers, Learn(r) PROVE KeepsEmpty(b)
  BY <1>14 DEF Learn
<1>15. ASSUME NEW r \in Reconcilers, LearnRaises(r) PROVE KeepsEmpty(b)
  BY <1>15 DEF LearnRaises
<1>16. ASSUME NEW a \in Actors, Published(a) PROVE KeepsEmpty(b)
  BY <1>16 DEF Published
<1>17. ASSUME NEW a \in Actors, NEW o \in Orders, Claim(a, o) PROVE KeepsEmpty(b)
  <2>1. CASE Free(o)
    <3>1. Becomes(a, [act[a] EXCEPT !.pc = "send", !.cur = o, !.out = @ \ {o}])
      BY <1>17, <2>1 DEF Claim
    <3> QED
      BY <3>1
  <2>2. CASE ~Free(o)
    <3>1. Becomes(a, [act[a] EXCEPT !.out = @ \ {o}]) /\ act[a].pc = "publish"
      BY <1>17, <2>2 DEF Claim
    <3> QED
      BY <3>1
  <2> QED
    BY <2>1, <2>2
<1>18. ASSUME NEW a \in Actors, ClaimRaises(a) PROVE KeepsEmpty(b)
  BY <1>18 DEF ClaimRaises
<1>19. ASSUME NEW a \in Actors, SendAccepted(a) PROVE KeepsEmpty(b)
  BY <1>19 DEF SendAccepted
<1>20. ASSUME NEW a \in Actors, SendRejected(a) PROVE KeepsEmpty(b)
  BY <1>20 DEF SendRejected
<1>21. ASSUME NEW a \in Actors, SendAnswerLost(a) PROVE KeepsEmpty(b)
  BY <1>21 DEF SendAnswerLost
<1>22. ASSUME NEW a \in Actors, Record(a) PROVE KeepsEmpty(b)
  BY <1>22 DEF Record, NextMessage
<1>23. ASSUME NEW a \in Actors, Release(a) PROVE KeepsEmpty(b)
  BY <1>23 DEF Release, NextMessage
<1>24. ASSUME NEW a \in Actors, RecordOrReleaseRaises(a) PROVE KeepsEmpty(b)
  BY <1>24 DEF RecordOrReleaseRaises, NextMessage
<1>25. ASSUME UNCHANGED vars PROVE KeepsEmpty(b)
  BY <1>25 DEF vars, rows, messages
<1> HIDE DEF KeepsEmpty
<1> QED
  BY <1>1, <1>2, <1>3, <1>4, <1>5, <1>6, <1>7, <1>8, <1>9, <1>10, <1>11, <1>12,
     <1>13, <1>14, <1>15, <1>16, <1>17, <1>18, <1>19, <1>20, <1>21, <1>22,
     <1>23, <1>24, <1>25
     DEF Next, Watch, Reconcile, Publish

\* A step that is not a publication's takes nothing out of anybody's hands.
KeepsDuty(b, x) ==
  \/ \E c \in Actors : Publishes(c)
  \/ /\ UNCHANGED messages
     /\ Holds(b, x) => Holds(b, x)'
     /\ Assigned(b, x) => Assigned(b, x)'

LEMMA OthersKeepDuty ==
  ASSUME NoFaults, TypeOK, NoneWhileLooking, [Next]_vars, NEW b \in Actors, NEW x \in Orders
  PROVE  KeepsDuty(b, x)
<1>a. Watcher \in Actors /\ Reconcilers \subseteq Actors /\ Watcher \notin Reconcilers
  BY ActorsAssumption DEF Actors
<1>b. act \in [Actors -> Actor]
  BY DEF TypeOK
<1>c. ~MayCrash /\ ~StoreMayFail /\ ~LearningMayFail
  BY DEF NoFaults
<1> USE <1>a, <1>b, <1>c DEF NoneWhileLooking, Becomes, Actor, Idle, At, Holds, Assigned, KeepsDuty
<1>1. ASSUME NEW o \in Orders, NEW s \in Status, BrokerStep(o, s)
      PROVE  KeepsDuty(b, x)
  BY <1>1 DEF BrokerStep
<1>2. ASSUME Crash PROVE KeepsDuty(b, x)
  BY <1>2 DEF Crash
<1>3. ASSUME ReadPending PROVE KeepsDuty(b, x)
  BY <1>3 DEF ReadPending
<1>4. ASSUME ReadRetryable PROVE KeepsDuty(b, x)
  BY <1>4 DEF ReadRetryable
<1>5. ASSUME NEW o \in Orders, WatchPoll(o) PROVE KeepsDuty(b, x)
  BY <1>5 DEF WatchPoll
<1>6. ASSUME Commit PROVE KeepsDuty(b, x)
  BY <1>6 DEF Commit
<1>7. ASSUME CommitRaises PROVE KeepsDuty(b, x)
  BY <1>7 DEF CommitRaises
<1>8. ASSUME WatchEnds PROVE KeepsDuty(b, x)
  BY <1>8 DEF WatchEnds
<1>9. ASSUME NEW a \in Actors, NEW o \in Orders, PollFails(a, o)
      PROVE  KeepsDuty(b, x)
  BY <1>9 DEF PollFails
<1>10. ASSUME NEW r \in Reconcilers, ReadOrders(r) PROVE KeepsDuty(b, x)
  BY <1>10 DEF ReadOrders
<1>11. ASSUME NEW r \in Reconcilers, NEW o \in Orders, ReconPoll(r, o)
      PROVE  KeepsDuty(b, x)
  BY <1>11 DEF ReconPoll
<1>12. ASSUME NEW r \in Reconcilers, Apply(r) PROVE KeepsDuty(b, x)
  BY <1>12 DEF Apply, AfterApply
<1>13. ASSUME NEW r \in Reconcilers, ApplyRaises(r) PROVE KeepsDuty(b, x)
  BY <1>13 DEF ApplyRaises
<1>14. ASSUME NEW r \in Reconcilers, Learn(r) PROVE KeepsDuty(b, x)
  BY <1>14 DEF Learn
<1>15. ASSUME NEW r \in Reconcilers, LearnRaises(r) PROVE KeepsDuty(b, x)
  BY <1>15 DEF LearnRaises
<1>16. ASSUME NEW a \in Actors, Published(a) PROVE KeepsDuty(b, x)
  BY <1>16 DEF Published
<1>17. ASSUME NEW a \in Actors, NEW o \in Orders, Claim(a, o)
      PROVE  KeepsDuty(b, x)
  BY <1>17 DEF Publishes
<1>18. ASSUME NEW a \in Actors, ClaimRaises(a) PROVE KeepsDuty(b, x)
  BY <1>18 DEF ClaimRaises
<1>19. ASSUME NEW a \in Actors, SendAccepted(a) PROVE KeepsDuty(b, x)
  BY <1>19 DEF Publishes
<1>20. ASSUME NEW a \in Actors, SendRejected(a) PROVE KeepsDuty(b, x)
  BY <1>20 DEF Publishes
<1>21. ASSUME NEW a \in Actors, SendAnswerLost(a) PROVE KeepsDuty(b, x)
  BY <1>21 DEF Publishes
<1>22. ASSUME NEW a \in Actors, Record(a) PROVE KeepsDuty(b, x)
  BY <1>22 DEF Publishes
<1>23. ASSUME NEW a \in Actors, Release(a) PROVE KeepsDuty(b, x)
  BY <1>23 DEF Publishes
<1>24. ASSUME NEW a \in Actors, RecordOrReleaseRaises(a)
      PROVE  KeepsDuty(b, x)
  BY <1>24 DEF Publishes
<1>25. ASSUME UNCHANGED vars PROVE KeepsDuty(b, x)
  BY <1>25 DEF vars, rows, messages
<1> HIDE DEF KeepsDuty
<1> QED
  BY <1>1, <1>2, <1>3, <1>4, <1>5, <1>6, <1>7, <1>8, <1>9, <1>10, <1>11, <1>12,
     <1>13, <1>14, <1>15, <1>16, <1>17, <1>18, <1>19, <1>20, <1>21, <1>22,
     <1>23, <1>24, <1>25
     DEF Next, Watch, Reconcile, Publish

\* What becomes filled is in the hands of the one who recorded it.
LEMMA NewFillIsAssigned ==
  ASSUME NoFaults, MessageInv, [Next]_vars, NEW x \in Orders,
         local[x] # "filled", local'[x] = "filled"
  PROVE  \E b \in Actors : Assigned(b, x)'
<1>a. TypeOK /\ Watcher \in Actors /\ Reconcilers \subseteq Actors
  BY ActorsAssumption DEF Actors, MessageInv, EffectsInv
<1>b. act \in [Actors -> Actor] /\ local \in [Orders -> Status]
  BY <1>a DEF TypeOK
<1>1. Commit \/ \E r \in Reconcilers : Apply(r)
  BY RowsMove DEF rows
<1>2. CASE Commit
  <2> DEFINE o == act[Watcher].cur
             s == act[Watcher].change[o].new
             moved == s # local[o] /\ local[o] \notin Terminal
             e == [act[Watcher] EXCEPT !.pc = "publish", !.cur = 0, !.change[o] = NoChange,
                                       !.out = IF moved /\ s = "filled" THEN {o} ELSE {}]
  <2>1. Becomes(Watcher, e)
    BY <1>2 DEF Commit
  <2>2. IF moved THEN local' = [local EXCEPT ![o] = s] ELSE UNCHANGED local
    BY <1>2 DEF Commit
  <2>3. moved /\ x = o /\ s = "filled"
    BY <1>b, <2>2
  <2>4. e.out = {o}
    BY <1>a, <1>b, <2>3 DEF Actor
  <2>5. act'[Watcher] = e
    BY <1>a, <1>b, <2>1 DEF Becomes
  <2> QED
    BY <1>a, <2>3, <2>4, <2>5 DEF Assigned
<1>3. ASSUME NEW r \in Reconcilers, Apply(r) PROVE \E b \in Actors : Assigned(b, x)'
  <2>1. local'[x] = IF x \in Overwritten(r) THEN act[r].change[x].new ELSE local[x]
    BY <1>3 DEF Apply
  <2>2. x \in Announced(r)
    BY <2>1 DEF NoFaults, Announced
  <2>3. Becomes(r, [Idle EXCEPT !.pc = AfterApply(r), !.out = Announced(r)])
    BY <1>3 DEF Apply
  <2>4. act'[r].out = Announced(r)
    BY <1>a, <1>b, <2>3 DEF Becomes, Idle
  <2> QED
    BY <1>a, <2>2, <2>4 DEF Assigned
<1> QED
  BY <1>1, <1>2, <1>3

\* What a publication's step does to the message of an order and to whoever
\* has it.
LEMMA PublicationKeepsDuty ==
  ASSUME NoFaults, DutyInv, NEW a \in Actors, Publishes(a)
  PROVE  (ClaimIsHeld /\ FillIsAssigned)'
<1> DEFINE Goal == (ClaimIsHeld /\ FillIsAssigned)'
<1>a. TypeOK /\ InHand /\ ClaimIsHeld /\ FillIsAssigned
  BY DEF DutyInv, MessageInv, EffectsInv
<1>b. /\ act \in [Actors -> Actor]
      /\ \A b \in Actors : b # a => act'[b] = act[b]
      /\ claim \in [Orders -> {"none", "claimed", "failed"}]
  BY <1>a, PublisherMoves DEF TypeOK
<1>c. UNCHANGED local
  BY DEF Publishes, Claim, SendAccepted, SendRejected, SendAnswerLost, Record, Release,
         RecordOrReleaseRaises, rows
<1> USE <1>a, <1>b, <1>c DEF ClaimIsHeld, FillIsAssigned, Assigned, Holds, At
<1>1. ASSUME NEW o \in Orders, Claim(a, o) PROVE Goal
  <2>1. UNCHANGED <<receipt, failed>>
    BY <1>1 DEF Claim
  <2>2. CASE Free(o)
    <3>1. Becomes(a, [act[a] EXCEPT !.pc = "send", !.cur = o, !.out = @ \ {o}])
      BY <1>1, <2>2 DEF Claim
    <3>2. act'[a].pc = "send" /\ act'[a].cur = o /\ act'[a].out = act[a].out \ {o}
      BY <3>1 DEF Becomes, Actor
    <3>3. claim' = [claim EXCEPT ![o] = "claimed"] /\ act[a].pc = "publish"
      BY <1>1, <2>2 DEF Claim
    <3> QED
      BY <2>1, <3>2, <3>3
  <2>3. CASE ~Free(o)
    <3>1. act'[a].pc = "publish" /\ act'[a].out = act[a].out \ {o} /\ act[a].pc = "publish"
      BY <1>1, <2>3 DEF Claim, Becomes, Actor
    <3>2. UNCHANGED claim
      BY <1>1, <2>3 DEF Claim
    <3>3. o \in receipt \/ \E b \in Actors : Holds(b, o)
      BY <2>3 DEF Free
    <3> QED
      BY <2>1, <3>1, <3>2, <3>3
  <2> QED
    BY <2>2, <2>3
<1>2. CASE SendAccepted(a) \/ SendRejected(a) \/ SendAnswerLost(a)
  <2>1. /\ act[a].pc = "send" /\ act'[a].pc \in {"record", "release"}
        /\ act'[a].cur = act[a].cur /\ act'[a].out = act[a].out
    BY <1>2 DEF SendAccepted, SendRejected, SendAnswerLost, Becomes, Actor
  <2>2. UNCHANGED <<claim, receipt, failed>>
    BY <1>2 DEF SendAccepted, SendRejected, SendAnswerLost, messages
  <2> QED
    BY <2>1, <2>2
<1>3. CASE Record(a)
  <2>1. /\ act[a].pc = "record" /\ act'[a].pc = "publish"
        /\ act[a].cur \in Orders /\ act'[a].out = act[a].out
    BY <1>3 DEF Record, NextMessage, Becomes, Actor, InHand
  <2>2. receipt' = receipt \cup {act[a].cur} /\ UNCHANGED <<claim, failed>>
    BY <1>3 DEF Record
  <2> QED
    BY <2>1, <2>2
<1>4. CASE Release(a)
  <2>1. /\ act[a].pc = "release" /\ act'[a].pc = "publish"
        /\ act[a].cur \in Orders /\ act'[a].out = act[a].out
    BY <1>4 DEF Release, NextMessage, Becomes, Actor, InHand
  <2>2. /\ claim' = [claim EXCEPT ![act[a].cur] = "failed"]
        /\ failed' = failed \cup {act[a].cur} /\ UNCHANGED receipt
    BY <1>4 DEF Release
  <2> QED
    BY <2>1, <2>2
<1>5. ~RecordOrReleaseRaises(a)
  BY DEF RecordOrReleaseRaises, NoFaults
<1> QED
  BY <1>1, <1>2, <1>3, <1>4, <1>5 DEF Publishes

\* Every step leaves the duty to announce with somebody.
LEMMA DutyStep ==
  ASSUME NoFaults, DutyInv, [Next]_vars
  PROVE  (NoneWhileLooking /\ ClaimIsHeld /\ FillIsAssigned)'
<1>a. TypeOK /\ InHand /\ NoneWhileLooking /\ ClaimIsHeld /\ FillIsAssigned /\ MessageInv
  BY DEF DutyInv, MessageInv, EffectsInv
<1>1. NoneWhileLooking'
  BY <1>a, NoneWhileLookingStep DEF NoneWhileLooking, KeepsEmpty
<1>2. CASE \E c \in Actors : Publishes(c)
  BY <1>1, <1>2, PublicationKeepsDuty
<1>3. CASE ~ \E c \in Actors : Publishes(c)
  <2>1. \A b \in Actors, x \in Orders :
          /\ UNCHANGED messages
          /\ Holds(b, x) => Holds(b, x)'
          /\ Assigned(b, x) => Assigned(b, x)'
    BY <1>3, <1>a, OthersKeepDuty DEF KeepsDuty
  <2>2. Watcher \in Actors
    BY DEF Actors
  <2>3. ASSUME NEW x \in Orders
        PROVE  claim'[x] = claim[x] /\ (x \in receipt' <=> x \in receipt)
               /\ (x \in failed' <=> x \in failed)
    BY <2>1, <2>2 DEF messages
  <2>4. ClaimIsHeld'
    BY <1>a, <2>1, <2>3 DEF ClaimIsHeld
  <2>5. FillIsAssigned'
    <3> SUFFICES ASSUME NEW x \in Orders, local'[x] = "filled"
                 PROVE  \/ x \in receipt' \/ x \in failed'
                        \/ \E b \in Actors : Assigned(b, x)'
      BY DEF FillIsAssigned
    <3>1. CASE local[x] = "filled"
      BY <1>a, <2>1, <2>3, <3>1 DEF FillIsAssigned
    <3>2. CASE local[x] # "filled"
      BY <1>a, <3>2, NewFillIsAssigned
    <3> QED
      BY <3>1, <3>2
  <2> QED
    BY <1>1, <2>4, <2>5
<1> QED
  BY <1>2, <1>3

\* The duty to announce a committed fill is always somebody's.
LEMMA DutyInvHolds ==
  ASSUME NoFaults
  PROVE  Spec => []DutyInv
<1>1. Init => NoneWhileLooking /\ ClaimIsHeld /\ FillIsAssigned
  <2> SUFFICES ASSUME Init PROVE NoneWhileLooking /\ ClaimIsHeld /\ FillIsAssigned
    OBVIOUS
  <2>1. \A a \in Actors : act[a].out = {}
    BY DEF Init, Idle
  <2>2. \A o \in Orders : local[o] = "new" /\ claim[o] = "none"
    BY DEF Init
  <2> QED
    BY <2>1, <2>2 DEF NoneWhileLooking, ClaimIsHeld, FillIsAssigned
<1>2. DutyInv /\ [Next]_vars => (NoneWhileLooking /\ ClaimIsHeld /\ FillIsAssigned)'
  BY DutyStep
<1> QED
  BY <1>1, <1>2, MessageInvHolds, PTL DEF Spec, DutyInv

\* Without faults every committed fill is announced or still has someone to
\* announce it, however many orders a pass leaves for later.
THEOREM NoFillIsForgotten ==
  ASSUME NoFaults
  PROVE  Spec => []NoFillForgotten
<1>1. DutyInv => NoFillForgotten
  BY DEF DutyInv, FillIsAssigned, NoFillForgotten, SomeoneWillAnnounce, Assigned, Holds, Retryable
<1> QED
  BY <1>1, DutyInvHolds, PTL

-----------------------------------------------------------------------------
(* The contract of the watcher and the reconciliations.                    *)

\* Nobody has a message in hand whose receipt is written.
UnrecordedInHand == \A a \in Actors, o \in Orders : Holds(a, o) => o \notin receipt

PromiseInv == MessageInv /\ ClaimInv /\ UnrecordedInHand

\* A publication writes the receipt of the message it has in hand, and takes
\* into its hands only messages without one.
LEMMA UnrecordedInHandStep ==
  ASSUME ClaimInv, UnrecordedInHand, NEW a \in Actors, Publishes(a)
  PROVE  UnrecordedInHand'
<1>a. /\ act \in [Actors -> Actor]
      /\ \A b \in Actors : b # a => act'[b] = act[b]
  BY PublisherMoves DEF ClaimInv, TypeOK
<1>b. OneClaimant /\ InHand
  BY DEF ClaimInv
<1> USE <1>a, <1>b DEF OneClaimant, UnrecordedInHand, Holds, At
<1>1. ASSUME NEW o \in Orders, Claim(a, o) PROVE UnrecordedInHand'
  <2>1. UNCHANGED receipt
    BY <1>1 DEF Claim
  <2>2. CASE Free(o)
    <3>1. act'[a].cur = o
      <4>1. Becomes(a, [act[a] EXCEPT !.pc = "send", !.cur = o, !.out = @ \ {o}])
        BY <1>1, <2>2 DEF Claim
      <4> QED
        BY <4>1 DEF Becomes, Actor
    <3> QED
      BY <2>1, <2>2, <3>1 DEF Free
  <2>3. CASE ~Free(o)
    <3>1. act'[a].pc = "publish"
      BY <1>1, <2>3 DEF Claim, Becomes, Actor
    <3> QED
      BY <2>1, <3>1
  <2> QED
    BY <2>2, <2>3
<1>2. CASE SendAccepted(a) \/ SendRejected(a) \/ SendAnswerLost(a)
  <2>1. act[a].pc = "send" /\ act'[a].cur = act[a].cur
    BY <1>2 DEF SendAccepted, SendRejected, SendAnswerLost, Becomes, Actor
  <2>2. UNCHANGED receipt
    BY <1>2 DEF SendAccepted, SendRejected, SendAnswerLost, messages
  <2> QED
    BY <2>1, <2>2
<1>3. CASE Record(a)
  <2>1. act[a].pc = "record" /\ act[a].cur \in Orders /\ act'[a].pc = "publish"
    BY <1>3 DEF Record, NextMessage, Becomes, Actor, InHand
  <2>2. receipt' = receipt \cup {act[a].cur}
    BY <1>3 DEF Record
  <2> QED
    BY <2>1, <2>2
<1>4. CASE Release(a)
  <2>1. act'[a].pc = "publish" /\ UNCHANGED receipt
    BY <1>4 DEF Release, NextMessage, Becomes, Actor
  <2> QED
    BY <2>1
<1>5. CASE RecordOrReleaseRaises(a)
  <2>1. act'[a].pc = "publish" /\ UNCHANGED receipt
    BY <1>5 DEF RecordOrReleaseRaises, messages, NextMessage, Becomes, Actor
  <2> QED
    BY <2>1
<1> QED
  BY <1>1, <1>2, <1>3, <1>4, <1>5 DEF Publishes

\* The order of broker, store and chat, the claims, and what the receipts say.
LEMMA PromiseInvHolds == Spec => []PromiseInv
<1>1. Init => UnrecordedInHand
  BY DEF Init, UnrecordedInHand
<1>2. PromiseInv /\ [Next]_vars => UnrecordedInHand'
  <2> SUFFICES ASSUME PromiseInv, [Next]_vars PROVE UnrecordedInHand'
    OBVIOUS
  <2>a. ClaimInv /\ UnrecordedInHand /\ TypeOK
    BY DEF PromiseInv, ClaimInv
  <2>1. CASE \E c \in Actors : Publishes(c)
    BY <2>a, <2>1, UnrecordedInHandStep
  <2>2. CASE ~ \E c \in Actors : Publishes(c)
    <3>1. \A b \in Actors, x \in Orders : UNCHANGED messages /\ (Holds(b, x)' => Holds(b, x))
      BY <2>a, <2>2, OthersLeaveMessages DEF MessagesLeft
    <3> QED
      BY <2>a, <3>1 DEF UnrecordedInHand, messages
  <2> QED
    BY <2>1, <2>2
<1> QED
  BY <1>1, <1>2, MessageInvHolds, ClaimInvHolds, PTL DEF Spec, PromiseInv

\* Only a publication and a crash change who may still let go of a message.
UndecidedLeft(b, x) ==
  \/ Crash
  \/ \E c \in Actors : Publishes(c)
  \/ UNCHANGED messages /\ (Undecided(b, x)' <=> Undecided(b, x))

LEMMA OthersLeaveUndecided ==
  ASSUME TypeOK, [Next]_vars, NEW b \in Actors, NEW x \in Orders
  PROVE  UndecidedLeft(b, x)
<1>a. Watcher \in Actors /\ Reconcilers \subseteq Actors /\ Watcher \notin Reconcilers
  BY ActorsAssumption DEF Actors
<1>b. act \in [Actors -> Actor]
  BY DEF TypeOK
<1> USE <1>a, <1>b DEF Becomes, Actor, Idle, At, Undecided, UndecidedLeft
<1>1. ASSUME NEW o \in Orders, NEW s \in Status, BrokerStep(o, s)
      PROVE  UndecidedLeft(b, x)
  BY <1>1 DEF BrokerStep
<1>2. ASSUME Crash PROVE UndecidedLeft(b, x)
  BY <1>2
<1>3. ASSUME ReadPending PROVE UndecidedLeft(b, x)
  BY <1>3 DEF ReadPending
<1>4. ASSUME ReadRetryable PROVE UndecidedLeft(b, x)
  BY <1>4 DEF ReadRetryable
<1>5. ASSUME NEW o \in Orders, WatchPoll(o) PROVE UndecidedLeft(b, x)
  BY <1>5 DEF WatchPoll
<1>6. ASSUME Commit PROVE UndecidedLeft(b, x)
  BY <1>6 DEF Commit
<1>7. ASSUME CommitRaises PROVE UndecidedLeft(b, x)
  BY <1>7 DEF CommitRaises
<1>8. ASSUME WatchEnds PROVE UndecidedLeft(b, x)
  BY <1>8 DEF WatchEnds
<1>9. ASSUME NEW a \in Actors, NEW o \in Orders, PollFails(a, o)
      PROVE  UndecidedLeft(b, x)
  BY <1>9 DEF PollFails
<1>10. ASSUME NEW r \in Reconcilers, ReadOrders(r) PROVE UndecidedLeft(b, x)
  BY <1>10 DEF ReadOrders
<1>11. ASSUME NEW r \in Reconcilers, NEW o \in Orders, ReconPoll(r, o)
      PROVE  UndecidedLeft(b, x)
  BY <1>11 DEF ReconPoll
<1>12. ASSUME NEW r \in Reconcilers, Apply(r) PROVE UndecidedLeft(b, x)
  BY <1>12 DEF Apply, AfterApply
<1>13. ASSUME NEW r \in Reconcilers, ApplyRaises(r) PROVE UndecidedLeft(b, x)
  BY <1>13 DEF ApplyRaises
<1>14. ASSUME NEW r \in Reconcilers, Learn(r) PROVE UndecidedLeft(b, x)
  BY <1>14 DEF Learn
<1>15. ASSUME NEW r \in Reconcilers, LearnRaises(r) PROVE UndecidedLeft(b, x)
  BY <1>15 DEF LearnRaises
<1>16. ASSUME NEW a \in Actors, Published(a) PROVE UndecidedLeft(b, x)
  BY <1>16 DEF Published
<1>17. ASSUME NEW a \in Actors, NEW o \in Orders, Claim(a, o) PROVE UndecidedLeft(b, x)
  BY <1>17 DEF Publishes
<1>18. ASSUME NEW a \in Actors, ClaimRaises(a) PROVE UndecidedLeft(b, x)
  BY <1>18 DEF ClaimRaises
<1>19. ASSUME NEW a \in Actors, SendAccepted(a) PROVE UndecidedLeft(b, x)
  BY <1>19 DEF Publishes
<1>20. ASSUME NEW a \in Actors, SendRejected(a) PROVE UndecidedLeft(b, x)
  BY <1>20 DEF Publishes
<1>21. ASSUME NEW a \in Actors, SendAnswerLost(a) PROVE UndecidedLeft(b, x)
  BY <1>21 DEF Publishes
<1>22. ASSUME NEW a \in Actors, Record(a) PROVE UndecidedLeft(b, x)
  BY <1>22 DEF Publishes
<1>23. ASSUME NEW a \in Actors, Release(a) PROVE UndecidedLeft(b, x)
  BY <1>23 DEF Publishes
<1>24. ASSUME NEW a \in Actors, RecordOrReleaseRaises(a) PROVE UndecidedLeft(b, x)
  BY <1>24 DEF Publishes
<1>25. ASSUME UNCHANGED vars PROVE UndecidedLeft(b, x)
  BY <1>25 DEF vars, messages
<1> HIDE DEF UndecidedLeft
<1> QED
  BY <1>1, <1>2, <1>3, <1>4, <1>5, <1>6, <1>7, <1>8, <1>9, <1>10, <1>11, <1>12,
     <1>13, <1>14, <1>15, <1>16, <1>17, <1>18, <1>19, <1>20, <1>21, <1>22, <1>23, <1>24, <1>25
     DEF Next, Watch, Reconcile, Publish

\* What a publication's step leaves alone, of the rows and of the others.
LEMMA PublicationFrame ==
  ASSUME PromiseInv, NEW a \in Actors, Publishes(a)
  PROVE  /\ UNCHANGED rows
         /\ act \in [Actors -> Actor]
         /\ \A b \in Actors : b # a => act'[b] = act[b]
         /\ \A b \in Actors, x \in Orders : b # a => (Undecided(b, x)' <=> Undecided(b, x))
         /\ claim \in [Orders -> {"none", "claimed", "failed"}]
         /\ delivered \in [Orders -> 0 .. 2]
<1>1. UNCHANGED rows
  BY DEF Publishes, Claim, SendAccepted, SendRejected, SendAnswerLost, Record, Release,
         RecordOrReleaseRaises
<1>2. TypeOK
  BY DEF PromiseInv, ClaimInv
<1>3. \A b \in Actors : b # a => act'[b] = act[b]
  BY <1>2, PublisherMoves
<1>4. \A b \in Actors, x \in Orders : b # a => (Undecided(b, x)' <=> Undecided(b, x))
  BY <1>3 DEF Undecided
<1> QED
  BY <1>1, <1>2, <1>3, <1>4 DEF TypeOK

\* Whoever has a message in hand has the only claim on it, of a filled order
\* without a receipt.
LEMMA MessageInHand ==
  ASSUME PromiseInv, NEW a \in Actors, act[a].pc \in {"send", "record", "release"}
  PROVE  LET o == act[a].cur IN
         /\ o \in Orders
         /\ local[o] = "filled" /\ claim[o] = "claimed" /\ o \notin receipt
         /\ \A b \in Actors : Undecided(b, o) => b = a
<1> DEFINE o == act[a].cur
<1>1. o \in Orders /\ Holds(a, o)
  BY DEF PromiseInv, ClaimInv, InHand, Holds
<1>2. local[o] = "filled"
  BY <1>1 DEF PromiseInv, MessageInv, OnlyFilledInHand
<1>3. /\ claim[o] = "claimed"
      /\ \A b \in Actors : Holds(b, o) => a = b
  BY <1>1 DEF PromiseInv, ClaimInv, OneClaimant
<1>4. o \notin receipt
  BY <1>1 DEF PromiseInv, UnrecordedInHand
<1>5. \A b \in Actors : Undecided(b, o) => Holds(b, o)
  BY DEF Undecided, Holds
<1> QED
  BY <1>1, <1>2, <1>3, <1>4, <1>5

\* Orders are closed one by one.
LEMMA ClosedAre ==
  ASSUME NEW S \in SUBSET Orders,
         \A x \in Orders : x \in Closed' <=> x \in Closed \/ x \in S
  PROVE  Closed' = Closed \cup S
BY DEF Closed

\* Nothing the contract speaks of changes.
Invisible == UNCHANGED Contract!contractVars

LEMMA InvisibleIf ==
  ASSUME UNCHANGED <<local, effects, delivered>>, Closed' = Closed
  PROVE  Invisible
BY DEF Invisible, Contract!contractVars

\* Taking a claim closes nothing and opens nothing.
LEMMA ClaimIsInvisible ==
  ASSUME PromiseInv, NEW a \in Actors, NEW o \in Orders, Claim(a, o)
  PROVE  Invisible
<1>1. Publishes(a)
  BY DEF Publishes
<1>f. /\ UNCHANGED rows /\ act \in [Actors -> Actor]
      /\ \A b \in Actors, x \in Orders : b # a => (Undecided(b, x)' <=> Undecided(b, x))
      /\ claim \in [Orders -> {"none", "claimed", "failed"}]
      /\ delivered \in [Orders -> 0 .. 2]
  BY <1>1, PublicationFrame
<1> USE <1>1, <1>f
<1>2. UNCHANGED <<local, effects, delivered, receipt>> /\ act[a].pc = "publish"
  BY DEF Claim, rows, At
<1>3. CASE Free(o)
  <2>1. Becomes(a, [act[a] EXCEPT !.pc = "send", !.cur = o, !.out = @ \ {o}])
    BY <1>3 DEF Claim
  <2>2. act'[a].pc = "send" /\ act'[a].cur = o
    BY <2>1 DEF Becomes, Actor
  <2>3. claim' = [claim EXCEPT ![o] = "claimed"]
    BY <1>3 DEF Claim
  <2>4. o \notin Closed /\ o \notin Closed'
    BY <1>2, <1>3, <2>2 DEF Closed, Free, Undecided
  <2>5. ASSUME NEW x \in Orders, x # o PROVE x \in Closed' <=> x \in Closed
    <3>1. Undecided(a, x)' <=> Undecided(a, x)
      BY <1>2, <2>2, <2>5 DEF Undecided
    <3>2. \A b \in Actors : Undecided(b, x)' <=> Undecided(b, x)
      BY <3>1
    <3> QED
      BY <1>2, <2>3, <2>5, <3>2 DEF Closed
  <2>6. Closed' = Closed
    BY <2>4, <2>5, ClosedAre DEF Closed
  <2> QED
    BY <1>2, <2>6, InvisibleIf
<1>4. CASE ~Free(o)
  <2>1. Becomes(a, [act[a] EXCEPT !.out = @ \ {o}]) /\ UNCHANGED claim
    BY <1>4 DEF Claim
  <2>2. act'[a].pc = "publish"
    BY <1>2, <2>1 DEF Becomes, Actor
  <2>3. \A b \in Actors, x \in Orders : Undecided(b, x)' <=> Undecided(b, x)
    BY <1>2, <2>2 DEF Undecided
  <2>4. Closed' = Closed
    BY <1>2, <2>1, <2>3 DEF Closed
  <2> QED
    BY <1>2, <2>4, InvisibleIf
<1> QED
  BY <1>3, <1>4

\* An answered message closes the matter, one whose answer is lost does not.
LEMMA SendingTells ==
  ASSUME PromiseInv, NEW a \in Actors, SendAccepted(a) \/ SendAnswerLost(a)
  PROVE  Contract!Tell(act[a].cur, SendAccepted(a)) /\ act[a].cur \in Orders
<1>1. Publishes(a) /\ act[a].pc = "send"
  BY DEF Publishes, SendAccepted, SendAnswerLost, At
<1>f. /\ UNCHANGED rows /\ act \in [Actors -> Actor]
      /\ \A b \in Actors, x \in Orders : b # a => (Undecided(b, x)' <=> Undecided(b, x))
      /\ claim \in [Orders -> {"none", "claimed", "failed"}]
      /\ delivered \in [Orders -> 0 .. 2]
  BY <1>1, PublicationFrame
<1> USE <1>1, <1>f
<1>2. PICK o \in Orders :
        /\ o = act[a].cur /\ local[o] = "filled" /\ claim[o] = "claimed" /\ o \notin receipt
        /\ \A b \in Actors : Undecided(b, o) => b = a
  BY MessageInHand
<1>3. o \notin Closed
  BY <1>2 DEF Closed, Undecided
<1>4. /\ UNCHANGED <<local, effects, claim, receipt>>
      /\ delivered' = [delivered EXCEPT ![o] = IF @ = 0 THEN 1 ELSE 2]
      /\ act'[a].cur = o
  BY <1>2 DEF SendAccepted, SendAnswerLost, rows, Again, Becomes, Actor
<1>5. ASSUME NEW x \in Orders, x # o PROVE x \in Closed' <=> x \in Closed
  <2>1. \A b \in Actors : Undecided(b, x)' <=> Undecided(b, x)
    BY <1>2, <1>4, <1>5 DEF Undecided
  <2> QED
    BY <1>4, <2>1 DEF Closed
<1>6. CASE SendAccepted(a)
  <2>1. act'[a].pc = "record"
    BY <1>6 DEF SendAccepted, Becomes, Actor
  <2>2. \A b \in Actors : ~Undecided(b, o)'
    BY <1>2, <2>1 DEF Undecided
  <2>3. o \in Closed'
    BY <1>2, <1>4, <2>2 DEF Closed
  <2>4. \A x \in Orders : x \in Closed' <=> x \in Closed \/ x \in {o}
    BY <1>5, <2>3
  <2>5. Closed' = Closed \cup {o}
    BY <2>4, ClosedAre
  <2> QED
    BY <1>2, <1>3, <1>4, <1>6, <2>5 DEF Contract!Tell, Terminal
<1>7. CASE SendAnswerLost(a) /\ ~SendAccepted(a)
  <2>1. act'[a].pc = "release" /\ AnswerMayBeLost
    BY <1>7 DEF SendAnswerLost, Becomes, Actor
  <2>2. o \notin Closed'
    BY <1>2, <1>4, <2>1 DEF Closed, Undecided
  <2>3. Closed' = Closed
    BY <1>3, <1>5, <2>2 DEF Closed
  <2> QED
    BY <1>2, <1>3, <1>4, <1>7, <2>1, <2>3 DEF Contract!Tell, Terminal
<1> QED
  BY <1>2, <1>6, <1>7

\* A refused message stays open, a receipt confirms what is closed already,
\* and a claim that is released was not closed.
LEMMA RestIsInvisible ==
  ASSUME PromiseInv, NEW a \in Actors, SendRejected(a) \/ Record(a) \/ Release(a)
  PROVE  Invisible
<1>1. Publishes(a) /\ act[a].pc \in {"send", "record", "release"}
  BY DEF Publishes, SendRejected, Record, Release, At
<1>f. /\ UNCHANGED rows /\ act \in [Actors -> Actor]
      /\ \A b \in Actors, x \in Orders : b # a => (Undecided(b, x)' <=> Undecided(b, x))
      /\ claim \in [Orders -> {"none", "claimed", "failed"}]
      /\ delivered \in [Orders -> 0 .. 2]
  BY <1>1, PublicationFrame
<1> USE <1>1, <1>f
<1>2. PICK o \in Orders :
        /\ o = act[a].cur /\ local[o] = "filled" /\ claim[o] = "claimed" /\ o \notin receipt
        /\ \A b \in Actors : Undecided(b, o) => b = a
  BY MessageInHand
<1>3. UNCHANGED <<local, effects, delivered>>
  BY DEF SendRejected, Record, Release, rows, messages
<1>4. CASE SendRejected(a)
  <2>1. /\ UNCHANGED <<claim, receipt>> /\ act[a].pc = "send"
        /\ act'[a].pc = "release" /\ act'[a].cur = o
    BY <1>2, <1>4 DEF SendRejected, At, messages, Becomes, Actor
  <2>2. \A b \in Actors, x \in Orders : Undecided(b, x)' <=> Undecided(b, x)
    BY <1>2, <2>1 DEF Undecided
  <2>3. Closed' = Closed
    BY <2>1, <2>2 DEF Closed
  <2> QED
    BY <1>3, <2>3, InvisibleIf
<1>5. CASE Record(a)
  <2>1. /\ UNCHANGED claim /\ receipt' = receipt \cup {o}
        /\ act[a].pc = "record" /\ act'[a].pc = "publish"
    BY <1>2, <1>5 DEF Record, NextMessage, At, Becomes, Actor
  <2>2. \A b \in Actors, x \in Orders : Undecided(b, x)' <=> Undecided(b, x)
    BY <1>2, <2>1 DEF Undecided
  <2>3. \A b \in Actors : ~Undecided(b, o)
    BY <1>2, <2>1 DEF Undecided
  <2>4. Closed' = Closed
    BY <1>2, <2>1, <2>2, <2>3 DEF Closed
  <2> QED
    BY <1>3, <2>4, InvisibleIf
<1>6. CASE Release(a)
  <2>1. /\ UNCHANGED receipt /\ claim' = [claim EXCEPT ![o] = "failed"]
        /\ act[a].pc = "release" /\ act'[a].pc = "publish"
    BY <1>2, <1>6 DEF Release, NextMessage, At, Becomes, Actor
  <2>2. o \notin Closed /\ o \notin Closed'
    BY <1>2, <2>1 DEF Closed, Undecided
  <2>3. ASSUME NEW x \in Orders, x # o PROVE x \in Closed' <=> x \in Closed
    <3>1. \A b \in Actors : Undecided(b, x)' <=> Undecided(b, x)
      BY <1>2, <2>1, <2>3 DEF Undecided
    <3> QED
      BY <2>1, <2>3, <3>1 DEF Closed
  <2>4. Closed' = Closed
    BY <2>2, <2>3 DEF Closed
  <2> QED
    BY <1>3, <2>4, InvisibleIf
<1> QED
  BY <1>4, <1>5, <1>6

\* A receipt that is not written is not missed; a claim that cannot be
\* released closes the matter.
LEMMA RaisingDrops ==
  ASSUME PromiseInv, NEW a \in Actors, RecordOrReleaseRaises(a)
  PROVE  Contract!Drop({act[a].cur}) /\ act[a].cur \in Orders
<1>1. Publishes(a) /\ act[a].pc \in {"record", "release"}
  BY DEF Publishes, RecordOrReleaseRaises, At
<1>f. /\ UNCHANGED rows /\ act \in [Actors -> Actor]
      /\ \A b \in Actors, x \in Orders : b # a => (Undecided(b, x)' <=> Undecided(b, x))
      /\ claim \in [Orders -> {"none", "claimed", "failed"}]
      /\ delivered \in [Orders -> 0 .. 2]
  BY <1>1, PublicationFrame
<1> USE <1>1, <1>f
<1>2. PICK o \in Orders :
        /\ o = act[a].cur /\ local[o] = "filled" /\ claim[o] = "claimed" /\ o \notin receipt
        /\ \A b \in Actors : Undecided(b, o) => b = a
  BY MessageInHand
<1>3. /\ UNCHANGED <<local, effects, delivered, claim, receipt>>
      /\ StoreMayFail /\ act'[a].pc = "publish"
  BY DEF RecordOrReleaseRaises, NextMessage, rows, messages, Becomes, Actor
<1>4. \A b \in Actors : ~Undecided(b, o)'
  BY <1>2, <1>3 DEF Undecided
<1>5. o \in Closed'
  BY <1>2, <1>3, <1>4 DEF Closed
<1>6. ASSUME NEW x \in Orders, x # o PROVE x \in Closed' <=> x \in Closed
  <2>1. \A b \in Actors : Undecided(b, x)' <=> Undecided(b, x)
    BY <1>2, <1>3, <1>6 DEF Undecided
  <2> QED
    BY <1>3, <2>1 DEF Closed
<1>7. \A x \in Orders : x \in Closed' <=> x \in Closed \/ x \in {o}
  BY <1>5, <1>6
<1>8. Closed' = Closed \cup {o}
  BY <1>7, ClosedAre
<1> QED
  BY <1>2, <1>3, <1>8 DEF Contract!Drop, Terminal

\* A crash leaves the claims of the messages in hand to nobody.
LEMMA CrashDrops ==
  ASSUME PromiseInv, Crash
  PROVE  Contract!Drop(Closed' \ Closed)
<1>1. UNCHANGED <<local, effects, delivered, claim, receipt>> /\ MayCrash
  BY DEF Crash, rows, messages
<1>2. \A b \in Actors : act'[b] = Idle
  BY DEF Crash
<1>3. \A b \in Actors, x \in Orders : ~Undecided(b, x)'
  BY <1>2 DEF Undecided, Idle
<1>4. \A x \in Orders : x \in Closed' <=> x \in receipt \/ claim[x] = "claimed"
  BY <1>1, <1>3 DEF Closed
<1>5. ASSUME NEW x \in Closed' \ Closed PROVE x \in Orders /\ local[x] = "filled"
  <2>1. x \in Orders /\ \E b \in Actors : Undecided(b, x)
    BY <1>4 DEF Closed
  <2> QED
    BY <2>1 DEF PromiseInv, MessageInv, OnlyFilledInHand, Undecided, Holds
<1>6. Closed \subseteq Closed'
  BY <1>4 DEF Closed
<1>7. Closed' = Closed \cup (Closed' \ Closed)
  BY <1>6
<1> QED
  BY <1>1, <1>5, <1>7 DEF Contract!Drop, Terminal

\* Only a publication touches the messages.
LEMMA MessagesMove ==
  ASSUME [Next]_vars
  PROVE  UNCHANGED messages \/ \E c \in Actors : Publishes(c)
BY Zenon
   DEF Next, vars, Watch, Reconcile, Publish, Publishes, Crash, Commit, ReadPending,
       ReadRetryable, WatchPoll, CommitRaises, WatchEnds, PollFails, ReadOrders,
       ReconPoll, Apply, ApplyRaises, Learn, LearnRaises, Published, ClaimRaises,
       BrokerStep

\* What neither publishes nor crashes closes nothing.
LEMMA ClosedLeft ==
  ASSUME TypeOK, [Next]_vars, ~Crash, ~ \E c \in Actors : Publishes(c)
  PROVE  UNCHANGED messages /\ Closed' = Closed
<1>1. UNCHANGED messages
  BY MessagesMove
<1>2. \A b \in Actors, x \in Orders : Undecided(b, x)' <=> Undecided(b, x)
  BY OthersLeaveUndecided DEF UndecidedLeft
<1> QED
  BY <1>1, <1>2 DEF Closed, Undecided, messages

\* The watcher settles the order in hand, if it is still open, and leaves its
\* execution to the next reconciliation.
LEMMA CommitSettles ==
  ASSUME PromiseInv, Commit, Closed' = Closed
  PROVE  Contract!CNext
<1>1. PICK o \in Orders : o = act[Watcher].cur
  BY DEF PromiseInv, ClaimInv, InHand, Commit, At
<1>2. local \in [Orders -> Status] /\ effects \in [Orders -> 0 .. 2]
  BY DEF PromiseInv, ClaimInv, TypeOK
<1>3. PICK s : s = act[Watcher].change[o].new
  OBVIOUS
<1>4. UNCHANGED <<effects, delivered>>
  BY DEF Commit, messages
<1>5. IF s # local[o] /\ local[o] \notin Terminal
      THEN local' = [local EXCEPT ![o] = s] ELSE UNCHANGED local
  BY <1>1, <1>3 DEF Commit
<1> DEFINE stat == [x \in Orders |-> IF local[x] \in Terminal THEN local[x] ELSE "open"]
<1>6. CASE s # local[o] /\ local[o] \notin Terminal /\ s \in Terminal
  <2> DEFINE result == [x \in {o} |-> s]
  <2>1. result \in [{o} -> {"filled", "canceled"}]
    BY <1>6 DEF Terminal
  <2>2. stat' = [x \in Orders |-> IF x \in {o} THEN result[x] ELSE stat[x]]
    BY <1>2, <1>5, <1>6
  <2>3. stat[o] = "open"
    BY <1>6
  <2>4. Contract!Settle({o}, {})
    <3>1. \E f \in [{o} -> {"filled", "canceled"}] :
            stat' = [x \in Orders |-> IF x \in {o} THEN f[x] ELSE stat[x]]
      <4> HIDE DEF result, stat
      <4> QED
        BY <2>1, <2>2
    <3>2. \A x \in {o} : stat[x] = "open"
      BY <2>3
    <3>3. effects' = [x \in Orders |-> IF x \in {} THEN 1 ELSE effects[x]]
      BY <1>4, <1>2
    <3> QED
      BY <1>4, <3>1, <3>2, <3>3, Zenon DEF Contract!Settle
  <2> QED
    BY <2>4 DEF Contract!CNext
<1>7. CASE ~(s # local[o] /\ local[o] \notin Terminal /\ s \in Terminal)
  <2>1. stat' = stat
    BY <1>2, <1>5, <1>7
  <2> DEFINE result == [x \in {} |-> "filled"]
  <2>2. result \in [{} -> {"filled", "canceled"}]
    OBVIOUS
  <2>3. stat' = [x \in Orders |-> IF x \in {} THEN result[x] ELSE stat[x]]
    BY <2>1
  <2>4. Contract!Settle({}, {})
    <3>1. \E f \in [{} -> {"filled", "canceled"}] :
            stat' = [x \in Orders |-> IF x \in {} THEN f[x] ELSE stat[x]]
      <4> HIDE DEF result, stat
      <4> QED
        BY <2>2, <2>3
    <3>2. effects' = [x \in Orders |-> IF x \in {} THEN 1 ELSE effects[x]]
      BY <1>4, <1>2
    <3> QED
      BY <1>4, <3>1, <3>2, Zenon DEF Contract!Settle
  <2> QED
    BY <2>4 DEF Contract!CNext
<1> QED
  BY <1>6, <1>7

\* A reconciliation settles the open orders it found settled, and marks them
\* and those whose marker it clears.
LEMMA ApplySettles ==
  ASSUME PromiseInv, NEW r \in Reconcilers, Apply(r), Closed' = Closed
  PROVE  Contract!CNext
<1> DEFINE stat == [x \in Orders |-> IF local[x] \in Terminal THEN local[x] ELSE "open"]
           after == [x \in Orders |-> IF x \in Overwritten(r) THEN act[r].change[x].new
                                                              ELSE local[x]]
           S == {x \in Overwritten(r) : after[x] \in Terminal}
           X == {x \in Finalized(r) \cup Overwritten(r) : after[x] = "filled"}
           result == [x \in S |-> after[x]]
<1>1. /\ local' = after
      /\ effects' = [x \in Orders |-> IF x \in X THEN Again(effects[x]) ELSE effects[x]]
      /\ UNCHANGED delivered
  BY DEF Apply, messages
<1>2. /\ S \in SUBSET Orders /\ X \in SUBSET Orders
      /\ \A x \in Overwritten(r) : local[x] \notin Terminal
      /\ \A x \in Finalized(r) : marker[x] = "pending"
  BY DEF Overwritten, Finalized, Changed
<1>3. /\ \A x \in Orders : marker[x] = "pending" => local[x] \in Terminal
      /\ \A x \in Orders : effects[x] = IF local[x] = "filled" /\ marker[x] # "pending"
                                        THEN 1 ELSE 0
  BY DEF PromiseInv, MessageInv, EffectsInv, MarkerOnTerminal, EffectsExactlyOnce
<1>4. \A x \in S : stat[x] = "open"
  BY <1>2
<1>5. result \in [S -> {"filled", "canceled"}]
  BY DEF Terminal
<1>6. \A x \in Orders : x \notin S => (IF after[x] \in Terminal THEN after[x] ELSE "open")
                                        = stat[x]
  BY <1>2
<1>7. stat' = [x \in Orders |-> IF x \in S THEN result[x] ELSE stat[x]]
  BY <1>1, <1>2, <1>6
<1>8. \A x \in X : effects[x] = 0
  BY <1>2, <1>3 DEF Terminal
<1>9. \A x \in X : stat'[x] = "filled"
  BY <1>1, <1>2 DEF Terminal
<1>10. effects' = [x \in Orders |-> IF x \in X THEN 1 ELSE effects[x]]
  BY <1>1, <1>2, <1>8 DEF Again
<1> HIDE DEF S, X, result, after
<1>11. PICK T, Y \in SUBSET Orders : T = S /\ Y = X
  BY <1>2
<1>12. Contract!Settle(T, Y)
  BY <1>1, <1>4, <1>5, <1>7, <1>8, <1>9, <1>10, <1>11 DEF Contract!Settle
<1> QED
  BY <1>12 DEF Contract!CNext

\* Every step settles, tells, drops or is invisible.
LEMMA FillContractStep ==
  ASSUME PromiseInv, [Next]_vars
  PROVE  [Contract!CNext]_(Contract!contractVars)
<1>a. TypeOK
  BY DEF PromiseInv, ClaimInv
<1> USE DEF Invisible
<1>1. ASSUME NEW a \in Actors, Publishes(a)
      PROVE  Contract!CNext \/ Invisible
  <2>1. ASSUME NEW o \in Orders, Claim(a, o) PROVE Invisible
    BY <2>1, ClaimIsInvisible
  <2>2. CASE SendAccepted(a) \/ SendAnswerLost(a)
    <3>1. Contract!Tell(act[a].cur, SendAccepted(a)) /\ act[a].cur \in Orders
      BY <2>2, SendingTells
    <3>2. SendAccepted(a) \in BOOLEAN
      BY DEF SendAccepted
    <3> QED
      BY <3>1, <3>2 DEF Contract!CNext
  <2>3. CASE SendRejected(a) \/ Record(a) \/ Release(a)
    BY <2>3, RestIsInvisible
  <2>4. CASE RecordOrReleaseRaises(a)
    <3>1. Contract!Drop({act[a].cur}) /\ {act[a].cur} \in SUBSET Orders
      BY <2>4, RaisingDrops
    <3> QED
      BY <3>1 DEF Contract!CNext
  <2> QED
    BY <1>1, <2>1, <2>2, <2>3, <2>4 DEF Publishes
<1>2. CASE Crash
  <2>1. Contract!Drop(Closed' \ Closed)
    BY <1>2, CrashDrops
  <2>2. Closed' \ Closed \in SUBSET Orders
    BY DEF Closed, Undecided
  <2> QED
    BY <2>1, <2>2 DEF Contract!CNext
<1>3. CASE ~Crash /\ ~ \E c \in Actors : Publishes(c)
  <2>1. UNCHANGED messages /\ Closed' = Closed
    BY <1>a, <1>3, ClosedLeft
  <2>2. CASE UNCHANGED rows
    BY <2>1, <2>2, InvisibleIf DEF rows, messages
  <2>3. CASE Commit
    BY <2>1, <2>3, CommitSettles
  <2>4. ASSUME NEW r \in Reconcilers, Apply(r) PROVE Contract!CNext
    BY <2>1, <2>4, ApplySettles
  <2> QED
    BY <2>2, <2>3, <2>4, RowsMove
<1> QED
  BY <1>1, <1>2, <1>3

\* The watcher and the reconciliations keep their contract, for any number of
\* orders and of them, and whatever crashes, fails or is lost.
THEOREM FillsKeepContract == Spec => KeepsContract
<1>1. Init => Contract!CInit
  <2> SUFFICES ASSUME Init PROVE Contract!CInit
    OBVIOUS
  <2>1. local = [o \in Orders |-> "new"] /\ effects = [o \in Orders |-> 0]
        /\ delivered = [o \in Orders |-> 0]
    BY DEF Init
  <2>2. Closed = {}
    BY DEF Init, Closed, Undecided
  <2> QED
    BY <2>1, <2>2 DEF Contract!CInit, Terminal
<1>2. PromiseInv /\ [Next]_vars => [Contract!CNext]_(Contract!contractVars)
  BY FillContractStep
<1> QED
  BY <1>1, <1>2, PromiseInvHolds, PTL DEF Spec, KeepsContract, Contract!Spec

=============================================================================
