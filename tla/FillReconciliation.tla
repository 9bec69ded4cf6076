-------------------------- MODULE FillReconciliation --------------------------
(***************************************************************************)
(* What becomes of a paper order once the broker has it: the intraday      *)
(* watcher (run_trade_fill_watch), the reconciliations                     *)
(* (reconcile_broker_orders, called by the post-market review, by the      *)
(* scheduled job and by a script) and the publication of the Telegram      *)
(* message of a fill (publish_trade_fill_notifications), all at work on    *)
(* the same rows of broker_orders and agent_events.                        *)
(*                                                                         *)
(* Each step is one transaction of the store or one call of the broker or  *)
(* of Telegram.  Prices, quantities and texts are left out; orders are     *)
(* numbered by created_at.                                                 *)
(***************************************************************************)
EXTENDS Integers, FiniteSets

CONSTANTS
  N,                 \* number of orders
  Watcher,           \* the trade_fill_watch job, which never overlaps itself
  Reconcilers,       \* the callers of reconcile_broker_orders
  Learners,          \* those that call it with update_learning=True
  Silent,            \* those that publish nothing (the script)
  WatchEnabled,      \* TRADE_FILL_WATCH_ENABLED
  WatchLimit,        \* trade_fill_watch_max_pending_per_run
  ReconLimit,        \* limit of reconcile_broker_orders
  MayCrash,          \* the process may die between any two steps
  StoreMayFail,      \* a transaction of the store may raise
  LearningMayFail,   \* update_signal_outcomes may raise
  AnswerMayBeLost    \* Telegram accepts a message and the answer never arrives

ASSUME OrdersAssumption == N \in Nat
ASSUME LimitsAssumption == WatchLimit \in Nat /\ ReconLimit \in Nat
ASSUME ActorsAssumption ==
  /\ Watcher \notin Reconcilers
  /\ Learners \subseteq Reconcilers
  /\ Silent \subseteq Reconcilers
ASSUME FlagsAssumption ==
  {WatchEnabled, MayCrash, StoreMayFail, LearningMayFail, AnswerMayBeLost} \subseteq BOOLEAN

VARIABLES
  remote,      \* status of each order at the broker
  local,       \* broker_orders.status
  marker,      \* payload.reconciliation_finalization.status
  history,     \* the statuses in payload.reconciliation_history
  effects,     \* how often the execution of a fill was marked (history, up to 2)
  claim,       \* the latest claim of the message of each order
  failed,      \* the orders with a telegram_trade_fill_claim_failed event
  receipt,     \* the orders with a receipt telegram_trade_fill:<id>
  delivered,   \* messages that reached the chat (history, up to 2)
  unanswered,  \* the orders one of whose messages was accepted without an answer (history)
  act          \* the local state of each actor

rows == <<local, marker, history, effects>>
messages == <<claim, failed, receipt, delivered, unanswered>>
vars == <<remote, rows, messages, act>>

Orders == 1 .. N
Actors == Reconcilers \cup {Watcher}
Status == {"new", "partially_filled", "filled", "canceled"}
Terminal == {"filled", "canceled"}

\* An actor: the orders it has still to ask the broker about, the rows as it
\* read them, the changes it found, the fills it has still to announce, and
\* the order in hand.
Control == {"idle", "retries", "poll", "commit", "learn", "publish", "send", "record", "release"}
Unread == [status |-> "none", history |-> {}]
NoChange == [new |-> "none", fin |-> FALSE]
Row == [status : Status \cup {"none"}, history : SUBSET Status]
Change == [new : Status \cup {"none"}, fin : BOOLEAN]
Actor == [pc : Control, todo : SUBSET Orders, seen : [Orders -> Row],
          change : [Orders -> Change], out : SUBSET Orders, cur : Orders \cup {0}]
Idle == [pc |-> "idle", todo |-> {}, seen |-> [o \in Orders |-> Unread],
         change |-> [o \in Orders |-> NoChange], out |-> {}, cur |-> 0]

TypeOK ==
  /\ remote \in [Orders -> Status]
  /\ local \in [Orders -> Status]
  /\ marker \in [Orders -> {"none", "pending", "applied"}]
  /\ history \in [Orders -> SUBSET Status]
  /\ effects \in [Orders -> 0 .. 2]
  /\ claim \in [Orders -> {"none", "claimed", "failed"}]
  /\ failed \subseteq Orders
  /\ receipt \subseteq Orders
  /\ delivered \in [Orders -> 0 .. 2]
  /\ unanswered \subseteq Orders
  /\ act \in [Actors -> Actor]

\* An order begins as its submission left it: accepted, not reconciled yet.
Init ==
  /\ remote = [o \in Orders |-> "new"]
  /\ local = [o \in Orders |-> "new"]
  /\ marker = [o \in Orders |-> "none"]
  /\ history = [o \in Orders |-> {}]
  /\ effects = [o \in Orders |-> 0]
  /\ claim = [o \in Orders |-> "none"]
  /\ failed = {}
  /\ receipt = {}
  /\ delivered = [o \in Orders |-> 0]
  /\ unanswered = {}
  /\ act = [a \in Actors |-> Idle]

At(a, where) == act[a].pc = where
Becomes(a, state) == act' = [act EXCEPT ![a] = state]

\* One more event of a kind of which a second one is already one too many.
Again(n) == IF n = 0 THEN 1 ELSE 2

Oldest(k, S) == {o \in S : Cardinality({p \in S : p < o}) < k}
Newest(k, S) == {o \in S : Cardinality({p \in S : p > o}) < k}

-----------------------------------------------------------------------------
\* The broker and the process.

BrokerStep(o, s) ==
  /\ remote[o] \notin Terminal
  /\ s # remote[o] /\ s # "new"
  /\ remote' = [remote EXCEPT ![o] = s]
  /\ UNCHANGED <<rows, messages, act>>

\* Every thread dies with the process; an open transaction is rolled back.
Crash ==
  /\ MayCrash
  /\ act' = [a \in Actors |-> Idle]
  /\ UNCHANGED <<remote, rows, messages>>

-----------------------------------------------------------------------------
\* The watcher: trade_fill_watch_job.

\* Mutant: the pattern of _pending_orders in place of the list.
WatchPendingLike == {o \in Orders : local[o] = "new"}

\* An exact list of the terminal statuses.
WatchPending == {o \in Orders : local[o] \notin Terminal}

Retryable == {o \in failed : local[o] = "filled" /\ o \notin receipt}

ReadPending ==
  /\ WatchEnabled
  /\ At(Watcher, "idle")
  /\ Becomes(Watcher, [act[Watcher] EXCEPT !.pc = "retries",
                                           !.todo = Oldest(WatchLimit, WatchPending)])
  /\ UNCHANGED <<remote, rows, messages>>

ReadRetryable ==
  /\ At(Watcher, "retries")
  /\ Becomes(Watcher, [act[Watcher] EXCEPT !.pc = "publish",
                                           !.out = Oldest(WatchLimit, Retryable)])
  /\ UNCHANGED <<remote, rows, messages>>

\* The provider answers with the status of the moment; it is committed later.
WatchPoll(o) ==
  /\ At(Watcher, "poll")
  /\ o \in act[Watcher].todo
  /\ Becomes(Watcher, [act[Watcher] EXCEPT !.pc = "commit",
                                           !.todo = @ \ {o},
                                           !.cur = o,
                                           !.change[o].new = remote[o]])
  /\ UNCHANGED <<remote, rows, messages>>

\* apply_broker_order_snapshot, and the publication when it moved to filled.
Commit ==
  LET o == act[Watcher].cur
      s == act[Watcher].change[o].new
      moved == s # local[o] /\ local[o] \notin Terminal
  IN
  /\ At(Watcher, "commit")
  /\ IF moved
     THEN /\ local' = [local EXCEPT ![o] = s]
          /\ history' = [history EXCEPT ![o] = @ \cup {s}]
          /\ marker' = [marker EXCEPT ![o] = IF s \in Terminal THEN "pending" ELSE @]
     ELSE UNCHANGED <<local, history, marker>>
  /\ Becomes(Watcher, [act[Watcher] EXCEPT !.pc = "publish",
                                           !.cur = 0,
                                           !.change[o] = NoChange,
                                           !.out = IF moved /\ s = "filled" THEN {o} ELSE {}])
  /\ UNCHANGED <<remote, effects, messages>>

\* Mutant: publishes what the provider said although the commit failed.
CommitRaisesAndTells ==
  LET o == act[Watcher].cur IN
  /\ StoreMayFail
  /\ At(Watcher, "commit")
  /\ Becomes(Watcher, [act[Watcher] EXCEPT !.pc = "publish",
                                           !.cur = 0,
                                           !.out = IF act[Watcher].change[o].new = "filled" THEN {o} ELSE {}])
  /\ UNCHANGED <<remote, rows, messages>>

\* The exception is caught: the next order is polled.
CommitRaises ==
  /\ StoreMayFail
  /\ At(Watcher, "commit")
  /\ Becomes(Watcher, [act[Watcher] EXCEPT !.pc = "poll",
                                           !.cur = 0,
                                           !.change[act[Watcher].cur] = NoChange])
  /\ UNCHANGED <<remote, rows, messages>>

WatchEnds ==
  /\ At(Watcher, "poll")
  /\ act[Watcher].todo = {}
  /\ Becomes(Watcher, Idle)
  /\ UNCHANGED <<remote, rows, messages>>

\* Both pollers: no answer, an answer without status, or still in backoff.
PollFails(a, o) ==
  /\ At(a, "poll")
  /\ o \in act[a].todo
  /\ Becomes(a, [act[a] EXCEPT !.todo = @ \ {o}])
  /\ UNCHANGED <<remote, rows, messages>>

-----------------------------------------------------------------------------
\* A reconciliation: reconcile_broker_orders(apply=True).

\* Mutant: the query before P-L69-R1, which does not look at the marker.
ReconPendingOpen == {o \in Orders : local[o] = "new"}

\* LIKE '%filled%' takes partially_filled for a terminal status.
ReconPending == {o \in Orders : local[o] = "new" \/ marker[o] = "pending"}

\* The rows with a pending marker become changes without asking the broker.
ReadOrders(r) ==
  LET found == Newest(ReconLimit, ReconPending)
      local_only == {o \in found : marker[o] = "pending"}
  IN
  /\ At(r, "idle")
  /\ found # {}
  /\ Becomes(r, [act[r] EXCEPT
       !.pc = "poll",
       !.todo = found \ local_only,
       !.seen = [o \in Orders |-> IF o \in found \ local_only
                                     THEN [status |-> local[o], history |-> history[o]] ELSE Unread],
       !.change = [o \in Orders |-> IF o \in local_only
                                       THEN [new |-> local[o], fin |-> TRUE] ELSE NoChange]])
  /\ UNCHANGED <<remote, rows, messages>>

ReconPoll(r, o) ==
  /\ At(r, "poll")
  /\ o \in act[r].todo
  /\ Becomes(r, [act[r] EXCEPT
       !.todo = @ \ {o},
       !.change[o].new = IF remote[o] # act[r].seen[o].status THEN remote[o] ELSE @])
  /\ UNCHANGED <<remote, rows, messages>>

Changed(r) == {o \in Orders : act[r].change[o] # NoChange}

\* Mutant: trusts the marker read at the start of the pass.
FinalizedAsRead(r) == {o \in Changed(r) : act[r].change[o].fin \/ local[o] \in Terminal}

\* Mutant: trusts the status read at the start of the pass.
OverwrittenAsRead(r) == {o \in Changed(r) : ~act[r].change[o].fin}

\* The two ways a change is applied; any other is skipped.
Finalized(r) == {o \in Changed(r) : /\ marker[o] = "pending"
                                    /\ act[r].change[o].fin \/ local[o] \in Terminal}
Overwritten(r) == {o \in Changed(r) : ~act[r].change[o].fin /\ local[o] \notin Terminal}

MarkerAfter(r) == [o \in Orders |-> IF o \in Finalized(r) THEN "applied" ELSE marker[o]]

\* Where the result goes once the rows are committed.
AfterApply(r) == IF r \in Learners /\ Changed(r) # {} THEN "learn" ELSE "publish"
Announced(r) == IF r \in Silent THEN {} ELSE {o \in Orders : act[r].change[o].new = "filled"}

\* One BEGIN IMMEDIATE transaction over every change.  The row that is
\* overwritten gets the payload read at the start of the pass.
Apply(r) ==
  LET status == [o \in Orders |-> IF o \in Overwritten(r) THEN act[r].change[o].new ELSE local[o]]
      marked == {o \in Finalized(r) \cup Overwritten(r) : status[o] = "filled"}
  IN
  /\ At(r, "poll")
  /\ act[r].todo = {}
  /\ local' = status
  /\ marker' = MarkerAfter(r)
  /\ history' = [o \in Orders |-> IF o \in Overwritten(r)
                                 THEN act[r].seen[o].history \cup {status[o]} ELSE history[o]]
  /\ effects' = [o \in Orders |-> IF o \in marked THEN Again(effects[o]) ELSE effects[o]]
  /\ Becomes(r, [Idle EXCEPT !.pc = AfterApply(r), !.out = Announced(r)])
  /\ UNCHANGED <<remote, messages>>

\* Any failure inside the transaction rolls it back and ends the pass.
ApplyRaises(r) ==
  /\ StoreMayFail
  /\ At(r, "poll")
  /\ act[r].todo = {}
  /\ Becomes(r, Idle)
  /\ UNCHANGED <<remote, rows, messages>>

\* update_signal_outcomes runs after the commit and before the changes are returned.
Learn(r) ==
  /\ At(r, "learn")
  /\ Becomes(r, [act[r] EXCEPT !.pc = "publish"])
  /\ UNCHANGED <<remote, rows, messages>>

LearnRaises(r) ==
  /\ LearningMayFail
  /\ At(r, "learn")
  /\ Becomes(r, Idle)
  /\ UNCHANGED <<remote, rows, messages>>

-----------------------------------------------------------------------------
\* The publication of the fills in hand: publish_trade_fill_notifications.

Published(a) ==
  /\ At(a, "publish")
  /\ act[a].out = {}
  /\ Becomes(a, IF a = Watcher THEN [act[a] EXCEPT !.pc = "poll"] ELSE Idle)
  /\ UNCHANGED <<remote, rows, messages>>

\* Mutant: a claim without receipt is taken for an abandoned one.
FreeOfReceipt(o) == o \notin receipt

\* Mutant: any failed claim, and not only the latest, frees the message.
FreeOnceFailed(o) == o \notin receipt /\ (claim[o] # "claimed" \/ o \in failed)

Free(o) == o \notin receipt /\ claim[o] # "claimed"

\* claim_trade_fill_notification; the look for a receipt that precedes it is
\* repeated inside the transaction.
Claim(a, o) ==
  /\ At(a, "publish")
  /\ o \in act[a].out
  /\ IF Free(o)
     THEN /\ claim' = [claim EXCEPT ![o] = "claimed"]
          /\ Becomes(a, [act[a] EXCEPT !.pc = "send", !.cur = o, !.out = @ \ {o}])
     ELSE /\ Becomes(a, [act[a] EXCEPT !.out = @ \ {o}])
          /\ UNCHANGED claim
  /\ UNCHANGED <<remote, rows, failed, receipt, delivered, unanswered>>

\* Nothing catches it before the caller of the publication: the pass is over.
ClaimRaises(a) ==
  /\ StoreMayFail
  /\ At(a, "publish")
  /\ act[a].out # {}
  /\ Becomes(a, Idle)
  /\ UNCHANGED <<remote, rows, messages>>

SendAccepted(a) ==
  /\ At(a, "send")
  /\ delivered' = [delivered EXCEPT ![act[a].cur] = Again(@)]
  /\ Becomes(a, [act[a] EXCEPT !.pc = "record"])
  /\ UNCHANGED <<remote, rows, claim, failed, receipt, unanswered>>

SendRejected(a) ==
  /\ At(a, "send")
  /\ Becomes(a, [act[a] EXCEPT !.pc = "release"])
  /\ UNCHANGED <<remote, rows, messages>>

\* A timeout while the answer is read: the message is out, and it raises.
SendAnswerLost(a) ==
  /\ AnswerMayBeLost
  /\ At(a, "send")
  /\ delivered' = [delivered EXCEPT ![act[a].cur] = Again(@)]
  /\ unanswered' = unanswered \cup {act[a].cur}
  /\ Becomes(a, [act[a] EXCEPT !.pc = "release"])
  /\ UNCHANGED <<remote, rows, claim, failed, receipt>>

NextMessage(a) == Becomes(a, [act[a] EXCEPT !.pc = "publish", !.cur = 0])

Record(a) ==
  /\ At(a, "record")
  /\ receipt' = receipt \cup {act[a].cur}
  /\ NextMessage(a)
  /\ UNCHANGED <<remote, rows, claim, failed, delivered, unanswered>>

\* Mutant: the claim is dropped, and no failure is recorded.
ReleaseUnrecorded(a) ==
  /\ At(a, "release")
  /\ claim' = [claim EXCEPT ![act[a].cur] = "none"]
  /\ NextMessage(a)
  /\ UNCHANGED <<remote, rows, failed, receipt, delivered, unanswered>>

Release(a) ==
  /\ At(a, "release")
  /\ claim' = [claim EXCEPT ![act[a].cur] = "failed"]
  /\ failed' = failed \cup {act[a].cur}
  /\ NextMessage(a)
  /\ UNCHANGED <<remote, rows, receipt, delivered, unanswered>>

\* Neither failure is retried: the claim stays.
RecordOrReleaseRaises(a) ==
  /\ StoreMayFail
  /\ At(a, "record") \/ At(a, "release")
  /\ NextMessage(a)
  /\ UNCHANGED <<remote, rows, messages>>

-----------------------------------------------------------------------------
Watch ==
  \/ ReadPending
  \/ ReadRetryable
  \/ \E o \in Orders : WatchPoll(o)
  \/ Commit
  \/ CommitRaises
  \/ WatchEnds

Reconcile(r) ==
  \/ ReadOrders(r)
  \/ \E o \in Orders : ReconPoll(r, o)
  \/ Apply(r)
  \/ ApplyRaises(r)
  \/ Learn(r)
  \/ LearnRaises(r)

Publish(a) ==
  \/ Published(a)
  \/ \E o \in Orders : Claim(a, o)
  \/ ClaimRaises(a)
  \/ SendAccepted(a)
  \/ SendRejected(a)
  \/ SendAnswerLost(a)
  \/ Record(a)
  \/ Release(a)
  \/ RecordOrReleaseRaises(a)

Next ==
  \/ \E o \in Orders, s \in Status : BrokerStep(o, s)
  \/ Crash
  \/ Watch
  \/ \E r \in Reconcilers : Reconcile(r)
  \/ \E a \in Actors : Publish(a) \/ \E o \in Orders : PollFails(a, o)

Spec == Init /\ [][Next]_vars

\* Jobs are started again and again and run to their end; a broker and a
\* Telegram that are asked for ever answer for ever.
Fairness ==
  /\ WF_vars(Watch)
  /\ \A r \in Reconcilers : WF_vars(Reconcile(r))
  /\ \A a \in Actors : WF_vars(Publish(a)) /\ SF_vars(SendAccepted(a))
  /\ \A o \in Orders : SF_vars(WatchPoll(o))
  /\ \A r \in Reconcilers, o \in Orders : SF_vars(ReconPoll(r, o))

LiveSpec == Spec /\ Fairness

-----------------------------------------------------------------------------
\* The execution of a fill reaches the signal, the learning observation and
\* the execution quality exactly once: in the transaction that settles the
\* order, or in the one that clears the marker the watcher left.
EffectsExactlyOnce ==
  \A o \in Orders :
    effects[o] = IF local[o] = "filled" /\ marker[o] # "pending" THEN 1 ELSE 0

\* Whoever settles an order first wins: no later snapshot, however stale its
\* reading of the row, takes the order out of its terminal status.
TerminalIsFinal ==
  [][\A o \in Orders : local[o] \in Terminal => local'[o] = local[o]]_vars

\* The chat never learns of a fill the store has not committed.
MessageAfterCommit ==
  \A o \in Orders : delivered[o] > 0 => local[o] = "filled"

\* One message per fill, whoever publishes it, however often it is retried and
\* whatever crashes or fails to be written in between, unless the answer to an
\* accepted message was lost.
TwiceOnlyUnanswered == \A o \in Orders : delivered[o] > 1 => o \in unanswered

\* The one whose duty it is to announce a fill: an actor with the order in
\* hand, the next reconciliation, which reads the orders with a pending marker,
\* or the next watch, which reads those with a failed claim.
SomeoneWillAnnounce(o) ==
  \/ o \in receipt
  \/ \E a \in Actors : o \in act[a].out \/ (o = act[a].cur /\ local[o] = "filled")
  \/ o \in ReconPending
  \/ o \in Retryable

\* Every fill that is committed is announced or still has someone to do it.
NoFillForgotten == \A o \in Orders : local[o] = "filled" => SomeoneWillAnnounce(o)

\* An order the broker has settled is settled locally.
EveryOrderSettles ==
  \A o \in Orders : remote[o] \in Terminal ~> local[o] \in Terminal

\* A fill is announced and its execution is marked.
EveryFillIsFinished ==
  \A o \in Orders : local[o] = "filled" ~> effects[o] = 1 /\ o \in receipt

-----------------------------------------------------------------------------
\* An actor that may still let go of the message of an order.
Undecided(a, o) == act[a].pc \in {"send", "release"} /\ act[a].cur = o

\* The fills of which no further message goes out: there is a receipt, or a
\* claim that nobody will release.
Closed ==
  {o \in Orders : o \in receipt \/ (claim[o] = "claimed" /\ \A a \in Actors : ~Undecided(a, o))}

\* The contract of the watcher and the reconciliations: FillContract, with the
\* rows as the settled orders and the claims and receipts as what is closed.
Contract ==
  INSTANCE FillContract WITH
    Faults <- MayCrash \/ StoreMayFail,
    status <- [o \in Orders |-> IF local[o] \in Terminal THEN local[o] ELSE "open"],
    executed <- effects,
    told <- delivered,
    closed <- Closed

\* Whatever interleaves, crashes, fails or is lost, every step settles open
\* orders, marks fills that were not marked, tells of fills whose matter is
\* open, drops announcements after a fault, or is invisible.
KeepsContract == Contract!Spec

=============================================================================
