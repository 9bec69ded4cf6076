-------------------------- MODULE OrderSubmission --------------------------
(***************************************************************************)
(* From a decision to an order at the broker and its row in the store: the *)
(* buys and sells of a market cycle (cycle_runner.py), the buys of the     *)
(* pre-earnings study and the risk exits of the portfolio watch            *)
(* (scheduler.py), the plans sent by hand (main.py: execute-approved), the *)
(* order plan tables (storage.py), submit_paper_order_plan                 *)
(* (tools/execution.py) and the risk budget it consults (risk_budget.py).  *)
(*                                                                         *)
(* A run decides on a portfolio it read from the broker earlier, saves its *)
(* plans, and then sends them one by one; each call of the broker and each *)
(* transaction is a step.  A run has at most one plan per symbol, named    *)
(* <<run, symbol>>, which is the client_order_id too.  Every buy has one   *)
(* unit of risk.  The broker is modelled from the way the code uses it: it *)
(* refuses a client_order_id it has seen, and the sale of what is not      *)
(* there or is being sold.                                                 *)
(***************************************************************************)
EXTENDS Naturals, Sequences, FiniteSets

CONSTANTS
  Symbols,
  Cycles, Earnings, Watches, Clis, \* the runs of each kind
  MaxDaily,   \* max_daily_buy_orders, the limit of the pre-earnings study
  CycleLimits,\* what _effective_daily_buy_limit may answer a cycle
  Budget,     \* buys of new risk a day, max_new_risk_per_day_pct
  Var,        \* buys of open risk, daily_var_budget_pct
  LastDay,    \* bound on the days
  None

Runs == Cycles \cup Earnings \cup Watches \cup Clis
Jobs == Cycles \cup Earnings
Plans == Runs \X Symbols
Days == 1 .. LastDay
Views == [ordered : SUBSET Symbols, held : SUBSET Symbols]
BudgetStates == [day : Days, open : Nat, new : Nat]

ASSUME OrderAssumption ==
  /\ MaxDaily \in Nat /\ CycleLimits \subseteq Nat /\ Budget \in Nat /\ Var \in Nat /\ LastDay \in Nat
  /\ Cycles \cap Earnings = {} /\ Jobs \cap Watches = {}
  /\ Clis \cap (Jobs \cup Watches) = {}
  /\ None \notin Plans \cup Views \cup BudgetStates

VARIABLES
  day,
  plan,     \* order_plans: side, status and day of every plan
  rows,     \* broker_orders: plan and day of every row, the newest last
  budget,   \* risk_budget_state: date, open risk, new risk of that date
  order,    \* the broker: status and day of the order of every plan
  position, \* the broker: symbol -> the filled buys it is made of
  pc,       \* what a run does next
  view,     \* the portfolio a run has read, while it decides on it
  todo,     \* the symbols whose plan it has still to send
  cur,      \* the plan it is sending
  read,     \* the budget it has read, until it writes it back
  missed,   \* history: plans at the broker whose row could not be written
  overlap,  \* history: two runs that may buy were under way at once
  unchecked,\* history: a buy went out after an error of the budget
  limit     \* history: the daily limit by which a run chose its buys, 0 for none

storeVars == <<plan, rows>>
brokerVars == <<order, position>>
runVars == <<view, todo, cur, read>>
history == <<missed, overlap, unchecked, limit>>
vars == <<day, plan, rows, budget, order, position, pc, view, todo, cur, read,
          missed, overlap, unchecked, limit>>

PCs == {"off", "plan", "load", "take", "consume", "submit", "save", "done"}

TypeOK ==
  /\ day \in Days
  /\ plan \in [Plans -> [side : {"buy", "sell"}, day : Days \cup {0},
                         status : {"none", "PENDING", "SUBMITTED", "EXPIRED"}]]
  /\ rows \in Seq([plan : Plans, day : Days])
  /\ budget \in BudgetStates
  /\ order \in [Plans -> [status : {"none", "open", "filled", "dead"}, day : Days \cup {0}]]
  /\ position \in [Symbols -> SUBSET Plans]
  /\ pc \in [Runs -> PCs]
  /\ view \in [Runs -> Views \cup {None}]
  /\ todo \in [Runs -> SUBSET Plans]
  /\ cur \in [Runs -> Plans \cup {None}]
  /\ read \in [Runs -> BudgetStates \cup {None}]
  /\ missed \subseteq Plans
  /\ overlap \in BOOLEAN
  /\ unchecked \in BOOLEAN
  /\ limit \in [Runs -> Nat]

-----------------------------------------------------------------------------

SymbolOf(p) == p[2]

IsBuy(p) == plan[p].side = "buy"

At(r, place) == pc[r] = place

Goto(r, place) == pc' = [pc EXCEPT ![r] = place]

Rowed == {rows[i].plan : i \in DOMAIN rows}

InProgress(r) == pc[r] \notin {"off", "done"}

\* The symbols with an open order.
Ordered == {s \in Symbols : \E p \in Plans : SymbolOf(p) = s /\ order[p].status = "open"}

Held == {s \in Symbols : position[s] # {}}

\* Mutant: open orders do not make a symbol busy.
BusyIfHeld(r) == view[r].held

\* A symbol with an open order or, position adds being disabled, a position
\* is not bought.
Busy(r) == view[r].ordered \cup view[r].held

\* count_broker_orders of the day.
UsedBuys == Cardinality({i \in DOMAIN rows : rows[i].day = day /\ IsBuy(rows[i].plan)})

\* A cycle computes its limit from its plans, the learning mode, the stage of
\* the allocation policy and the thesis on the market.
DailyLimits(r) == IF r \in Earnings THEN {MaxDaily} ELSE CycleLimits

\* Mutant: every run uses its limit up anew.
WithinForTheRun(buys, l) == l > 0 => Cardinality(buys) <= l

\* _apply_daily_buy_limit: what the buys of the day leave of the limit, and
\* everything under a limit of zero.  (A blocked allocation policy leaves
\* nothing; no buys are always a possible choice.)
WithinDailyLimit(buys, l) == l > 0 => UsedBuys + Cardinality(buys) <= l \/ buys = {}

\* The rows of buys of a symbol, whatever has become of them.
BuyRows(s) == {i \in DOMAIN rows : IsBuy(rows[i].plan) /\ SymbolOf(rows[i].plan) = s}

\* Mutant: the rows are read from the oldest to the newest.
OldestBuyPlan(s) == rows[CHOOSE i \in BuyRows(s) : \A j \in BuyRows(s) : i <= j].plan

\* latest_executed_buy_plans_by_symbol: whose stop and take levels apply.
LatestBuyPlan(s) == rows[CHOOSE i \in BuyRows(s) : \A j \in BuyRows(s) : i >= j].plan

-----------------------------------------------------------------------------
(* The tables.                                                             *)

Saved(P, side) ==
  [p \in Plans |-> IF p \in P THEN [side |-> side, day |-> day, status |-> "PENDING"]
                              ELSE plan[p]]

\* expire_stale_pending_order_plans: the session of the plan is over.
Expired ==
  [p \in Plans |-> IF plan[p].status = "PENDING" /\ plan[p].day < day
                   THEN [plan[p] EXCEPT !.status = "EXPIRED"] ELSE plan[p]]

Pending == {p \in Plans : plan[p].status = "PENDING" /\ plan[p].day = day /\ p \notin Rowed}

-----------------------------------------------------------------------------
(* Deciding.                                                               *)

\* alpaca_portfolio_snapshot, before anything is decided.
Snapshot(r) ==
  /\ At(r, "off") /\ r \notin Clis
  /\ view' = [view EXCEPT ![r] = [ordered |-> Ordered, held |-> Held]]
  /\ Goto(r, "plan")
  /\ overlap' = (overlap \/ (r \notin Watches /\ \E q \in Jobs \cup Clis : InProgress(q)))
  /\ UNCHANGED <<day, storeVars, budget, brokerVars, todo, cur, read, missed, unchecked, limit>>

\* A cycle or a pre-earnings study: at most one buy per symbol that is free,
\* within what the limit of the run leaves, and sells of what is held.  The study
\* leaves out the symbols with a pending buy, and has no sells.
Decide(r) ==
  /\ At(r, "plan") /\ r \in Jobs
  /\ \E l \in DailyLimits(r),
        buys \in SUBSET (Symbols \ Busy(r)),
        sells \in SUBSET (view[r].held \ view[r].ordered) :
       /\ WithinDailyLimit(buys, l)
       /\ r \in Earnings =>
            /\ sells = {}
            /\ \A p \in Pending : IsBuy(p) => SymbolOf(p) \notin buys
       /\ LET base == IF r \in Earnings THEN Expired ELSE plan
          IN plan' = [p \in Plans |->
               IF p[1] = r /\ p[2] \in buys \cup sells
               THEN [side |-> IF p[2] \in buys THEN "buy" ELSE "sell",
                     day |-> day, status |-> "PENDING"]
               ELSE base[p]]
       /\ limit' = [limit EXCEPT ![r] = IF buys = {} THEN @ ELSE l]
  /\ view' = [view EXCEPT ![r] = None]
  /\ Goto(r, "load")
  /\ UNCHANGED <<day, rows, budget, brokerVars, todo, cur, read, missed, overlap, unchecked>>

\* The portfolio watch: positions without an open order and with the levels
\* of a recorded buy, whose price has crossed one of them.
Trigger(r) ==
  /\ At(r, "plan") /\ r \in Watches
  /\ \E crossed \in SUBSET {s \in view[r].held \ view[r].ordered : BuyRows(s) # {}} :
       todo' = [todo EXCEPT ![r] = {<<r, s>> : s \in crossed}]
  /\ view' = [view EXCEPT ![r] = None]
  /\ Goto(r, "take")
  /\ UNCHANGED <<day, storeVars, budget, brokerVars, cur, read, history>>

\* pending_order_plans: those of the run itself or, by hand, of any run.
Load(r) ==
  /\ \/ At(r, "load") /\ overlap' = overlap
     \/ /\ At(r, "off") /\ r \in Clis
        /\ overlap' = (overlap \/ \E q \in Jobs \cup Clis : InProgress(q))
  /\ todo' = [todo EXCEPT ![r] = {p \in Pending : r \in Clis \/ p[1] = r}]
  /\ plan' = Expired
  /\ Goto(r, "take")
  /\ UNCHANGED <<day, rows, budget, brokerVars, view, cur, read, missed, unchecked, limit>>

-----------------------------------------------------------------------------
(* Sending the plans, one by one.                                          *)

\* A plan that failed stays as it is in the table.  By hand, the first
\* failure ends the command.
Failed(r) ==
  /\ todo' = [todo EXCEPT ![r] = IF r \in Clis THEN {} ELSE @]
  /\ cur' = [cur EXCEPT ![r] = None]
  /\ read' = [read EXCEPT ![r] = None]
  /\ Goto(r, "take")

\* The watch saves its plan now, and goes on if it cannot.
Take(r) ==
  /\ At(r, "take")
  /\ \E p \in todo[r] :
       /\ cur' = [cur EXCEPT ![r] = p]
       /\ todo' = [todo EXCEPT ![r] = @ \ {p}]
       /\ plan' \in IF r \in Watches
                    THEN {Saved({p}, "sell"), [plan EXCEPT ![p].side = "sell"]} ELSE {plan}
       /\ IF plan'[p].side = "buy"
          THEN Goto(r, "consume") /\ read' = [read EXCEPT ![r] = budget]
          ELSE Goto(r, "submit") /\ read' = read
  /\ UNCHANGED <<day, rows, budget, brokerVars, view, history>>

\* The kill switch and the kernel have the last word.
Blocked(r) ==
  /\ At(r, "consume") \/ At(r, "submit")
  /\ Failed(r)
  /\ UNCHANGED <<day, storeVars, budget, brokerVars, view, history>>

\* _ensure_today: open risk is carried over, new risk starts again.
Today(b) == IF b.day = day THEN b ELSE [day |-> day, open |-> b.open, new |-> 0]

CanConsume(b) == b.open + 1 <= Var /\ b.new + 1 <= Budget

\* Mutant: the risk of an order that fits is not written down.
ConsumeNothing(r) ==
  /\ At(r, "consume")
  /\ IF CanConsume(Today(read[r]))
     THEN /\ budget' = Today(read[r])
          /\ Goto(r, "submit")
          /\ read' = [read EXCEPT ![r] = None]
          /\ UNCHANGED <<todo, cur>>
     ELSE budget' = Today(read[r]) /\ Failed(r)
  /\ UNCHANGED <<day, storeVars, brokerVars, view, history>>

\* check_order: what was read before is checked and written back, with the
\* risk of the order if it fits.
Consume(r) ==
  LET b == Today(read[r])
  IN /\ At(r, "consume")
     /\ IF CanConsume(b)
        THEN /\ budget' = [day |-> day, open |-> b.open + 1, new |-> b.new + 1]
             /\ Goto(r, "submit")
             /\ read' = [read EXCEPT ![r] = None]
             /\ UNCHANGED <<todo, cur>>
        ELSE budget' = b /\ Failed(r)
     /\ UNCHANGED <<day, storeVars, brokerVars, view, history>>

\* An error of the budget does not stop the order.
ConsumeFails(r) ==
  /\ At(r, "consume")
  /\ Goto(r, "submit")
  /\ read' = [read EXCEPT ![r] = None]
  /\ unchecked' = TRUE
  /\ UNCHANGED <<day, storeVars, budget, brokerVars, view, todo, cur, missed, overlap, limit>>

Acceptable(p) ==
  /\ order[p].status = "none"
  /\ IsBuy(p) \/ (SymbolOf(p) \in Held /\ SymbolOf(p) \notin Ordered)

\* What a filled order makes of the position; a sale may be of a part of it.
Filled(p) ==
  IF IsBuy(p)
  THEN position' = [position EXCEPT ![SymbolOf(p)] = @ \cup {p}]
  ELSE position' \in {position, [position EXCEPT ![SymbolOf(p)] = {}]}

\* The broker takes the order, which may fill at once; its answer arrives or
\* is lost.
Submit(r) ==
  LET p == cur[r]
  IN /\ At(r, "submit")
     /\ Acceptable(p)
     /\ \/ order' = [order EXCEPT ![p] = [status |-> "open", day |-> day]] /\ position' = position
        \/ order' = [order EXCEPT ![p] = [status |-> "filled", day |-> day]] /\ Filled(p)
     /\ \/ Goto(r, "save") /\ UNCHANGED <<todo, cur, read, missed>>
        \/ Failed(r) /\ missed' = missed \cup {p}
     /\ UNCHANGED <<day, storeVars, budget, view, overlap, unchecked, limit>>

\* save_broker_order: the row and the status of the plan, in one transaction.
Save(r) ==
  /\ At(r, "save")
  /\ rows' = Append(rows, [plan |-> cur[r], day |-> day])
  /\ plan' = [plan EXCEPT ![cur[r]].status = IF @ = "none" THEN @ ELSE "SUBMITTED"]
  /\ cur' = [cur EXCEPT ![r] = None]
  /\ Goto(r, "take")
  /\ UNCHANGED <<day, budget, brokerVars, view, todo, read, history>>

SaveFails(r) ==
  /\ At(r, "save")
  /\ missed' = missed \cup {cur[r]}
  /\ Failed(r)
  /\ UNCHANGED <<day, storeVars, budget, brokerVars, view, overlap, unchecked, limit>>

End(r) ==
  /\ At(r, "take") /\ todo[r] = {}
  /\ Goto(r, "done")
  /\ UNCHANGED <<day, storeVars, budget, brokerVars, runVars, history>>

\* The process of the scheduler dies with all its jobs, or a command dies.
Crash(R) ==
  /\ \E r \in R : InProgress(r)
  /\ pc' = [r \in Runs |-> IF r \in R /\ InProgress(r) THEN "done" ELSE pc[r]]
  /\ todo' = [r \in Runs |-> IF r \in R THEN {} ELSE todo[r]]
  /\ cur' = [r \in Runs |-> IF r \in R THEN None ELSE cur[r]]
  /\ view' = [r \in Runs |-> IF r \in R THEN None ELSE view[r]]
  /\ read' = [r \in Runs |-> IF r \in R THEN None ELSE read[r]]
  /\ missed' = missed \cup {cur[r] : r \in {q \in R : pc[q] = "save"}}
  /\ UNCHANGED <<day, storeVars, budget, brokerVars, overlap, unchecked, limit>>

-----------------------------------------------------------------------------
(* The broker and the calendar.                                            *)

Fill(p) ==
  /\ order[p].status = "open"
  /\ order' = [order EXCEPT ![p].status = "filled"]
  /\ Filled(p)
  /\ UNCHANGED <<day, storeVars, budget, pc, runVars, history>>

Die(p) ==
  /\ order[p].status = "open"
  /\ order' = [order EXCEPT ![p].status = "dead"]
  /\ UNCHANGED <<day, storeVars, budget, position, pc, runVars, history>>

\* Orders live for a day.  The day changes at night, between two orders.
NextDay ==
  /\ day < LastDay
  /\ \A r \in Runs : cur[r] = None
  /\ day' = day + 1
  /\ order' = [p \in Plans |-> IF order[p].status = "open"
                               THEN [order[p] EXCEPT !.status = "dead"] ELSE order[p]]
  /\ UNCHANGED <<storeVars, budget, position, pc, runVars, history>>

Step(r) ==
  \/ Snapshot(r) \/ Decide(r) \/ Trigger(r) \/ Load(r)
  \/ Take(r) \/ Blocked(r) \/ Consume(r) \/ ConsumeFails(r)
  \/ Submit(r) \/ Save(r) \/ SaveFails(r) \/ End(r)

Init ==
  /\ LastDay > 0
  /\ day = 1
  /\ plan = [p \in Plans |-> [side |-> "buy", day |-> 0, status |-> "none"]]
  /\ rows = <<>>
  /\ budget = [day |-> 1, open |-> 0, new |-> 0]
  /\ order = [p \in Plans |-> [status |-> "none", day |-> 0]]
  /\ position = [s \in Symbols |-> {}]
  /\ pc = [r \in Runs |-> "off"]
  /\ view = [r \in Runs |-> None]
  /\ todo = [r \in Runs |-> {}]
  /\ cur = [r \in Runs |-> None]
  /\ read = [r \in Runs |-> None]
  /\ missed = {}
  /\ overlap = FALSE
  /\ unchecked = FALSE
  /\ limit = [r \in Runs |-> 0]

Next ==
  \/ \E r \in Runs : Step(r)
  \/ Crash(Jobs \cup Watches)
  \/ \E r \in Clis : Crash({r})
  \/ \E p \in Plans : Fill(p) \/ Die(p)
  \/ NextDay

Spec == Init /\ [][Next]_vars

-----------------------------------------------------------------------------
(* Properties.                                                             *)

ByHand == \E r \in Clis : pc[r] # "off"

Live(s) == {p \in Plans : SymbolOf(p) = s /\ IsBuy(p) /\
              (order[p].status = "open" \/ p \in position[s])}

\* A symbol is bought twice only if two runs decided at the same time or
\* somebody sent a plan by hand: a lost answer, a row that could not be
\* written, a crash and a plan left pending never make the next run buy again
\* what the broker already has.
OneBuyPerSymbol ==
  overlap \/ ByHand \/ \A s \in Symbols : Cardinality(Live(s)) <= 1

BoughtToday == {p \in Plans : order[p].status # "none" /\ order[p].day = day /\ IsBuy(p)}

\* The run of a buy had a limit of zero, or the buys fit under its limit.
Allowed(buys, r) == limit[r] = 0 \/ Cardinality(buys) <= limit[r]

\* Each run computes its own daily limit, and still the buys of all the runs of
\* a day stay within the largest limit that one of their runs was given, as
\* long as that limit was not zero, which lets everything through: only if one
\* of the buys could not be recorded, two runs decided at the same time, or
\* somebody sent a plan by hand does the broker get more.
DailyLimitHolds ==
  overlap \/ ByHand \/ missed # {} \/ BoughtToday = {} \/
    \E p \in BoughtToday : Allowed(BoughtToday, p[1])

\* A limit that the thesis on the market has cut to zero lets no buy through
\* (trade_decision.py:418, "Reduce el limite de compras").
ZeroLimitBuysNothing == \A p \in BoughtToday : p[1] \in Cycles => limit[p[1]] > 0

\* More new risk than the budget of a day goes out only after an error of the
\* budget itself or through two runs at the same time: not through crashes,
\* lost answers, missing rows or plans sent by hand, because the risk is
\* written down before the order goes out.
BudgetHolds ==
  overlap \/ unchecked \/ Cardinality(BoughtToday) <= Budget

\* The watch sells a position by the levels of the buy that made it, once that
\* buy is recorded, also when the symbol was bought and sold before.
LevelsOfTheHeldPlan ==
  overlap \/ ByHand \/
    \A s \in Symbols, p \in Rowed : p \in position[s] => LatestBuyPlan(s) = p

\* The risk of a position is released when it is sold: once every buy that was
\* planned has filled and all that was held is sold, there is no open risk.
RiskIsReleased ==
  (/\ Held = {} /\ Ordered = {}
   /\ \A r \in Runs : cur[r] = None
   /\ \A p \in Plans : IsBuy(p) /\ plan[p].status # "none" => order[p].status = "filled")
    => budget.open = 0
=============================================================================
