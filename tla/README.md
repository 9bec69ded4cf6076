# Verification of agente_bolsa

`agente_bolsa` is a paper-trading agent: a scheduler process runs jobs that study
the market, submit paper orders through a broker, reconcile what became of them,
review the day after the close and learn from it; a supervisor runs auxiliary
services beside it; a laboratory proposes, applies and withdraws changes of the
code and of the trading strategies. This directory holds TLA+ models of the parts
in which several processes, threads or external parties share state, the TLC
configurations that check them, and theorems about them whose proofs TLAPS
checks. Paths are relative to the repository; `PC` stands for
`src/agente_bolsa/tools/postmarket_coordination.py`, `CI` for
`src/agente_bolsa/continuous_improvement`.

## 1. Inventory

| Part | State it keeps | Operations | What is hard |
|---|---|---|---|
| Post-market coordination (`tools/postmarket_coordination.py`) | rows `post_market_coordination:active`, `:reconciliation`, `:session:<date>`, `post_market_review_last_session` of `runtime_state`; append-only `agent_events` | acquire, acquire_reconciliation, stage, terminal, finish_reconciliation, advance_last_session | several processes, crashes, reused pids, writes that fail and are swallowed |
| Scheduler lock (`scheduler.py` 190-502) | the file `scheduler.lock` | acquire, diagnose, recover, release | no transaction: each file system call is a step |
| Fill watch and reconciliation (`tools/fill_watch.py`, `tools/broker_reconciliation.py`, `tools/telegram_trade_notifications.py`, `storage.py` 3055-3385) | rows of `broker_orders` with a finalization marker; claims, failures and receipts in `agent_events` | watch pass, reconciliation pass, publication of a fill | broker asked outside the transaction, three writers of one row, retries, crashes between commit and message |
| Order submission (`tools/execution.py`, `risk_budget.py`, `cycle_runner.py`, `scheduler.py`, plan tables of `storage.py`) | `order_plans`, `broker_orders`, the row of the daily risk budget; orders and positions at the broker | decide, save plans, check the budget, submit, save the row | decisions on a portfolio read earlier, lost answers, rows that cannot be written, crashes in between, read-modify-write of the budget |
| Auxiliary supervisor (`docker_supervisor.py`) | a lock, a heartbeat, a state file and an artifact per service | daily slot, run of a service, state write, health check | kills while a service runs, runs that pass midnight, two supervisors |
| Approval of changes (`CI/human_apply.py`, `CI/codegen.py`) | working tree, index, commits; diffs, proposals, artifacts and applied changes in the store | generate a diff, check, apply, run the suite, commit, record, reject | git and the store are written one after the other; nothing locks the tree |
| Promotion of strategies (`CI/promotion.py`) | `strategy_versions`, `promotion_windows` | start_shadow, evaluate_windows, activate, demote, promote, reject | counts and lists read earlier, two transactions for one replacement, budgets per week |
| Change watchdog (`tools/change_watchdog.py`, `CI/sandbox.py`, `CI/autonomy.py`, `CI/promotion_loop.py`, rollback in `CI/experiments.py`) | rows of applied changes written whole, the level of autonomy, the main branch | validate and merge, evaluate, request and make rollbacks, demote, resolve impacts | rows read long before they are written, a revert committed before it is recorded, commands beside the nightly review |
| Scheduler jobs, trading cycle, store, LLM router, learning, strategies, studies, dashboards, CLI, configuration | files, counters, reports | sequential computations | numerical or textual, hardly any control |

How they interact. The scheduler takes its lock file and starts one thread pool;
every job is a function of `scheduler.py` that never overlaps itself. The review
and the scheduled reconciliation exclude each other through the coordination
rows, because the same jobs can be started from the command line and from a
container of their own. Both call `reconcile_broker_orders`, and so does a
script; the fill watcher runs beside them. They meet in the rows of
`broker_orders` and in the claims of `agent_events`. Market cycle, pre-earnings
study, portfolio watch and the command `execute-approved` meet in the plan tables,
in the risk budget and at the broker. The laboratory's review of the night, the
runtime that applies changes and the commands of a person meet in the repository,
in the rows of applied changes and in the windows of promotion.

What makes each part correct:

- coordination: two jobs never work at once; a live owner is never robbed; a
  dead one is recovered; a run has one terminal status; a session is completed
  once; the last session never runs ahead of the events;
- scheduler lock: two schedulers never run; one of those that start does;
- fills: the execution of a fill is marked once; a terminal status stays; each
  fill is announced once, after its commit, and none is forgotten;
- orders: a symbol is bought once; the limits of a day on buys and on new risk
  hold, whatever is lost between the broker and the store; the levels of a
  position are those of the buy that made it;
- supervisor: one attempt per service and day; no turn missed; states that only
  go forward; a true health check;
- approvals: a commit brings one approved change and nothing else; what is
  recorded as applied is committed;
- promotion: one champion; the quota of the week; no rejection retires a
  champion; a window with enough evidence is judged;
- watchdog: what the rows say of a change is what the main branch has; every
  rollback that is asked for is made or fails.

## 2. Modules

| Module | Content | Theorems |
|---|---|---|
| `PostmarketLease` | the coordination and the control of the two jobs that use it | `PostmarketLeaseProofs` |
| `PostmarketContract` | what the coordination promises, without rows, pids and crashes | `PostmarketLeaseProofs` |
| `SchedulerLock` | the lock file, one file system call per step | `SchedulerLockProofs` |
| `FillReconciliation` | watcher, reconciliations and publication over the rows of the orders | `FillReconciliationProofs` |
| `FillContract` | what these three promise together, without rows, actors and failures | `FillReconciliationProofs` |
| `OrderSubmission` | from a decision to an order at the broker and its row | `OrderSubmissionProofs` |
| `AuxSupervisor` | the loops of the supervisor over clock, locks and state files | `AuxSupervisorProofs` |
| `HumanApply` | generation and approval of a change of the code | `HumanApplyProofs` |
| `StrategyPromotion` | the windows in which a strategy becomes the champion | `StrategyPromotionProofs` |
| `ChangeWatchdog` | the life of a change that is in the repository | `ChangeWatchdogProofs` |
| `MC...` | the constants and symmetry sets TLC uses | |

Definitions called mutants in the comments are broken variants of the operator
that follows them, each one a slip that could happen in that code; each property
is known to notice the one listed for it in `PROJECT.json`.

### PostmarketLease

A *run* is one execution of a job, a *process* one incarnation of an interpreter
with a token of its own; pids are drawn from a small set and reused. A lease row
is modelled by the run it names, since pid, token and session are functions of
the run. `AcquirePmr` and `AcquireRecon` are the two `BEGIN IMMEDIATE`
transactions (PC 365-469 and 662-747) with the whole of their recovery;
`TakeOver` and `PersistRecovered` are the failed terminal event of the owner that
was replaced; `Stage`, `StageFailed`, `WriteTerminal`, `CloseView`, `Release` and
`AdvanceLastSession` follow `post_market_review_job` and
`broker_reconciliation_job` in the order in which these call the coordinator.
`Crash` falls between any two steps. With `StoreMayFail` every write outside the
acquisition may raise and is swallowed where the code swallows it, and the
acquisition may raise as a whole. With `LateFailure` the bookkeeping after the
completed terminal may raise.

`OwnerIsLive` is the code's test: a pid that runs passes for the old owner unless
it is the pid of the asking process under another token.

`PostmarketContract` has five variables: the session each review asks for, the
runs that are busy, those that were admitted or gave up, the reviews that marked
their session, and the processed sessions. A run is admitted when nobody is busy,
and a review only if its own session is not processed; only a review that works
marks a session, its own, and once; a review that has marked puts the sessions
before its own behind it (`CatchUp`, the last session of the store).
`ImplementsContract` is that specification under the refinement mapping at the
end of `PostmarketLease`.

### SchedulerLock

A file is the attempt that created it; its content exists from `Write` on, so
that an empty file can be read in between. `Read`, `Diagnose` and `Decide` are
the two reads of the file and the test of its owner; the existence test and the
test of the pid are one step. `Unlink` removes whatever is at the path. The path
may hold a bare pid of an old release or text that is no lock when the first
scheduler starts. `Unreadable` is a file without readable content that nobody is
about to fill: text that is no lock, or what a start leaves that dies between
`Create` and `Write`.

### FillReconciliation

`remote` is the status at the broker, which only moves forward; `local`,
`marker` and `history` are the row. The watcher reads pending and retryable
orders in two queries (`ReadPending`, `ReadRetryable`), asks the broker
(`WatchPoll`) and commits (`Commit` is `apply_broker_order_snapshot`). A
reconciliation reads its rows (`ReadOrders`), asks (`ReconPoll`), applies all
changes in one transaction (`Apply`), updates the outcomes when its caller asked
for it (`Learn`) and returns the changes for publication. `Claim`, `Send...`,
`Record` and `Release` are the publication, used by all. `PollFails` stands for
no answer, an answer without status, and an order in backoff. `Crash` ends every
actor: they are threads of one process. The script is a process of its own, so
that crashing it with the rest is a restriction; it publishes nothing and its one
transaction is atomic, so nothing is lost by it.

`FillContract` has four variables: what each order was settled as, how often its
execution was marked, how many messages of it reached the chat, and the fills that
are closed. Its steps settle open orders and mark fills that were not marked,
tell of a fill whose matter is open (the answer closes it, a lost answer does
not), and drop announcements, after a crash or a failing write only.
`KeepsContract` is that specification under the mapping at the end of
`FillReconciliation`: the settled orders are the rows with a terminal status, and
a fill is `Closed` when it has a receipt or a claim that nobody will release. A
transaction of a reconciliation is one step of it for all the orders it settles;
asking, claiming, releasing and writing a receipt are invisible.

Orders start as submitted and accepted. An order whose submission already answers
`filled` is outside this module (section 7).

### OrderSubmission

A run of one of four kinds reads the portfolio (`view`), decides and saves its
plans, and sends them one by one. `Busy` is what it takes for bought: held,
ordered at the broker, recorded today or planned, each kind of run with the
sources its code consults. Between the reading of the risk budget and its
write, between this write and the submission, between the submission and the row
lies one step each; `Crash` ends all jobs of the scheduler at once (threads of one
process) or one command. The broker accepts an order and the answer may be lost;
the row may fail to be written (`missed` records it); an error inside the check
of the budget lets the order pass, as the code does (`unchecked`). Every buy is
one unit of risk. The daily limit is computed by each run when it decides
(`DailyLimits`: the settings of a study, any of `CycleLimits` for a cycle, whose
limit depends on its plans, the learning mode, the stage of the allocation policy
and the thesis on the market); one of zero lets every plan through
(`WithinDailyLimit`). `limit` records the limit under which a run bought, and
`overlap` that two runs that may buy were under way
at the same time.

### AuxSupervisor

Both loops, of one service and of the whole schedule, and `--once` are one set of
actions: they differ in the services they go through and in the path of lock and
heartbeat. A pass reads the clock once (`now`), looks at every service in order,
marks its state file `running`, runs the child and writes the outcome under the
day it began. Time passes while every process sleeps or waits for its child, so
that a run may end after midnight. A kill falls anywhere and frees the locks.

### HumanApply

The contents of a file are the diffs that have changed it; `head`, `index` and
`tree` are the last commit, the index and the working tree. The approval checks
the tree, applies the patch, bumps the version, runs the suite, stages, commits,
records the change and the status, and counts and writes stale artifacts; a
failing suite reverses the patch and restores the targets with the results of
both commands ignored. The generator reads, makes a diff in a worktree of its own
and saves it, meanwhile. `CleanUp` is the person who cleans the tree by hand.

### StrategyPromotion

`status` and `later` are the registry and the order of its updates, from which
the champion is taken (`Champions`); `state`, `strategy` and `newer` are the
windows and the order in which they are judged. A starter marks its strategy,
counts the open windows and inserts its window in three transactions. An
evaluation counts, reads the queue, opens, reads the quota, reads the open
windows and judges them; a replacement is activation, demotion and the end of the
window, each a transaction. `ripe` are the windows with enough evidence; what the
evidence says is a choice between `Win` and `Reject`. A failing reading of the
active rows is swallowed (`WinUnread`): the winner then replaces the builtin,
whoever is the champion. `NextWeek` frees the
windows that were promoted, all at once. `irregular` records the strategies that
had two windows at once or were hit by a fault.

### ChangeWatchdog

`code` is what the main branch has of each change, `rows` the table of applied
changes. A change of the laboratory is opened in a worktree, validated and merged;
one of a person is committed (`CommitHuman`, the outcome of `HumanApply`). The
review evaluates the rows it read, asks for rollbacks, reverts (`Find`, `Revert`,
`SaveRolledBack`, the suite in between), moves the level and resolves the impacts;
a command goes through the same rollback beside it. An exception in the
evaluation, the rollbacks or the autonomy check skips what is left of them, and
the impacts are resolved all the same (`WatchdogRaises`). Every write of a row is of
the whole row as its writer read it: `crossed` records those that were written
over something the writer had not read. A revert of what is out or a revert
during an unfinished merge fails. What the metrics say is a choice; the
class of a change is a constant (`Trading`), for its contract is written once.

## 3. Runs

| Run | Bounds | What it shows |
|---|---|---|
| `pmr_lease` | 2 reviews, 1 reconciliation, 3 processes, 2 pids, 2 sessions | exclusion, one story per run, no leaked lease, the contract, with crashes and pid reuse |
| `pmr_store_fails` | 2 reviews, 2 processes, 2 sessions, fair | exclusion, one terminal status and processed sessions when any write may fail; every job that begins ends |
| `sched_lock` | 3 processes, 3 pids, any file at the start | exclusive creation is sound; a lone start is refused by an unreadable file only; a burst leaves a scheduler |
| `sched_race` | violation | two starts recover one orphan and both run |
| `fill_races` | 1 order, watcher and 3 reconciliations, all faults | effects once, terminal is final, message after commit, a second message only after a lost answer, the contract |
| `fill_live` | 1 order, watcher and 2 reconciliations, fair, no faults | no fill forgotten; orders settle; fills are marked and announced |
| `fill_partial` | violation | with the watcher off, a partial fill is never read again |
| `order_submit` | 1 cycle, 1 study, 1 watch, 1 command, 2 symbols, 2 days, a limit of 0 or 1 for each cycle and of 1 for the study, risk of 1 a day and 2 open | one buy per symbol, the daily limit, the budget, the levels of the held plan |
| `aux_supervisor` | 2 supervisors and 1 `--once`, 2 services, 2 days of 2 slots | one attempt a day, nothing due left behind, one child, health, states forward |
| `human_apply` | 2 proposals (one adds a file and bumps the version), 2 diffs, 1 approver, 2 stale marks | a commit brings one change; what is recorded is committed |
| `promotion` | the builtin and 1 strategy, 2 windows, 1 starter, 1 evaluation, quota 1, 1 fault (a failing reading included), fair | quota, one champion, no champion retired, a ripe window is judged |
| `change_watchdog` | 1 change of the laboratory, 1 of a person, 1 command, window of 2 sessions, 1 fault, fair | rows and main branch agree; a requested rollback is settled |

The type invariants are theorems (section 4) and are not repeated in the runs.

Why the bounds are enough. Three runs are the fewest in which a recovered owner,
its successor and a third that meets both exist; with three processes over two
pids each pid is reused, by the successor or by a stranger. Two sessions let a
recovery meet the session row of another date. `pmr_store_fails` has two reviews
only (589,198 states): that the exclusion of review and reconciliation survives failing writes is
proved. For the lock file three starts
allow one that lost the race, one that won it and one that arrives late. Orders
of the fill component share nothing but the limits of the queries and the batch of
one transaction: one order exposes the races of the writers;
`FillReconciliationTwo.cfg`, kept beside the runs, adds the limits and the batch.
`order_submit` has one run of each kind (732,803 states). Its constraint
`Followed` has two parts: `Excepted` cuts what lies behind two buying runs at the
same time, or behind a plan sent by hand together with an error of the budget,
about which its properties say nothing; `WatchOrNoLimit` is a bound, the watch is
not followed once a cycle has bought without limit. Two days let a
budget, a limit and a plan of yesterday be met by the day after.
`aux_supervisor` has two services so that one can be late because of the other
and two days so that a run can cross midnight (1,058,359 states). In
`human_apply` one proposal has every peculiarity of the code (an added file, a
version bump) and the other none (3,083,389 states). In `promotion` two windows
meet the budgets of two open ones and of one promotion a week (622,296
states); `StrategyPromotionThree.cfg` checks the safety of the same with three
strategies (3,336,842 states). In `change_watchdog` a harmful change, a survivor
and a command can meet in each order (917,288 states).
The symmetry sets are used where no liveness is checked.

`CHECK_DEADLOCK FALSE` is set where the system stops: all runs of a job are over
and all processes have been started; with the watcher off, all orders are
settled; the last day of the bounds is over; every diff of the bounds is used up.

Fairness. `pmr_store_fails` assumes that the threads of a live process run: weak
fairness of the steps of each run in which nothing raises (`Succeed`; `Stage`
apart, which could repeat for ever), so that no end is owed to a failing write.
`fill_live` assumes weak fairness of the watcher, of each reconciliation and of
each publication (interval and cron triggers start the jobs again and again), and
strong fairness of the broker's answers and of Telegram's acceptance: whoever is
asked again and again answers some day. `promotion` assumes weak fairness of the
evaluation and strong fairness of the weeks, `change_watchdog` weak fairness of
the review: the nightly job. No fairness is assumed of the market
(`BrokerStep`), of maturing evidence, of commands or of crashes.

## 4. Proofs

`PostmarketLeaseProofs` holds for any sets of runs, processes and pids and any
number of sessions.

- `TypeCorrect`: `Spec => []TypeOK`.
- `LeaseInvHolds` (without late failures): the inductive invariant `LeaseInv`.
  Mutual exclusion is not inductive: it says nothing of the rows. `LeaseInv`
  adds that a busy review is named by `active`, that a busy reconciliation is
  named by `recon`, and which owner `active` may have meanwhile. From there the
  guards of the two acquisitions exclude, since a run of a live process passes
  `OwnerIsLive` for every asker but one with the same pid, and pids of live
  processes differ.
- `MutualExclusionHolds` and `LiveOwnerIsNeverStolen` follow from it.
- `ProcessedStaysHolds` (without late failures): `RowsInv` is `LeaseInv` with three
  facts about the session rows. A reconciliation has none to close, only a
  completed review advances, and the row of a live review is its own until it
  closes it (`ViewIsHeld`). The recovery that drops the row of a dead review thus
  never drops a completed one.
- `CoordinatorImplementsContract` (store without failures and without late ones):
  every step is a step of the contract or leaves its variables alone;
  `ContractInv` adds to `RowsInv` that the session of a review that completed is
  processed once the review is past closing its row (`CompletedIsMarked`), and
  that a run that was not admitted has no ending (`UnadmittedIsUnended`), so that
  who has marked was admitted first. That the session a review marks is its own,
  and not yet marked by it, comes from the row of a live review being its own
  (`ViewIsHeld`).
- `OneTerminalStatusHolds` (without late failures): `EventInv`. Nothing is told of
  a run that is alive and at work (`UnendedIsUntold`), nor of the dead owner whose
  failure its successor is about to tell (`RecoveredIsUntold`); the successor
  writes after its transaction, and the row it took keeps every other one away.
- `NoLeakedLeaseHolds` (store without failures, no late ones): the two rows name
  runs that work (`RowsNameWorkers`).
- `LastSessionCompletedHolds` (store without failures): `LogInv`, behind its
  terminal a run has told its outcome. With failing writes the property is
  false (section 5).
- `CompletedTwiceOnlyAfterCrashHolds` (store without failures, no late ones):
  `TwiceInv` takes all of the above and adds that the session of a run that told
  `completed` is processed unless the run has still to close its row or died
  there, and that a review at work finds its session completed only by such a
  dead one.

The assumptions are constants of the model, the two kinds of failures: without
late failures is what the code does on every path but the handler described under
`PostmarketLeaseLate.cfg` in section 5.

`SchedulerLockProofs` holds for any number of starts.

- `RaceNeedsRecoveryHolds`: `FileIsAtPath` (while nobody removed an orphan, the
  file of whoever created one is the file at the path) makes exclusive creation
  exclusive.
- `BurstLeavesASchedulerHolds`: `BurstInv`. A start is refused for a `Reason` only
  (somebody created a lock, garbage lies at the path, or a living process
  has the pid of an old lock and has yet to decide); when all have decided the
  first reason alone is left. `BurstStep` proves the many cases one by one.
- `LoneStartAcquiresHolds`: `LoneInv` follows the single start through its two
  attempts. A lock that can be read never refuses it; if it is refused, it is
  by a file without readable content, and `DeadEnd`, which says so and that every
  process up is on its way to a refusal, is kept by every step: such a file
  is never removed by the program. An empty file is one of them (section 5).

`FillReconciliationProofs` holds for any number of orders, any limits and any set
of reconciliations, with all the faults of the model at once: crash, failing
store, failing learning, lost answers.

- `FillTypeCorrect`: the types. Not inductive alone: `InHand` adds that an actor
  about to commit, send, record or release has an order to do it for.
- `TerminalStays`: the action property. It follows from the guards of the two
  transactions that write `local` (`SettledStays`); `RowsMove` says that no other
  step does.
- `EffectsOnce`: the effects invariant, strengthened by `MarkerOnTerminal`: a
  pending marker stands on settled orders only. Without it a reconciliation might
  settle and mark an order whose marker stays, and mark it again with the marker.
- `MessageAfterCommitHolds`: `TerminalKnown` (a terminal status in the store, or in
  a change an actor still holds, is the broker's, and the broker settles once) and
  `OnlyFilledInHand` (orders to announce are committed). The case that needs both:
  a reconciliation announces a change it skipped, because another actor settled
  the order between its question and its transaction. Both were told the same.
- `TwiceOnlyUnansweredHolds`: `OneClaimant` (a message in hand is claimed, and by
  one actor) and `DeliveredIsGuarded` (once a message arrived and its answer too,
  a receipt or a claim nobody releases stands). A crash empties all hands and
  leaves the claim: this is why nothing is sent twice, and also why such a fill is
  never announced.
- `FillsKeepContract`: the refinement. `PromiseInv` joins the invariants above and
  adds that nobody has a message in hand whose receipt is written
  (`UnrecordedInHand`), so that what is told is open. `OthersLeaveUndecided` says
  that publications and crashes alone change who may still release a claim; there
  is a lemma per kind of publication step (`ClaimIsInvisible`, `SendingTells`,
  `RestIsInvisible`, `RaisingDrops`), one for the crash and one for each of the two
  transactions. A transaction of a reconciliation marks what was not marked
  because of `EffectsExactlyOnce`.
- `NoFillIsForgotten`, while nothing crashes or fails and every reconciliation
  publishes: `DutyInv` names whose turn each committed fill is: held by an actor,
  claimed, or in reach of the next query of the watcher.

`OrderSubmissionProofs` holds for any symbols, runs, limits and days, and
`DailyLimitHoldsAlways` for any finite set of symbols.

- `OrderTypeCorrect`; `HandInv` then collects what the others need: a plan is
  made and sent behind the decision of its run (`BegunInv`), the watch only sells
  and sends its own (`WatchInv`), one buyer runs until two have met
  (`OneRunner`), nothing is dated ahead (`PastInv`).
- `BudgetHoldsAlways`: the budget of the day is not inductive in the orders, since
  the risk is written before the order is sent. `Counted` compares it with
  `Risked`, the buys of today and those on their way out.
- `OneBuyPerSymbolHolds`: `BuyInv` says of a run that decides that it sees
  everything that is bought, and of one that sends that its symbols are free;
  `OwnInv` that it sends its own plans.
- `DailyLimitHoldsAlways`: the limit is checked once, when a run decides, and
  against the rows, so that the property is about orders and the check is not.
  `RowInv` closes the gap: unless a row was missed, every order has a row of its
  day or a run about to write it, and the run that decides is alone.
  `LimitInv` then says that the limit of some run that bought allows what was
  bought today, and that of the run under way allows it together with what this
  run has decided and not sent (`ToBuy`); a limit of zero allows everything, as
  in the code. Four kinds of steps keep it: those that touch
  neither, a sending, the writing of a row, a decision. The universe of symbols is
  finite because the number of buys is a cardinality.
- `LevelsOfTheHeldPlanHolds`: `HeldInv` (what is held was bought, and the watch only
  sells) and `LatestInv` (behind the row of a live buy there is none of another
  buy of its symbol, and none is about to be written); the row the watch reads is
  the last one of a buy of the symbol.

`AuxSupervisorProofs` holds for any services, hours, processes and deployments.
`PassInv` (`PassInvHolds`) is the conjunction of: who supervises holds the lock of
its path alone; nothing is dated ahead of the clock; the state of a service is not
newer than the pass of its supervisor; an attempt has left its date in the state
file; behind the place of a pass nothing is due. `OneAttemptPerDayHolds`,
`StateNeverGoesBackHolds`, `PassLeavesNothingDueHolds` and `OneChildAtATimeHolds`
follow from it. `SleepingIsHealthyHolds` adds `BeatIsRecent`: the heartbeat of a
supervisor that sleeps is of this slot, or of the one before while it has not
looked since. It assumes that a heartbeat stays fresh for a slot (`MaxAge > 0`;
the code sleeps 300 seconds at most and allows 3600).

`HumanApplyProofs` holds for any proposals, diffs, files and approvers:
`ApplyInvHolds`, `AppliedIsCommittedHolds` (`RecordInv`: who has something to
record has committed it, and commits stay), and, for one approval at a time
(`OneApprover`), `OneChangePerCommitHolds` (`BringInv`: from the check of the tree
to the commit, tree and index differ from the last commit by the approved diff).

`StrategyPromotionProofs` holds for any strategies, windows, starters and budgets;
three theorems assume one evaluation at a time (`Lone`).

- `WeeklyBudgetIsKept`: `QuotaInv` adds what the evaluation may still promote, and
  the window it is promoting, to what is promoted.
- `ChampionsStay`: `HandInv` (what the evaluation holds is what the windows say),
  `SharedInv` (two windows share a strategy only when it is irregular) and
  `ActiveInv` (a strategy whose window is open is not active, unless irregular or
  being promoted).
- `OneChampionIsKept`: the rows are ordered by their last update (`Ordered`), so
  that there is one newest among the other active strategies (`MaximalElement`);
  `ChampInv` counts the active strategies beside the winner and the champion it
  replaces: no more than there were faults. A failing reading of the active rows
  is one of them: the champion it overlooks stays.

`ChangeWatchdogProofs` holds for any changes, commands, windows and thresholds, and
any number of faults. `WatchdogTypeCorrect` is the types. `RolledBackIsOutHolds` and
`AppliedIsInHolds` follow from `WatchdogInv`: a change is not taken up before its
application has ended (`SavedIsDone`), its code is where the application is
(`CodeFollows`), the suite of a rollback runs behind its revert only
(`RevertPrecedesSuite`), and the review handles rows that were `APPLIED` when it
read them (`HandlesApplied`). Neither property is inductive alone, because every row is
written whole from an older reading.

`ASSUME`s are the typing, disjointness and finiteness of the constants; TLC
evaluates them in every run.

Every invariant and every action property of the runs is thus a theorem. Only
model-checked is liveness, since `ENABLED` and fairness are beyond the prover:
`EveryJobEnds`, `EveryOrderSettles`, `EveryFillIsFinished`, `RipeWindowIsJudged` and
`RequestIsSettled`; and the properties of section 5, which do not hold.

## 5. What does not hold

Two runs expect a violation:

- `sched_race`: the recovery of an orphan unlinks by path, although
  `scheduler.py:302` says the race is closed.
- `fill_partial`: `LIKE '%filled%'` matches `partially_filled`; with the watcher
  off such an order is never read again.

The following configurations are kept beside the runs; TLC finds the property
named in each violated (`FillReconciliationTwo`, `PostmarketLeaseLive` with
`LeaseIsGivenBack`, and `StrategyPromotionThree` are further instances that pass).

| Configuration | What it shows |
|---|---|
| `PostmarketLeaseDeadRecon.cfg` | `stage()` writes the review's row with the identity of the reconciliation, and `acquire_reconciliation` refuses behind a dead owner of that row without terminal event; the test of that recovery prepares one row only |
| `PostmarketLeaseLate.cfg` | the handler of the review treats an exception after the completed terminal as a failure of the review and writes rows it gave back |
| `SchedulerLockEmpty.cfg` | a start that dies between creating its lock and writing it leaves an empty file, for which `_read_scheduler_lock` gives no owner, so that every later start is refused, for ever (`scheduler.py:385`, `433`); the file has to be removed by hand |
| `FillReconciliationLearn.cfg` | the outcomes are updated between the commit of a fill and its publication; an exception there leaves the fill without message for good |
| `AuxSupervisorCatchUp.cfg` | `docs/informe_codex_pl6a_catchup_supervisores_2026-07-08.md:6` wants a missing artifact caught up at start; a service that was killed leaves `running` and is not tried before the next day |
| `OrderSubmissionRelease.cfg` | `docs/architecture.md:169` says the exits release the risk; nothing calls `release_position`, so the open risk only grows, until the limit blocks every buy |
| `OrderSubmissionZero.cfg` | a daily limit of zero limits nothing (`cycle_runner.py:365-371`, unless the allocation policy is blocked); the code and `tests/test_capital_allocation_daily_guard.py:22` keep this on purpose for a configured zero, but the risk-off factor, which "reduces the limit" (`trade_decision.py:418`), makes `int(1 * 0.5) = 0` of a limit of one |
| `HumanApplyResidue.cfg` | a rejected approval that bumped the version and added a file leaves the bumped version in the tree, and every later approval is blocked (`docs/informe_codex_fase2b_apply_2026-06-30.md:80`) |
| `StrategyPromotionBuiltin.cfg` | who wins against `builtin_breakout` does not replace it: it has no row to demote and stays active (`docs/architecture.md:199`) |
| `StrategyPromotionTurn.cfg` | a window that waits for the quota (`promotion.py:266`) can wait for ever: windows are judged newest first |
| `StrategyPromotionBudget.cfg` | two processes that open a window at once exceed the budget of open ones (`docs/architecture.md:149`) |
| `StrategyPromotionOverlap.cfg` | two evaluations at once (nightly review and `promotions --evaluate`) each use the quota of the week |
| `ChangeWatchdogDemote.cfg` | rollbacks lower the level night after night, long after the sessions in which `autonomy.py:233` counts them |
| `ChangeWatchdogVerdict.cfg` | the verdict that `promotion_loop.py:7` promises to a change of another class than trading is written over the next night, before the autonomy check reads it |
| `ChangeWatchdogMerge.cfg` | a change validated on one commit is merged into a later one (`sandbox.py:8`): the suite has not seen what becomes the main branch |

Seen while modelling and not stated:

- coordination: with failing writes the last session can advance although the
  completed event was not written;
- fills: a lost answer of Telegram is taken for a refusal and the message is sent
  again (`TwiceOnlyUnanswered` names exactly that case); a crash between the
  commit and the claim loses the message (`scheduler.py:4400`); a reconciliation
  writes the payload it read at the start of its pass, so a history entry the
  watcher committed meanwhile is lost (`broker_reconciliation.py:400`); a watcher
  whose limit is taken by old orders that stay open never reads a newer one
  (`storage.py:3080`);
- orders: overlapping buyers exceed the limit and the budget (`risk_budget.py:130`
  and `cycle_runner.py:376` read and write without a lock); an order whose
  submission already answers `filled` is saved as terminal, so that its execution
  is not marked and no message is sent (`scheduler.py:1717`); a budget that cannot
  be read does not stop an order;
- supervisor: a process for all services and one for a single service use
  different locks over the same state files (`OneLock` names that deployment); a
  pass that crosses midnight dates later services by the day it began, and their
  new day is served by the next pass; a child has no timeout;
- approvals: two at once break `OneChangePerCommit` from the first interleaving
  on (`human_apply.py:101`); the provenance of a diff is built from the working
  tree while its worktree is opened from the last commit; the approval of a stale
  diff sets a proposal that was applied back to `READY_TO_APPLY`; a crash between
  commit and records leaves a committed change that is still pending;
- promotion: a crash in a replacement leaves two champions for good, and so does a
  failing reading of the active rows, which is swallowed and takes the builtin for
  the champion (`promotion.py:142-148`); a command
  that puts the only champion in shadow leaves none; a queued window is opened
  from a list read before (`promotion.py:198`); a strategy built with
  no source path never loads; a change that is rolled back keeps its window;
- watchdog: level 3 is out of reach of changes of the laboratory alone, since
  only rows of human changes carry the contract that counts for it; a crash after
  the revert leaves a row that ends as `ROLLBACK_FAILED` and is not counted as a
  rollback; an exception in the watchdog also skips the autonomy check and the
  evaluation of promotions of that night (`scheduler.py:3154`); a merge that
  conflicts is never aborted, and blocks every merge, revert
  and approval until a person intervenes.

## 6. Abstractions and assumptions

- One pid namespace: processes of different containers that share the database
  but not the pids are not modelled.
- Start tokens are unique; a process does not come back.
- A `BEGIN IMMEDIATE` transaction is one step; a single statement is one step.
- Rows of releases without owner tokens are left out of `PostmarketLease`.
- Prices, quantities, texts, hashes and timestamps are left out. Backoff is a poll
  that fails. The attempt numbers of claims are left out: only the latest claim
  matters, and attempts only grow.
- `OrderSubmission`: a buy is one unit of risk; kernel and sizing are a choice to
  block; the daily limit of a cycle is a free choice from `CycleLimits` for each
  run, and how it comes from the number of plans, the learning mode and the stage
  of the policy is not modelled; sector budgets, adds to a position and the limit
  of the command line are left out; partial sales may leave a position.
- `AuxSupervisor`: a slot stands for the hours between two times of a schedule;
  reading errors of a state file are left out.
- `HumanApply`: the suite and the conflicts of a patch are choices; a diff changes
  all its targets.
- `StrategyPromotion`: the promotions of a week leave its quota together, while
  no evaluation runs.
- `ChangeWatchdog`: one change per proposal; a command is a process of its own that
  reverts one change; the limit of `sessions * 4` rows is never reached within the
  bounds; the throttle of the risk budget after a rollback, the failed verdict that
  needs a sibling change and the restore of changes without git are left out.

## 7. Not modelled

Each part that is not modelled is listed with its reason in `PROJECT.json`. Of the
about 140,000 lines of the implementation the greater part is numerical (signals,
back tests, attribution, sizing), textual (prompts, reports, digests), presentation
(dashboards) or one SQL statement after the other: sequential code whose state
another actor never sees half way. The map covers the parts with control worth a
model; a share of a third of the lines is not to be had from this code without
transcribing arithmetic.

What has control and is left, in the order in which it is worth modelling:

1. the composition of `OrderSubmission` with `FillReconciliation`, with orders
   that fill while they are submitted;
2. the sweep of stale tasks and the statuses of initiatives (`CI/lifecycle.py`):
   the sweep decides on a list read earlier and overwrites what a task has become;
3. the core sleeve (`strategies/core_sleeve.py`) with its marker file;
4. the restore of changes applied without git (`CI/experiments.py`).
