-------------------------- MODULE StrategyPromotion --------------------------
(***************************************************************************)
(* How a strategy becomes the champion (promotion.py, PromotionManager).   *)
(* The runtime that applies the changes of the laboratory opens a window   *)
(* for the strategy it has changed and puts the strategy in SHADOW; the    *)
(* evaluation at the end of the nightly review opens the queued windows,   *)
(* judges the open ones and promotes or rejects their strategies.  Every   *)
(* read and every write is a transaction of its own, and neither side      *)
(* locks anything.                                                         *)
(*                                                                         *)
(* What the signals of a strategy say is a choice, made once a window has  *)
(* enough of them.  A window that is resolved counts until the week of its *)
(* promotion is over; then its identifier is free again.                   *)
(***************************************************************************)
EXTENDS Naturals, FiniteSets

CONSTANTS
  Strategies,    \* names of strategies
  Builtin,       \* the one that needs no row to be active: builtin_breakout
  Windows,       \* identifiers of promotion windows
  Starters,      \* the processes that open windows
  Evaluators,    \* the processes that evaluate them
  MaxConcurrent, \* MAX_CONCURRENT_PROMOTIONS
  MaxPerWeek,    \* MAX_PROMOTIONS_PER_WEEK
  MaxFaults      \* bound on the crashes, the failures and the commands by hand

ASSUME PromotionAssumption ==
  /\ Builtin \in Strategies /\ IsFiniteSet(Strategies) /\ IsFiniteSet(Windows)
  /\ MaxConcurrent \in Nat /\ MaxPerWeek \in Nat /\ MaxFaults \in Nat

VARIABLES
  status,   \* strategy -> its row in strategy_versions
  later,    \* pairs of active strategies, the one updated later first
  state,    \* window -> its status
  strategy, \* window -> its strategy
  newer,    \* pairs of unresolved windows, the one updated later first
  ripe,     \* the windows that have enough sessions and signals
  pc, todo, \* where an evaluation is and the windows it has still to handle
  count,    \* the open windows it has counted, and those it has opened
  left,     \* the promotions it may still make
  cur,      \* the window it is resolving, in a set of its own
  champ,    \* the champion that this replaces, a set of at most one
  at, name, full, \* where a starter is, its strategy, what it found of the budget
  waiting,  \* history: the windows that were told to wait for the week's quota
  faults,   \* history: the crashes, the failures and the commands by hand
  irregular \* history: strategies with two windows at once, or hit by a fault

registryVars == <<status, later>>
windowVars == <<state, strategy, newer, ripe>>
evalVars == <<pc, todo, count, left, cur, champ>>
starterVars == <<at, name, full>>
history == <<waiting, faults, irregular>>
vars == <<status, later, state, strategy, newer, ripe, pc, todo, count, left, cur,
          champ, at, name, full, waiting, faults, irregular>>

RowStatuses == {"none", "SHADOW", "ACTIVE", "RETIRED"}

TypeOK ==
  /\ status \in [Strategies -> RowStatuses]
  /\ later \subseteq Strategies \X Strategies
  /\ state \in [Windows -> {"free", "QUEUED", "OPEN", "PROMOTED", "REJECTED_SHADOW"}]
  /\ strategy \in [Windows -> Strategies]
  /\ newer \subseteq Windows \X Windows
  /\ ripe \subseteq Windows
  /\ pc \in [Evaluators -> {"off", "queued", "activate_queued", "budget", "open", "judge",
                            "activate", "demote", "promoted", "retire"}]
  /\ todo \in [Evaluators -> SUBSET Windows]
  /\ count \in [Evaluators -> Nat] /\ left \in [Evaluators -> 0 .. MaxPerWeek]
  /\ cur \in [Evaluators -> SUBSET Windows] /\ champ \in [Evaluators -> SUBSET Strategies]
  /\ at \in [Starters -> {"off", "count", "insert"}]
  /\ name \in [Starters -> Strategies] /\ full \in [Starters -> BOOLEAN]
  /\ waiting \subseteq Windows /\ faults \in 0 .. MaxFaults /\ irregular \subseteq Strategies

-----------------------------------------------------------------------------

In(s) == {w \in Windows : state[w] = s}

Unresolved == In("QUEUED") \cup In("OPEN")

Active == {s \in Strategies : status[s] = "ACTIVE"}

\* The status that discover gives a strategy: a builtin needs no row.
Effective(s) == IF s = Builtin /\ status[s] = "none" THEN "ACTIVE" ELSE status[s]

\* order, when x has just been updated among the elements of S.
Touched(order, x, S) ==
  {p \in order : x \notin {p[1], p[2]}} \cup {<<x, y>> : y \in S \ {x}}

Without(order, x) == {p \in order : x \notin {p[1], p[2]}}

\* ORDER BY updated_at DESC: nothing in S comes before x.
Newest(x, S, order) == x \in S /\ \A y \in S : <<y, x>> \notin order

\* The strategy of the window that is being resolved.
Named(e) == {strategy[w] : w \in cur[e]}

At(e, place) == pc[e] = place

Goto(e, place) == pc' = [pc EXCEPT ![e] = place]

\* set_strategy_status: an update, of nothing when the name has no row.
SetStatus(s, new) ==
  /\ status' = IF status[s] = "none" THEN status ELSE [status EXCEPT ![s] = new]
  /\ later' = IF new = "ACTIVE" /\ status[s] # "none" THEN Touched(later, s, Active)
              ELSE Without(later, s)

\* upsert_promotion_window of a row read before.
Resolve(w, new) ==
  /\ state' = [state EXCEPT ![w] = new]
  /\ newer' = IF new = "OPEN" THEN Touched(newer, w, Unresolved) ELSE Without(newer, w)
  /\ waiting' = waiting \ {w}

Fault(S) ==
  /\ faults < MaxFaults
  /\ faults' = faults + 1 /\ irregular' = irregular \cup S

-----------------------------------------------------------------------------
(* start_shadow.                                                           *)

Begin(k, s) ==
  /\ at[k] = "off"
  /\ at' = [at EXCEPT ![k] = "count"] /\ name' = [name EXCEPT ![k] = s]

\* It is not the only one to open a window for s.
Doubled(s) ==
  \/ \E w \in Unresolved : strategy[w] = s
  \/ \E k \in Starters : at[k] # "off" /\ name[k] = s

\* Mutant: the strategy is put in SHADOW only when it has no row yet.
MarkOnlyNew(k, s) ==
  /\ Begin(k, s)
  /\ status' = IF status[s] = "none" THEN [status EXCEPT ![s] = "SHADOW"] ELSE status
  /\ irregular' = IF Doubled(s) THEN irregular \cup {s} ELSE irregular
  /\ UNCHANGED <<later, windowVars, evalVars, full, waiting, faults>>

MarkShadow(k, s) ==
  /\ Begin(k, s)
  /\ status' = [status EXCEPT ![s] = "SHADOW"]
  /\ later' = Without(later, s)
  /\ irregular' = IF Doubled(s) THEN irregular \cup {s} ELSE irregular
  /\ UNCHANGED <<windowVars, evalVars, full, waiting, faults>>

\* The write raises: the window is opened all the same.
MarkFails(k, s) ==
  /\ Begin(k, s)
  /\ Fault({s})
  /\ UNCHANGED <<registryVars, windowVars, evalVars, full, waiting>>

CountOpen(k) ==
  /\ at[k] = "count"
  /\ full' = [full EXCEPT ![k] = Cardinality(In("OPEN")) >= MaxConcurrent]
  /\ at' = [at EXCEPT ![k] = "insert"]
  /\ UNCHANGED <<registryVars, windowVars, evalVars, name, history>>

StarterOff(k) ==
  /\ at' = [at EXCEPT ![k] = "off"]
  /\ name' = [name EXCEPT ![k] = Builtin] /\ full' = [full EXCEPT ![k] = FALSE]

InsertWindow(k, w) ==
  /\ at[k] = "insert" /\ state[w] = "free"
  /\ state' = [state EXCEPT ![w] = IF full[k] THEN "QUEUED" ELSE "OPEN"]
  /\ strategy' = [strategy EXCEPT ![w] = name[k]]
  /\ newer' = Touched(newer, w, Unresolved)
  /\ StarterOff(k)
  /\ UNCHANGED <<registryVars, ripe, evalVars, history>>

\* The process ends, or the insertion raises.
StarterEnds(k) ==
  /\ at[k] # "off"
  /\ StarterOff(k)
  /\ UNCHANGED <<registryVars, windowVars, evalVars, history>>

-----------------------------------------------------------------------------
(* evaluate_windows, after _activate_queued.                               *)

BeginEvaluation(e) ==
  /\ At(e, "off")
  /\ count' = [count EXCEPT ![e] = Cardinality(In("OPEN"))]
  /\ Goto(e, "queued")
  /\ UNCHANGED <<registryVars, windowVars, todo, left, cur, champ, starterVars, history>>

ReadQueued(e) ==
  /\ At(e, "queued")
  /\ todo' = [todo EXCEPT ![e] = In("QUEUED")]
  /\ Goto(e, "activate_queued")
  /\ UNCHANGED <<registryVars, windowVars, count, left, cur, champ, starterVars, history>>

ActivateQueued(e, w) ==
  /\ At(e, "activate_queued") /\ count[e] < MaxConcurrent
  /\ Newest(w, todo[e], newer)
  /\ Resolve(w, "OPEN")
  /\ todo' = [todo EXCEPT ![e] = @ \ {w}]
  /\ count' = [count EXCEPT ![e] = @ + 1]
  /\ UNCHANGED <<registryVars, strategy, ripe, pc, left, cur, champ, starterVars, faults, irregular>>

EndActivation(e) ==
  /\ At(e, "activate_queued") /\ (todo[e] = {} \/ count[e] >= MaxConcurrent)
  /\ todo' = [todo EXCEPT ![e] = {}] /\ count' = [count EXCEPT ![e] = 0]
  /\ Goto(e, "budget")
  /\ UNCHANGED <<registryVars, windowVars, left, cur, champ, starterVars, history>>

ReadBudget(e) ==
  /\ At(e, "budget")
  /\ left' = [left EXCEPT ![e] = LET n == Cardinality(In("PROMOTED")) IN
                                 IF n >= MaxPerWeek THEN 0 ELSE MaxPerWeek - n]
  /\ Goto(e, "open")
  /\ UNCHANGED <<registryVars, windowVars, todo, count, cur, champ, starterVars, history>>

\* Mutant: the last window that was updated and no other.
ReadLastOpen(e) ==
  /\ At(e, "open")
  /\ todo' = [todo EXCEPT ![e] = {w \in In("OPEN") : Newest(w, In("OPEN"), newer)}]
  /\ Goto(e, "judge")
  /\ UNCHANGED <<registryVars, windowVars, count, left, cur, champ, starterVars, history>>

ReadOpen(e) ==
  /\ At(e, "open")
  /\ todo' = [todo EXCEPT ![e] = In("OPEN")]
  /\ Goto(e, "judge")
  /\ UNCHANGED <<registryVars, windowVars, count, left, cur, champ, starterVars, history>>

\* The next window of the list.
IsNext(e, w) == At(e, "judge") /\ Newest(w, todo[e], newer)

Extend(e, w) ==
  /\ IsNext(e, w) /\ w \notin ripe
  /\ todo' = [todo EXCEPT ![e] = @ \ {w}]
  /\ UNCHANGED <<registryVars, windowVars, pc, count, left, cur, champ, starterVars, history>>

\* It has expired without evidence, or it is not better than the champion.
Reject(e, w) ==
  /\ IsNext(e, w)
  /\ Resolve(w, "REJECTED_SHADOW")
  /\ todo' = [todo EXCEPT ![e] = @ \ {w}]
  /\ cur' = [cur EXCEPT ![e] = {w}]
  /\ Goto(e, "retire")
  /\ UNCHANGED <<registryVars, strategy, ripe, count, left, champ, starterVars, faults, irregular>>

Retire(e) ==
  /\ At(e, "retire")
  /\ \E s \in Named(e) : SetStatus(s, "RETIRED")
  /\ cur' = [cur EXCEPT ![e] = {}]
  /\ Goto(e, "judge")
  /\ UNCHANGED <<windowVars, todo, count, left, champ, starterVars, history>>

RetireFails(e) ==
  /\ At(e, "retire")
  /\ Fault({})
  /\ cur' = [cur EXCEPT ![e] = {}]
  /\ Goto(e, "judge")
  /\ UNCHANGED <<registryVars, windowVars, todo, count, left, champ, starterVars, waiting>>

\* It is better, and the quota of the week is used up.
Wait(e, w) ==
  /\ IsNext(e, w) /\ w \in ripe /\ left[e] = 0
  /\ waiting' = waiting \cup {w}
  /\ todo' = [todo EXCEPT ![e] = @ \ {w}]
  /\ UNCHANGED <<registryVars, windowVars, pc, count, left, cur, champ, starterVars, faults, irregular>>

\* _champion_name, of the active rows that it reads.
Champions(s, actives) ==
  IF actives \ {s} # {} THEN {c \in Strategies : Newest(c, actives \ {s}, later)}
  ELSE {Builtin} \ {s}

\* Mutant: the quota is not used.
WinsUncounted(e, w, actives) ==
  /\ IsNext(e, w) /\ w \in ripe /\ left[e] > 0
  /\ champ' = [champ EXCEPT ![e] = Champions(strategy[w], actives)]
  /\ todo' = [todo EXCEPT ![e] = @ \ {w}] /\ cur' = [cur EXCEPT ![e] = {w}]
  /\ Goto(e, "activate")
  /\ UNCHANGED <<registryVars, windowVars, count, left, starterVars>>

Wins(e, w, actives) ==
  /\ IsNext(e, w) /\ w \in ripe /\ left[e] > 0
  /\ left' = [left EXCEPT ![e] = @ - 1]
  /\ champ' = [champ EXCEPT ![e] = Champions(strategy[w], actives)]
  /\ todo' = [todo EXCEPT ![e] = @ \ {w}] /\ cur' = [cur EXCEPT ![e] = {w}]
  /\ Goto(e, "activate")
  /\ UNCHANGED <<registryVars, windowVars, count, starterVars>>

\* It is better than the champion.
Win(e, w) ==
  /\ Wins(e, w, Active)
  /\ UNCHANGED history

\* The reading of the active rows raises: it is as if there were none.
WinUnread(e, w) ==
  /\ Wins(e, w, {})
  /\ Fault({})
  /\ UNCHANGED waiting

Activate(e) ==
  /\ At(e, "activate")
  /\ \E s \in Named(e) : SetStatus(s, "ACTIVE")
  /\ Goto(e, "demote")
  /\ UNCHANGED <<windowVars, todo, count, left, cur, champ, starterVars, history>>

\* Mutant: the champion is not replaced.
KeepChampion(e) ==
  /\ At(e, "demote")
  /\ Goto(e, "promoted")
  /\ UNCHANGED <<registryVars, windowVars, todo, count, left, cur, champ, starterVars, history>>

Demote(e) ==
  /\ At(e, "demote")
  /\ \/ champ[e] = {} /\ UNCHANGED registryVars
     \/ \E c \in champ[e] : SetStatus(c, "SHADOW")
  /\ Goto(e, "promoted")
  /\ UNCHANGED <<windowVars, todo, count, left, cur, champ, starterVars, history>>

\* Either write raises: neither is tried again and the window is promoted.
ReplaceFails(e) ==
  /\ pc[e] \in {"activate", "demote"}
  /\ Fault({})
  /\ Goto(e, "promoted")
  /\ UNCHANGED <<registryVars, windowVars, todo, count, left, cur, champ, starterVars, waiting>>

Promote(e) ==
  /\ At(e, "promoted")
  /\ \E w \in cur[e] : Resolve(w, "PROMOTED")
  /\ cur' = [cur EXCEPT ![e] = {}] /\ champ' = [champ EXCEPT ![e] = {}]
  /\ Goto(e, "judge")
  /\ UNCHANGED <<registryVars, strategy, ripe, todo, count, left, starterVars, faults, irregular>>

Ended(e) ==
  /\ Goto(e, "off")
  /\ todo' = [todo EXCEPT ![e] = {}] /\ count' = [count EXCEPT ![e] = 0]
  /\ left' = [left EXCEPT ![e] = 0]
  /\ cur' = [cur EXCEPT ![e] = {}] /\ champ' = [champ EXCEPT ![e] = {}]
  /\ UNCHANGED <<registryVars, windowVars, starterVars, waiting>>

EndEvaluation(e) ==
  /\ At(e, "judge") /\ todo[e] = {}
  /\ Ended(e)
  /\ UNCHANGED <<faults, irregular>>

\* The process is killed, or the store raises where nothing catches it.
Crash(e) ==
  /\ ~At(e, "off")
  /\ Fault(IF pc[e] \in {"demote", "promoted"} THEN Named(e) ELSE {})
  /\ Ended(e)

-----------------------------------------------------------------------------
(* The environment.                                                        *)

\* The signals of a strategy in SHADOW mature, from the start of its window.
Ripen(w) ==
  /\ w \in Unresolved \ ripe
  /\ ripe' = ripe \cup {w}
  /\ UNCHANGED <<registryVars, state, strategy, newer, evalVars, starterVars, history>>

\* strategy-registry --activate, --shadow, --retire.
SetByHand(s, new) ==
  /\ Fault({s})
  /\ status' = [status EXCEPT ![s] = new]
  /\ later' = IF new = "ACTIVE" THEN Touched(later, s, Active) ELSE Without(later, s)
  /\ UNCHANGED <<windowVars, evalVars, starterVars, waiting>>

\* Seven days later: the promotions of before no longer count.
NextWeek ==
  /\ \A e \in Evaluators : At(e, "off")
  /\ state' = [w \in Windows |-> IF w \in Unresolved THEN state[w] ELSE "free"]
  /\ ripe' = ripe \cap Unresolved
  /\ UNCHANGED <<registryVars, strategy, newer, evalVars, starterVars, history>>

-----------------------------------------------------------------------------

Init ==
  /\ status \in {[s \in Strategies |-> IF s = Builtin THEN b ELSE "none"] : b \in {"none", "ACTIVE"}}
  /\ later = {}
  /\ state = [w \in Windows |-> "free"]
  /\ strategy = [w \in Windows |-> Builtin]
  /\ newer = {} /\ ripe = {}
  /\ pc = [e \in Evaluators |-> "off"]
  /\ todo = [e \in Evaluators |-> {}]
  /\ count = [e \in Evaluators |-> 0] /\ left = [e \in Evaluators |-> 0]
  /\ cur = [e \in Evaluators |-> {}]
  /\ champ = [e \in Evaluators |-> {}]
  /\ at = [k \in Starters |-> "off"]
  /\ name = [k \in Starters |-> Builtin] /\ full = [k \in Starters |-> FALSE]
  /\ waiting = {} /\ faults = 0 /\ irregular = {}

Starter(k) ==
  \/ \E s \in Strategies : MarkShadow(k, s)
  \/ \E s \in Strategies : MarkFails(k, s)
  \/ CountOpen(k)
  \/ \E w \in Windows : InsertWindow(k, w)
  \/ StarterEnds(k)

Evaluate(e) ==
  \/ BeginEvaluation(e)
  \/ ReadQueued(e)
  \/ \E w \in Windows : ActivateQueued(e, w)
  \/ EndActivation(e)
  \/ ReadBudget(e)
  \/ ReadOpen(e)
  \/ \E w \in Windows : Extend(e, w) \/ Reject(e, w) \/ Wait(e, w) \/ Win(e, w)
  \/ Retire(e)
  \/ Activate(e)
  \/ Demote(e)
  \/ Promote(e)
  \/ EndEvaluation(e)

Faulty(e) ==
  \/ \E w \in Windows : WinUnread(e, w)
  \/ RetireFails(e)
  \/ ReplaceFails(e)
  \/ Crash(e)

Next ==
  \/ \E k \in Starters : Starter(k)
  \/ \E e \in Evaluators : Evaluate(e) \/ Faulty(e)
  \/ \E w \in Windows : Ripen(w)
  \/ \E s \in Strategies, new \in {"ACTIVE", "SHADOW", "RETIRED"} : SetByHand(s, new)
  \/ NextWeek

Spec == Init /\ [][Next]_vars

\* The nightly review evaluates every night, and the weeks pass.
LiveSpec ==
  /\ Spec
  /\ \A e \in Evaluators : WF_vars(Evaluate(e))
  /\ SF_vars(NextWeek)

-----------------------------------------------------------------------------
(* Properties.                                                             *)

\* No more promotions in a week than the quota allows, though evaluations
\* crash between the activation of a strategy and the end of its window and
\* judge it again (evaluate_windows, _promotions_this_week).
WeeklyBudgetHolds == Cardinality(In("PROMOTED")) <= MaxPerWeek

\* Outside a replacement there is one active row at most, and one more for
\* every crash, failed write, failed reading of the active rows or command by
\* hand: windows opened, promoted and rejected in any order leave no second
\* champion (evaluate_windows: the champion is looked up, the challenger
\* activated and the champion demoted in three transactions, and what any of
\* them raises is swallowed; _champion_name).
OneChampionPerFault ==
  (\A e \in Evaluators : ~At(e, "demote")) => Cardinality(Active) <= 1 + faults

\* The rejection of a window retires the champion only when the strategy had
\* two windows at once or was hit by a fault: the evaluation never looks at
\* the status of the strategy that it retires (evaluate_windows).
ChampionsAreNotRetired ==
  \A e \in Evaluators : At(e, "retire") => Named(e) \cap Active \subseteq irregular

\* A window with enough evidence is resolved or told to wait, whatever crashes
\* (evaluate_windows reads every open window every night).
RipeWindowIsJudged ==
  \A w \in Windows : (state[w] = "OPEN" /\ w \in ripe) ~> (state[w] # "OPEN" \/ w \in waiting)

\* The champion that is replaced is not active any more (architecture.md:199,
\* evaluate_windows).
ReplacedChampionLeaves ==
  \A e \in Evaluators : At(e, "promoted") /\ Named(e) \subseteq Active =>
    \A c \in champ[e] : Effective(c) # "ACTIVE"

\* A window that is told to wait for the quota of the week gets its turn
\* (promotion.py:266).
WaitingWindowGetsItsTurn ==
  \A w \in Windows : (w \in waiting) ~> (w \notin waiting)

\* There are never more open windows than the budget of changes allows
\* (architecture.md:149, start_shadow).
OpenWithinBudget == Cardinality(In("OPEN")) <= MaxConcurrent

=============================================================================
