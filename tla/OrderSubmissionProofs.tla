----------------------- MODULE OrderSubmissionProofs -----------------------
(***************************************************************************)
(* Theorems about OrderSubmission, for any symbols, any number of runs of  *)
(* each kind, any limits and any number of days: the types, the risk       *)
(* budget and the buys of a day, one buy per symbol, and the rows by which *)
(* the watch sells.                                                        *)
(***************************************************************************)
EXTENDS OrderSubmission, FiniteSetTheorems, TLAPS

PlanRows == [side : {"buy", "sell"}, day : Days \cup {0},
             status : {"none", "PENDING", "SUBMITTED", "EXPIRED"}]

\* What a run has in its hands at each place.
HandsHold ==
  \A r \in Runs :
    /\ pc[r] = "plan" => view[r] # None
    /\ pc[r] \in {"consume", "submit", "save"} => cur[r] # None
    /\ pc[r] = "consume" => read[r] # None

TypeInv == TypeOK /\ HandsHold

-----------------------------------------------------------------------------
(* The updates of the tables, once.                                        *)

\* A record under another field.
LEMMA RowUpdates ==
  ASSUME NEW x \in PlanRows, NEW v
  PROVE  /\ [x EXCEPT !.status = v] = [side |-> x.side, day |-> x.day, status |-> v]
         /\ [x EXCEPT !.side = v] = [side |-> v, day |-> x.day, status |-> x.status]
BY DEF PlanRows

LEMMA OrderUpdate ==
  ASSUME NEW x \in [status : {"none", "open", "filled", "dead"}, day : Days \cup {0}], NEW v
  PROVE  [x EXCEPT !.status = v] = [status |-> v, day |-> x.day]
OBVIOUS

LEMMA PlanParts ==
  ASSUME TypeOK, NEW p \in Plans
  PROVE  /\ plan[p] \in PlanRows
         /\ plan[p].side \in {"buy", "sell"}
         /\ plan[p].day \in Days \cup {0}
         /\ plan[p].status \in {"none", "PENDING", "SUBMITTED", "EXPIRED"}
BY DEF TypeOK, PlanRows

LEMMA SavedFacts ==
  ASSUME TypeOK, NEW P, NEW side \in {"buy", "sell"}
  PROVE  /\ Saved(P, side) \in [Plans -> PlanRows]
         /\ \A p \in Plans : Saved(P, side)[p].side = IF p \in P THEN side ELSE plan[p].side
         /\ \A p \in Plans : p \notin P => Saved(P, side)[p] = plan[p]
<1>1. /\ [side |-> side, day |-> day, status |-> "PENDING"] \in PlanRows
      /\ [side |-> side, day |-> day, status |-> "PENDING"].side = side
  BY DEF TypeOK, PlanRows
<1>2. \A p \in Plans : plan[p] \in PlanRows
  BY PlanParts
<1> HIDE DEF PlanRows
<1> QED
  BY <1>1, <1>2 DEF Saved

LEMMA ExpiredFacts ==
  ASSUME TypeOK
  PROVE  /\ Expired \in [Plans -> PlanRows]
         /\ \A p \in Plans : Expired[p].side = plan[p].side
         /\ \A p \in Plans : Expired[p].status # "none" <=> plan[p].status # "none"
<1>0. \A p \in Plans : [plan[p] EXCEPT !.status = "EXPIRED"] =
        [side |-> plan[p].side, day |-> plan[p].day, status |-> "EXPIRED"]
  BY PlanParts, RowUpdates
<1>1. \A p \in Plans : [plan[p] EXCEPT !.status = "EXPIRED"] \in PlanRows
  BY <1>0, PlanParts DEF PlanRows
<1>2. \A p \in Plans : Expired[p] \in {plan[p], [plan[p] EXCEPT !.status = "EXPIRED"]}
  BY DEF Expired
<1>3. Expired \in [Plans -> PlanRows]
  <2>1. \A p \in Plans : Expired[p] \in PlanRows
    BY <1>1, <1>2, PlanParts
  <2> QED
    BY <2>1 DEF Expired
<1>4. \A p \in Plans : /\ [plan[p] EXCEPT !.status = "EXPIRED"].side = plan[p].side
                       /\ [plan[p] EXCEPT !.status = "EXPIRED"].status = "EXPIRED"
  BY <1>0
<1>5. \A p \in Plans : Expired[p].side = plan[p].side
  BY <1>2, <1>4
<1>6. \A p \in Plans : Expired[p] = plan[p] \/ (plan[p].status = "PENDING" /\ Expired[p].status = "EXPIRED")
  <2>1. \A p \in Plans : Expired[p] = IF plan[p].status = "PENDING" /\ plan[p].day < day
                                   THEN [plan[p] EXCEPT !.status = "EXPIRED"] ELSE plan[p]
    BY DEF Expired
  <2> SUFFICES ASSUME NEW p \in Plans
               PROVE  Expired[p] = plan[p] \/ (plan[p].status = "PENDING" /\ Expired[p].status = "EXPIRED")
    OBVIOUS
  <2>2. CASE plan[p].status = "PENDING" /\ plan[p].day < day
    <3>1. Expired[p] = [plan[p] EXCEPT !.status = "EXPIRED"]
      BY <2>1, <2>2
    <3>2. Expired[p].status = "EXPIRED"
      BY <1>4, <3>1
    <3> QED
      BY <2>2, <3>2
  <2>3. CASE ~(plan[p].status = "PENDING" /\ plan[p].day < day)
    <3>1. Expired[p] = plan[p]
      BY <2>1, <2>3
    <3> QED
      BY <3>1
  <2> QED
    BY <2>2, <2>3
<1> QED
  BY <1>3, <1>5, <1>6

\* A row of the plans under another side or status.
LEMMA SideFacts ==
  ASSUME TypeOK, NEW p \in Plans, plan' = [plan EXCEPT ![p].side = "sell"]
  PROVE  /\ plan' \in [Plans -> PlanRows]
         /\ plan'[p].side = "sell" /\ plan'[p].status = plan[p].status
         /\ \A x \in Plans \ {p} : plan'[x] = plan[x]
<1> DEFINE row == [plan[p] EXCEPT !.side = "sell"]
<1>0. row = [side |-> "sell", day |-> plan[p].day, status |-> plan[p].status]
  BY PlanParts, RowUpdates
<1>1. row \in PlanRows /\ row.side = "sell" /\ row.status = plan[p].status
  BY <1>0, PlanParts DEF PlanRows
<1>2. plan' = [plan EXCEPT ![p] = row]
  BY Zenon
<1> HIDE DEF row
<1>3. plan \in [Plans -> PlanRows]
  BY DEF TypeOK, PlanRows
<1> QED
  BY <1>1, <1>2, <1>3

LEMMA StatusFacts ==
  ASSUME TypeOK, NEW p \in Plans, NEW st \in {"none", "SUBMITTED"},
         plan[p].status = "none" => st = "none",
         plan' = [plan EXCEPT ![p].status = st]
  PROVE  /\ plan' \in [Plans -> PlanRows]
         /\ plan'[p].side = plan[p].side
         /\ plan'[p].status # "none" => plan[p].status # "none"
         /\ \A x \in Plans \ {p} : plan'[x] = plan[x]
<1> DEFINE row == [plan[p] EXCEPT !.status = st]
<1>0. row = [side |-> plan[p].side, day |-> plan[p].day, status |-> st]
  BY PlanParts, RowUpdates
<1>1. row \in PlanRows /\ row.side = plan[p].side /\ row.status = st
  BY <1>0, PlanParts DEF PlanRows
<1>2. plan' = [plan EXCEPT ![p] = row]
  BY Zenon
<1> HIDE DEF row
<1>3. plan \in [Plans -> PlanRows]
  BY DEF TypeOK, PlanRows
<1> QED
  BY <1>1, <1>2, <1>3

LEMMA OrderParts ==
  ASSUME TypeOK, NEW p \in Plans
  PROVE  /\ order[p].status \in {"none", "open", "filled", "dead"}
         /\ order[p].day \in Days \cup {0}
         /\ order[p] = [status |-> order[p].status, day |-> order[p].day]
BY DEF TypeOK

\* The order of a plan under another status.
LEMMA OrderFacts ==
  ASSUME TypeOK, NEW p \in Plans, NEW st \in {"filled", "dead"}, order' = [order EXCEPT ![p].status = st]
  PROVE  /\ order' \in [Plans -> [status : {"none", "open", "filled", "dead"}, day : Days \cup {0}]]
         /\ order'[p].day = order[p].day /\ order'[p].status = st
         /\ \A x \in Plans \ {p} : order'[x] = order[x]
<1> DEFINE row == [order[p] EXCEPT !.status = st]
<1>0. order \in [Plans -> [status : {"none", "open", "filled", "dead"}, day : Days \cup {0}]]
  BY DEF TypeOK
<1>1. /\ row \in [status : {"none", "open", "filled", "dead"}, day : Days \cup {0}]
      /\ row.day = order[p].day /\ row.status = st
  BY <1>0
<1>2. order' = [order EXCEPT ![p] = row]
  BY Zenon
<1> HIDE DEF row
<1> QED
  BY <1>0, <1>1, <1>2

\* The budget of today.
LEMMA TodayFacts ==
  ASSUME TypeOK, NEW b \in BudgetStates
  PROVE  /\ Today(b) \in BudgetStates /\ Today(b).day = day
         /\ Today(b).new = IF b.day = day THEN b.new ELSE 0
         /\ [day |-> day, open |-> Today(b).open + 1, new |-> Today(b).new + 1] \in BudgetStates
<1>1. day \in Days /\ b.open \in Nat /\ b.new \in Nat /\ b.day \in Days
  BY DEF TypeOK, BudgetStates
<1>2. Today(b) \in BudgetStates /\ Today(b).day = day /\ Today(b).new = IF b.day = day THEN b.new ELSE 0
  BY <1>1 DEF Today, BudgetStates
<1>3. Today(b).open + 1 \in Nat /\ Today(b).new + 1 \in Nat
  BY <1>2 DEF BudgetStates
<1> QED
  BY <1>1, <1>2, <1>3 DEF BudgetStates

\* A failed plan is let go.
LEMMA FailedFacts ==
  ASSUME TypeOK, NEW r \in Runs, Failed(r)
  PROVE  /\ pc' \in [Runs -> PCs] /\ pc'[r] = "take"
         /\ todo' \in [Runs -> SUBSET Plans] /\ todo'[r] \subseteq todo[r]
         /\ cur' \in [Runs -> Plans \cup {None}] /\ cur'[r] = None
         /\ read' \in [Runs -> BudgetStates \cup {None}] /\ read'[r] = None
         /\ \A q \in Runs \ {r} : pc'[q] = pc[q] /\ todo'[q] = todo[q] /\ cur'[q] = cur[q] /\ read'[q] = read[q]
BY DEF TypeOK, Failed, Goto, PCs

\* What an order does to the positions.
LEMMA FilledTyped ==
  ASSUME TypeOK, NEW p \in Plans, Filled(p)
  PROVE  position' \in [Symbols -> SUBSET Plans]
<1>1. SymbolOf(p) \in Symbols
  BY DEF SymbolOf, Plans
<1>2. \/ position' = position
      \/ position' = [position EXCEPT ![SymbolOf(p)] = {}]
      \/ position' = [position EXCEPT ![SymbolOf(p)] = @ \cup {p}]
  BY DEF Filled
<1>3. position \in [Symbols -> SUBSET Plans]
  BY DEF TypeOK
<1> QED
  BY <1>1, <1>2, <1>3

LEMMA SaveFacts ==
  ASSUME TypeOK, NEW r \in Runs, cur[r] \in Plans, Save(r)
  PROVE  /\ plan' \in [Plans -> PlanRows]
         /\ \A x \in Plans : plan'[x].side = plan[x].side
         /\ \A x \in Plans : plan'[x].status # "none" => plan[x].status # "none"
<1> DEFINE st == IF plan[cur[r]].status = "none" THEN "none" ELSE "SUBMITTED"
<1>1. plan' = [plan EXCEPT ![cur[r]].status = st]
  BY Zenon DEF Save
<1>2. st \in {"none", "SUBMITTED"} /\ (plan[cur[r]].status = "none" => st = "none")
  OBVIOUS
<1> HIDE DEF st
<1>3. /\ plan' \in [Plans -> PlanRows]
      /\ plan'[cur[r]].side = plan[cur[r]].side
      /\ plan'[cur[r]].status # "none" => plan[cur[r]].status # "none"
      /\ \A x \in Plans \ {cur[r]} : plan'[x] = plan[x]
  BY <1>1, <1>2, StatusFacts
<1> QED
  BY <1>3

\* The orders that the night ends keep their day.
LEMMA NextOrders ==
  ASSUME TypeOK, NextDay
  PROVE  /\ order' \in [Plans -> [status : {"none", "open", "filled", "dead"}, day : Days \cup {0}]]
         /\ \A p \in Plans : order'[p].day = order[p].day
         /\ \A p \in Plans : order'[p].status = "none" <=> order[p].status = "none"
<1>1. \A p \in Plans : order'[p] = IF order[p].status = "open"
                                 THEN [order[p] EXCEPT !.status = "dead"] ELSE order[p]
  BY DEF NextDay
<1>2. \A p \in Plans : [order[p] EXCEPT !.status = "dead"] = [status |-> "dead", day |-> order[p].day]
  BY OrderUpdate DEF TypeOK
<1>3. ASSUME NEW p \in Plans
      PROVE  /\ order'[p].day = order[p].day
             /\ order'[p].status = "none" <=> order[p].status = "none"
             /\ order'[p] \in [status : {"none", "open", "filled", "dead"}, day : Days \cup {0}]
  <2>1. CASE order[p].status = "open"
    <3>1. order'[p] = [status |-> "dead", day |-> order[p].day]
      BY <1>1, <1>2, <2>1
    <3>2. order[p].day \in Days \cup {0}
      BY OrderParts
    <3>3. order'[p] \in [status : {"none", "open", "filled", "dead"}, day : Days \cup {0}]
      BY <3>1, <3>2
    <3>4. order'[p].day = order[p].day /\ order'[p].status = "dead"
      BY <3>1
    <3> QED
      BY <2>1, <3>3, <3>4
  <2>2. CASE order[p].status # "open"
    BY <1>1, <2>2 DEF TypeOK
  <2> QED
    BY <2>1, <2>2
<1>4. order' = [p \in Plans |-> order'[p]]
  BY DEF NextDay
<1> QED
  BY <1>3, <1>4

-----------------------------------------------------------------------------
(* Types.                                                                  *)

LEMMA TypeStep ==
  ASSUME TypeInv, [Next]_vars
  PROVE  TypeInv'
<1>0. /\ day \in Days /\ plan \in [Plans -> PlanRows]
      /\ rows \in Seq([plan : Plans, day : Days]) /\ budget \in BudgetStates
      /\ order \in [Plans -> [status : {"none", "open", "filled", "dead"}, day : Days \cup {0}]]
      /\ position \in [Symbols -> SUBSET Plans] /\ pc \in [Runs -> PCs]
      /\ view \in [Runs -> Views \cup {None}] /\ todo \in [Runs -> SUBSET Plans]
      /\ cur \in [Runs -> Plans \cup {None}] /\ read \in [Runs -> BudgetStates \cup {None}]
      /\ missed \subseteq Plans /\ overlap \in BOOLEAN /\ unchecked \in BOOLEAN
      /\ limit \in [Runs -> Nat]
      /\ TypeOK /\ HandsHold
  BY DEF TypeInv, TypeOK, PlanRows
<1>n. None \notin Plans \cup Views \cup BudgetStates
  BY OrderAssumption
<1>p. \A r \in Runs : pc[r] \in {"consume", "submit", "save"} => cur[r] \in Plans
  BY <1>0 DEF HandsHold
<1> USE DEF storeVars, brokerVars, runVars, history, At, Goto
<1>1. ASSUME NEW r \in Runs, Snapshot(r) PROVE TypeInv'
  <2>1. [ordered |-> Ordered, held |-> Held] \in Views
    BY DEF Ordered, Held, Views
  <2>2. view' \in [Runs -> Views \cup {None}] /\ pc' \in [Runs -> PCs] /\ view'[r] # None
    BY <1>0, <1>n, <1>1, <2>1 DEF Snapshot, PCs
  <2>3. HandsHold'
    BY <1>0, <1>1, <2>2 DEF Snapshot, HandsHold
  <2> QED
    BY <1>0, <1>1, <2>2, <2>3 DEF Snapshot, TypeInv, TypeOK, PlanRows
<1>2. ASSUME NEW r \in Runs, Decide(r) PROVE TypeInv'
  <2>1. plan' \in [Plans -> PlanRows]
    BY <1>0, <1>2, ExpiredFacts DEF Decide, PlanRows
  <2>2. view' \in [Runs -> Views \cup {None}] /\ pc' \in [Runs -> PCs]
    BY <1>0, <1>2 DEF Decide, PCs
  <2>3. HandsHold'
    BY <1>0, <1>2 DEF Decide, HandsHold
  <2>4. limit' \in [Runs -> Nat]
    <3>1. DailyLimits(r) \subseteq Nat
      BY OrderAssumption DEF DailyLimits
    <3> QED
      BY <1>0, <1>2, <3>1 DEF Decide
  <2> QED
    BY <1>0, <1>2, <2>1, <2>2, <2>3, <2>4 DEF Decide, TypeInv, TypeOK, PlanRows
<1>3. ASSUME NEW r \in Runs, Trigger(r) PROVE TypeInv'
  <2>1. view[r] \in Views
    BY <1>0, <1>3 DEF Trigger, HandsHold
  <2>2. todo' \in [Runs -> SUBSET Plans]
    <3>1. PICK crossed \in SUBSET {s \in view[r].held \ view[r].ordered : BuyRows(s) # {}} :
            todo' = [todo EXCEPT ![r] = {<<r, s>> : s \in crossed}]
      BY <1>3 DEF Trigger
    <3>2. {<<r, s>> : s \in crossed} \subseteq Plans
      BY <2>1 DEF Views, Plans
    <3> QED
      BY <1>0, <3>1, <3>2
  <2>3. view' \in [Runs -> Views \cup {None}] /\ pc' \in [Runs -> PCs]
    BY <1>0, <1>3 DEF Trigger, PCs
  <2>4. HandsHold'
    BY <1>0, <1>3 DEF Trigger, HandsHold
  <2> QED
    BY <1>0, <1>3, <2>2, <2>3, <2>4 DEF Trigger, TypeInv, TypeOK, PlanRows
<1>4. ASSUME NEW r \in Runs, Load(r) PROVE TypeInv'
  <2>1. plan' \in [Plans -> PlanRows]
    BY <1>0, <1>4, ExpiredFacts DEF Load
  <2>2. todo' \in [Runs -> SUBSET Plans] /\ pc' \in [Runs -> PCs] /\ overlap' \in BOOLEAN
    <3>1. {p \in Pending : r \in Clis \/ p[1] = r} \subseteq Plans
      BY DEF Pending
    <3> QED
      BY <1>0, <1>4, <3>1 DEF Load, PCs
  <2>3. HandsHold'
    BY <1>0, <1>4 DEF Load, HandsHold
  <2> QED
    BY <1>0, <1>4, <2>1, <2>2, <2>3 DEF Load, TypeInv, TypeOK, PlanRows
<1>5. ASSUME NEW r \in Runs, Take(r) PROVE TypeInv'
  <2>1. PICK p \in todo[r] :
          /\ cur' = [cur EXCEPT ![r] = p] /\ todo' = [todo EXCEPT ![r] = @ \ {p}]
          /\ plan' \in IF r \in Watches
                       THEN {Saved({p}, "sell"), [plan EXCEPT ![p].side = "sell"]} ELSE {plan}
          /\ IF plan'[p].side = "buy"
             THEN Goto(r, "consume") /\ read' = [read EXCEPT ![r] = budget]
             ELSE Goto(r, "submit") /\ read' = read
    BY <1>5 DEF Take
  <2>2. p \in Plans
    BY <1>0, <2>1
  <2>3. plan' \in [Plans -> PlanRows]
    BY <1>0, <2>1, <2>2, SavedFacts, SideFacts
  <2>4. cur' \in [Runs -> Plans \cup {None}] /\ todo' \in [Runs -> SUBSET Plans]
    BY <1>0, <2>1, <2>2
  <2>5. read' \in [Runs -> BudgetStates \cup {None}] /\ pc' \in [Runs -> PCs]
    BY <1>0, <2>1 DEF PCs
  <2>6. HandsHold'
    BY <1>0, <1>n, <1>5, <2>1, <2>2 DEF Take, HandsHold
  <2> QED
    BY <1>0, <1>5, <2>3, <2>4, <2>5, <2>6 DEF Take, TypeInv, TypeOK, PlanRows
<1>6. ASSUME NEW r \in Runs, Blocked(r) PROVE TypeInv'
  <2>1. Failed(r)
    BY <1>6 DEF Blocked
  <2>2. HandsHold'
    BY <1>0, <1>6, <2>1, FailedFacts DEF Blocked, HandsHold
  <2> QED
    BY <1>0, <1>6, <1>p, <2>1, <2>2, FailedFacts DEF Blocked, TypeInv, TypeOK, PlanRows
<1>7. ASSUME NEW r \in Runs, Consume(r) PROVE TypeInv'
  <2>1. read[r] \in BudgetStates
    BY <1>0, <1>7 DEF Consume, HandsHold
  <2>2. budget' \in BudgetStates
    BY <1>0, <1>7, <2>1, TodayFacts DEF Consume
  <2>3. CASE CanConsume(Today(read[r]))
    <3>1. pc' \in [Runs -> PCs] /\ read' \in [Runs -> BudgetStates \cup {None}] /\ UNCHANGED <<todo, cur>>
      BY <1>0, <1>7, <2>3 DEF Consume, PCs
    <3>2. HandsHold'
      BY <1>0, <1>7, <2>3 DEF Consume, HandsHold
    <3> QED
      BY <1>0, <1>7, <2>2, <3>1, <3>2 DEF Consume, TypeInv, TypeOK, PlanRows
  <2>4. CASE ~CanConsume(Today(read[r]))
    <3>1. Failed(r)
      BY <1>7, <2>4 DEF Consume
    <3>2. HandsHold'
      BY <1>0, <1>7, <3>1, FailedFacts DEF Consume, HandsHold
    <3> QED
      BY <1>0, <1>7, <2>2, <3>1, <3>2, FailedFacts DEF Consume, TypeInv, TypeOK, PlanRows
  <2> QED
    BY <2>3, <2>4
<1>8. ASSUME NEW r \in Runs, ConsumeFails(r) PROVE TypeInv'
  <2>1. pc' \in [Runs -> PCs] /\ read' \in [Runs -> BudgetStates \cup {None}]
    BY <1>0, <1>8 DEF ConsumeFails, PCs
  <2>2. HandsHold'
    BY <1>0, <1>8 DEF ConsumeFails, HandsHold
  <2> QED
    BY <1>0, <1>8, <2>1, <2>2 DEF ConsumeFails, TypeInv, TypeOK, PlanRows
<1>9. ASSUME NEW r \in Runs, Submit(r) PROVE TypeInv'
  <2>1. cur[r] \in Plans
    BY <1>p, <1>9 DEF Submit
  <2>2. order' \in [Plans -> [status : {"none", "open", "filled", "dead"}, day : Days \cup {0}]]
    <3>1. \E st \in {"open", "filled"} : order' = [order EXCEPT ![cur[r]] = [status |-> st, day |-> day]]
      BY <1>9 DEF Submit
    <3> QED
      BY <1>0, <2>1, <3>1
  <2>3. position' \in [Symbols -> SUBSET Plans]
    BY <1>0, <1>9, <2>1, FilledTyped DEF Submit
  <2>4. CASE Goto(r, "save") /\ UNCHANGED <<todo, cur, read, missed>>
    <3>1. pc' \in [Runs -> PCs]
      BY <1>0, <2>4 DEF PCs
    <3>2. HandsHold'
      BY <1>0, <1>9, <2>4 DEF Submit, HandsHold
    <3> QED
      BY <1>0, <1>9, <2>2, <2>3, <2>4, <3>1, <3>2 DEF Submit, TypeInv, TypeOK, PlanRows
  <2>5. CASE Failed(r) /\ missed' = missed \cup {cur[r]}
    <3>1. HandsHold'
      BY <1>0, <1>9, <2>5, FailedFacts DEF Submit, HandsHold
    <3> QED
      BY <1>0, <1>9, <2>1, <2>2, <2>3, <2>5, <3>1, FailedFacts DEF Submit, TypeInv, TypeOK, PlanRows
  <2> QED
    BY <1>9, <2>4, <2>5 DEF Submit
<1>10. ASSUME NEW r \in Runs, Save(r) PROVE TypeInv'
  <2>1. cur[r] \in Plans
    BY <1>p, <1>10 DEF Save
  <2>2. rows' \in Seq([plan : Plans, day : Days])
    BY <1>0, <1>10, <2>1 DEF Save
  <2>3. plan' \in [Plans -> PlanRows]
    BY <1>0, <1>10, <2>1, SaveFacts
  <2>4. cur' \in [Runs -> Plans \cup {None}] /\ pc' \in [Runs -> PCs]
    BY <1>0, <1>10 DEF Save, PCs
  <2>5. HandsHold'
    BY <1>0, <1>10 DEF Save, HandsHold
  <2> QED
    BY <1>0, <1>10, <2>2, <2>3, <2>4, <2>5 DEF Save, TypeInv, TypeOK, PlanRows
<1>11. ASSUME NEW r \in Runs, SaveFails(r) PROVE TypeInv'
  <2>1. Failed(r)
    BY <1>11 DEF SaveFails
  <2>2. HandsHold'
    BY <1>0, <1>11, <2>1, FailedFacts DEF SaveFails, HandsHold
  <2> QED
    BY <1>0, <1>11, <1>p, <2>1, <2>2, FailedFacts DEF SaveFails, TypeInv, TypeOK, PlanRows
<1>12. ASSUME NEW r \in Runs, End(r) PROVE TypeInv'
  BY <1>0, <1>12 DEF End, TypeInv, TypeOK, HandsHold, PlanRows, PCs
<1>13. ASSUME NEW R \in SUBSET Runs, Crash(R) PROVE TypeInv'
  <2>1. missed' \subseteq Plans
    BY <1>0, <1>13, <1>p DEF Crash
  <2>2. pc' \in [Runs -> PCs] /\ todo' \in [Runs -> SUBSET Plans]
    BY <1>0, <1>13 DEF Crash, PCs
  <2>3. cur' \in [Runs -> Plans \cup {None}] /\ view' \in [Runs -> Views \cup {None}]
    BY <1>0, <1>13 DEF Crash
  <2>4. read' \in [Runs -> BudgetStates \cup {None}]
    BY <1>0, <1>13 DEF Crash
  <2>5. HandsHold'
    BY <1>0, <1>13 DEF Crash, HandsHold, InProgress
  <2> QED
    BY <1>0, <1>13, <2>1, <2>2, <2>3, <2>4, <2>5 DEF Crash, TypeInv, TypeOK, PlanRows
<1>14. ASSUME NEW p \in Plans, Fill(p) PROVE TypeInv'
  BY <1>0, <1>14, FilledTyped, OrderFacts DEF Fill, TypeInv, TypeOK, HandsHold, PlanRows
<1>15. ASSUME NEW p \in Plans, Die(p) PROVE TypeInv'
  BY <1>0, <1>15, OrderFacts DEF Die, TypeInv, TypeOK, HandsHold, PlanRows
<1>16. ASSUME NextDay PROVE TypeInv'
  <2>1. day' \in Days
    BY <1>0, <1>16, OrderAssumption DEF NextDay, Days
  <2>2. order' \in [Plans -> [status : {"none", "open", "filled", "dead"}, day : Days \cup {0}]]
    BY <1>0, <1>16, NextOrders
  <2> QED
    BY <1>0, <1>16, <2>1, <2>2 DEF NextDay, TypeInv, TypeOK, HandsHold, PlanRows
<1>17. ASSUME UNCHANGED vars PROVE TypeInv'
  BY <1>0, <1>17 DEF vars, TypeInv, TypeOK, HandsHold, PlanRows
<1>c. Jobs \cup Watches \in SUBSET Runs /\ \A r \in Clis : {r} \in SUBSET Runs
  BY DEF Runs, Jobs
<1>i. Clis \subseteq Runs
  BY DEF Runs
<1> QED
  BY <1>c, <1>i, <1>1, <1>2, <1>3, <1>4, <1>5, <1>6, <1>7, <1>8, <1>9, <1>10, <1>11, <1>12, <1>13, <1>14, <1>15, <1>16, <1>17
     DEF Next, Step

LEMMA TypeInit ==
  ASSUME Init
  PROVE  TypeInv
<1>1. 1 \in Days
  BY OrderAssumption DEF Init, Days
<1>2. budget \in BudgetStates
  BY <1>1 DEF Init, BudgetStates
<1>3. rows \in Seq([plan : Plans, day : Days])
  BY DEF Init
<1> QED
  BY <1>1, <1>2, <1>3 DEF Init, TypeInv, TypeOK, HandsHold, PCs

\* Every variable has its type, and a run has in its hands what its next call
\* needs: for any symbols, runs, limits and days.
THEOREM OrderTypeCorrect == Spec => []TypeOK
<1>1. Spec => []TypeInv
  BY TypeInit, TypeStep, PTL DEF Spec
<1>2. TypeInv => TypeOK
  BY DEF TypeInv
<1> QED
  BY <1>1, <1>2, PTL

-----------------------------------------------------------------------------
(* Who has what in hand.                                                   *)

\* A plan is made, and sent, behind the decision of its run.
Begun(p) == pc[p[1]] \notin {"off", "plan"}

BegunInv ==
  /\ \A p \in Plans : (plan[p].status # "none" \/ order[p].status # "none") => Begun(p)
  /\ \A r \in Runs : \A p \in todo[r] : Begun(p)
  /\ \A r \in Runs : cur[r] # None => Begun(cur[r])

\* The portfolio watch sells, and sends no plan but its own.
WatchInv ==
  \A r \in Watches :
    /\ pc[r] \notin {"load", "consume"}
    /\ \A p \in todo[r] : p[1] = r
    /\ cur[r] # None => cur[r][1] = r /\ plan[cur[r]].side = "sell"

\* Until two runs that may buy have met, one of them is under way at most.
OneRunner ==
  ~overlap => \A q, r \in Jobs \cup Clis : InProgress(q) /\ InProgress(r) => q = r

\* Nothing is dated ahead.
PastInv == budget.day <= day /\ \A p \in Plans : order[p].day <= day

HandInv == TypeInv /\ BegunInv /\ WatchInv /\ OneRunner /\ PastInv

LEMMA PlanIsOfARun ==
  ASSUME NEW p \in Plans
  PROVE  p[1] \in Runs /\ p[2] \in Symbols /\ p = <<p[1], p[2]>>
BY DEF Plans

LEMMA BegunMoves ==
  ASSUME TypeInv, [Next]_vars
  PROVE  \A p \in Plans : Begun(p) => Begun(p)'
<1>0. pc \in [Runs -> PCs] /\ \A p \in Plans : p[1] \in Runs
  BY PlanIsOfARun DEF TypeInv, TypeOK
<1> DEFINE Goal == \A p \in Plans : Begun(p) => Begun(p)'
<1> USE DEF storeVars, brokerVars, runVars, history, At, Goto, Begun
<1>1. ASSUME NEW r \in Runs, Snapshot(r) PROVE Goal
  BY <1>0, <1>1 DEF Snapshot
<1>2. ASSUME NEW r \in Runs, Decide(r) PROVE Goal
  BY <1>0, <1>2 DEF Decide
<1>3. ASSUME NEW r \in Runs, Trigger(r) PROVE Goal
  BY <1>0, <1>3 DEF Trigger
<1>4. ASSUME NEW r \in Runs, Load(r) PROVE Goal
  BY <1>0, <1>4 DEF Load
<1>5. ASSUME NEW r \in Runs, Take(r) PROVE Goal
  BY <1>0, <1>5 DEF Take
<1>6. ASSUME NEW r \in Runs, Blocked(r) PROVE Goal
  BY <1>0, <1>6, FailedFacts DEF Blocked, TypeInv
<1>7. ASSUME NEW r \in Runs, Consume(r) PROVE Goal
  BY <1>0, <1>7, FailedFacts DEF Consume, TypeInv
<1>8. ASSUME NEW r \in Runs, ConsumeFails(r) PROVE Goal
  BY <1>0, <1>8 DEF ConsumeFails
<1>9. ASSUME NEW r \in Runs, Submit(r) PROVE Goal
  BY <1>0, <1>9, FailedFacts DEF Submit, TypeInv
<1>10. ASSUME NEW r \in Runs, Save(r) PROVE Goal
  BY <1>0, <1>10 DEF Save
<1>11. ASSUME NEW r \in Runs, SaveFails(r) PROVE Goal
  BY <1>0, <1>11, FailedFacts DEF SaveFails, TypeInv
<1>12. ASSUME NEW r \in Runs, End(r) PROVE Goal
  BY <1>0, <1>12 DEF End
<1>13. ASSUME NEW R \in SUBSET Runs, Crash(R) PROVE Goal
  BY <1>0, <1>13 DEF Crash
<1>14. ASSUME NEW p \in Plans, Fill(p) PROVE Goal
  BY <1>0, <1>14 DEF Fill
<1>15. ASSUME NEW p \in Plans, Die(p) PROVE Goal
  BY <1>0, <1>15 DEF Die
<1>16. ASSUME NextDay PROVE Goal
  BY <1>0, <1>16 DEF NextDay
<1>17. ASSUME UNCHANGED vars PROVE Goal
  BY <1>0, <1>17 DEF vars
<1>c. Jobs \cup Watches \in SUBSET Runs /\ \A r \in Clis : {r} \in SUBSET Runs
  BY DEF Runs, Jobs
<1>i. Clis \subseteq Runs
  BY DEF Runs
<1>q. Goal
  BY <1>c, <1>i, <1>1, <1>2, <1>3, <1>4, <1>5, <1>6, <1>7, <1>8, <1>9, <1>10, <1>11, <1>12, <1>13, <1>14, <1>15, <1>16, <1>17
     DEF Next, Step
<1> QED
  BY <1>q

LEMMA BegunStep ==
  ASSUME TypeInv, BegunInv, [Next]_vars
  PROVE  BegunInv'
<1>0. /\ pc \in [Runs -> PCs] /\ \A p \in Plans : p[1] \in Runs
      /\ plan \in [Plans -> PlanRows] /\ todo \in [Runs -> SUBSET Plans]
      /\ cur \in [Runs -> Plans \cup {None}] /\ TypeOK /\ None \notin Plans
  BY PlanIsOfARun, OrderAssumption DEF TypeInv, TypeOK, PlanRows
<1>m. \A p \in Plans : Begun(p) => Begun(p)'
  BY BegunMoves
<1>a. /\ \A p \in Plans : (plan[p].status # "none" \/ order[p].status # "none") => Begun(p)
      /\ \A r \in Runs : \A p \in todo[r] : p \in Plans /\ Begun(p)
      /\ \A r \in Runs : cur[r] # None => cur[r] \in Plans /\ Begun(cur[r])
  BY <1>0 DEF BegunInv
\* It is enough that what a step adds was begun.
<1> DEFINE
      Tables == \A p \in Plans : (plan'[p].status # "none" \/ order'[p].status # "none") =>
                  plan[p].status # "none" \/ order[p].status # "none" \/ Begun(p) \/ Begun(p)'
      Hands == \A r \in Runs :
                 /\ \A p \in todo'[r] : p \in Plans /\ (Begun(p) \/ Begun(p)')
                 /\ cur'[r] # None => \E p \in Plans : cur'[r] = p /\ (Begun(p) \/ Begun(p)')
      Goal == Tables /\ Hands
<1>b. ASSUME Goal PROVE BegunInv'
  <2>1. \A p \in Plans : (plan'[p].status # "none" \/ order'[p].status # "none") => Begun(p)'
    BY <1>a, <1>b, <1>m
  <2>2. \A r \in Runs : \A p \in todo'[r] : Begun(p)'
    BY <1>b, <1>m
  <2>3. \A r \in Runs : cur'[r] # None => \E p \in Plans : cur'[r] = p /\ Begun(p)'
    BY <1>b, <1>m
  <2> QED
    BY <2>1, <2>2, <2>3 DEF BegunInv, Begun
<1> USE DEF storeVars, brokerVars, runVars, history, At, Goto
<1>1. ASSUME NEW r \in Runs, Snapshot(r) PROVE Goal
  BY <1>a, <1>1 DEF Snapshot
<1>2. ASSUME NEW r \in Runs, Decide(r) PROVE Goal
  <2>1. Hands
    BY <1>a, <1>2 DEF Decide
  <2>2. pc'[r] = "load" /\ order' = order
    BY <1>0, <1>2 DEF Decide
  <2>3. \A p \in Plans : p[1] = r => Begun(p)'
    BY <2>2 DEF Begun
  <2>4. \A p \in Plans : p[1] # r => plan'[p] \in {plan[p], Expired[p]}
    BY <1>2 DEF Decide
  <2>5. \A p \in Plans : p[1] # r /\ plan'[p].status # "none" => plan[p].status # "none"
    BY <1>0, <2>4, ExpiredFacts
  <2> QED
    BY <2>1, <2>2, <2>3, <2>5
<1>3. ASSUME NEW r \in Runs, Trigger(r) PROVE Goal
  <2>1. PICK crossed \in SUBSET {s \in view[r].held \ view[r].ordered : BuyRows(s) # {}} :
          todo' = [todo EXCEPT ![r] = {<<r, s>> : s \in crossed}]
    BY <1>3 DEF Trigger
  <2>2. todo' \in [Runs -> SUBSET Plans]
    BY TypeStep DEF TypeInv, TypeOK
  <2>3. pc'[r] = "take"
    BY <1>0, <1>3 DEF Trigger
  <2>4. \A p \in {<<r, s>> : s \in crossed} : Begun(p)'
    BY <2>3 DEF Begun
  <2>5. Hands
    BY <1>0, <1>a, <1>3, <2>1, <2>2, <2>4 DEF Trigger
  <2> QED
    BY <1>3, <2>5 DEF Trigger
<1>4. ASSUME NEW r \in Runs, Load(r) PROVE Goal
  <2>1. \A p \in Pending : p \in Plans /\ Begun(p)
    BY <1>a DEF Pending
  <2>2. Hands
    BY <1>0, <1>a, <1>4, <2>1 DEF Load
  <2>3. \A p \in Plans : plan'[p].status # "none" => plan[p].status # "none"
    BY <1>0, <1>4, ExpiredFacts DEF Load
  <2> QED
    BY <1>4, <2>2, <2>3 DEF Load
<1>5. ASSUME NEW r \in Runs, Take(r) PROVE Goal
  <2>1. PICK p \in todo[r] :
          /\ cur' = [cur EXCEPT ![r] = p] /\ todo' = [todo EXCEPT ![r] = @ \ {p}]
          /\ plan' \in IF r \in Watches
                       THEN {Saved({p}, "sell"), [plan EXCEPT ![p].side = "sell"]} ELSE {plan}
    BY <1>5 DEF Take
  <2>2. p \in Plans /\ Begun(p)
    BY <1>a, <2>1
  <2>3. Hands
    BY <1>0, <1>a, <2>1, <2>2
  <2>4. \A x \in Plans \ {p} : plan'[x] = plan[x]
    BY <1>0, <2>1, <2>2, SavedFacts, SideFacts
  <2> QED
    BY <1>5, <2>2, <2>3, <2>4 DEF Take
<1>6. ASSUME NEW r \in Runs, Blocked(r) PROVE Goal
  BY <1>0, <1>a, <1>6, FailedFacts DEF Blocked
<1>7. ASSUME NEW r \in Runs, Consume(r) PROVE Goal
  BY <1>0, <1>a, <1>7, FailedFacts DEF Consume
<1>8. ASSUME NEW r \in Runs, ConsumeFails(r) PROVE Goal
  BY <1>a, <1>8 DEF ConsumeFails
<1>9. ASSUME NEW r \in Runs, Submit(r) PROVE Goal
  <2>1. cur[r] \in Plans /\ Begun(cur[r])
    BY <1>a, <1>9 DEF Submit, TypeInv, HandsHold
  <2>2. \A x \in Plans \ {cur[r]} : order'[x] = order[x]
    BY <1>9 DEF Submit, TypeInv, TypeOK
  <2>3. Hands
    BY <1>0, <1>a, <1>9, FailedFacts DEF Submit
  <2> QED
    BY <1>9, <2>1, <2>2, <2>3 DEF Submit
<1>10. ASSUME NEW r \in Runs, Save(r) PROVE Goal
  <2>1. cur[r] \in Plans
    BY <1>a, <1>10 DEF Save, TypeInv, HandsHold
  <2>2. \A x \in Plans : plan'[x].status # "none" => plan[x].status # "none"
    BY <1>0, <1>10, <2>1, SaveFacts
  <2>3. Hands
    BY <1>0, <1>a, <1>10 DEF Save
  <2> QED
    BY <1>10, <2>2, <2>3 DEF Save
<1>11. ASSUME NEW r \in Runs, SaveFails(r) PROVE Goal
  BY <1>0, <1>a, <1>11, FailedFacts DEF SaveFails
<1>12. ASSUME NEW r \in Runs, End(r) PROVE Goal
  BY <1>a, <1>12 DEF End
<1>13. ASSUME NEW R \in SUBSET Runs, Crash(R) PROVE Goal
  BY <1>a, <1>13 DEF Crash
<1>14. ASSUME NEW p \in Plans, Fill(p) PROVE Goal
  BY <1>0, <1>a, <1>14, OrderFacts DEF Fill
<1>15. ASSUME NEW p \in Plans, Die(p) PROVE Goal
  BY <1>0, <1>a, <1>15, OrderFacts DEF Die
<1>16. ASSUME NextDay PROVE Goal
  <2>1. \A p \in Plans : order'[p].status = "none" <=> order[p].status = "none"
    BY <1>0, <1>16, NextOrders
  <2>2. UNCHANGED <<plan, todo, cur>>
    BY <1>16 DEF NextDay
  <2> QED
    BY <1>a, <2>1, <2>2
<1>17. ASSUME UNCHANGED vars PROVE Goal
  BY <1>a, <1>17 DEF vars
<1>c. Jobs \cup Watches \in SUBSET Runs /\ \A r \in Clis : {r} \in SUBSET Runs
  BY DEF Runs, Jobs
<1>i. Clis \subseteq Runs
  BY DEF Runs
<1>q. Goal
  BY <1>c, <1>i, <1>1, <1>2, <1>3, <1>4, <1>5, <1>6, <1>7, <1>8, <1>9, <1>10, <1>11, <1>12, <1>13, <1>14, <1>15, <1>16, <1>17
     DEF Next, Step
<1> QED
  BY <1>b, <1>q

LEMMA WatchStep ==
  ASSUME TypeInv, WatchInv, [Next]_vars
  PROVE  WatchInv'
<1>0. /\ pc \in [Runs -> PCs] /\ \A p \in Plans : p[1] \in Runs
      /\ todo \in [Runs -> SUBSET Plans] /\ Watches \subseteq Runs
      /\ cur \in [Runs -> Plans \cup {None}] /\ TypeOK /\ None \notin Plans
      /\ Jobs \cap Watches = {} /\ Clis \cap Watches = {}
  BY PlanIsOfARun, OrderAssumption DEF TypeInv, TypeOK, Runs
<1>w. \A w \in Watches : cur[w] # None => cur[w] \in Plans
  BY <1>0
<1> USE DEF storeVars, brokerVars, runVars, history, At, Goto
<1>1. ASSUME NEW r \in Runs, Snapshot(r) PROVE WatchInv'
  BY <1>0, <1>1 DEF Snapshot, WatchInv
<1>2. ASSUME NEW r \in Runs, Decide(r) PROVE WatchInv'
  <2>1. \A p \in Plans : p[1] # r => plan'[p] \in {plan[p], Expired[p]}
    BY <1>2 DEF Decide
  <2>2. \A p \in Plans : p[1] # r => plan'[p].side = plan[p].side
    BY <1>0, <2>1, ExpiredFacts
  <2>3. r \notin Watches /\ UNCHANGED <<todo, cur>> /\ \A w \in Watches : pc'[w] = pc[w]
    BY <1>0, <1>2 DEF Decide
  <2> QED
    BY <1>0, <1>w, <2>2, <2>3 DEF WatchInv
<1>3. ASSUME NEW r \in Runs, Trigger(r) PROVE WatchInv'
  <2>1. PICK crossed \in SUBSET {s \in view[r].held \ view[r].ordered : BuyRows(s) # {}} :
          todo' = [todo EXCEPT ![r] = {<<r, s>> : s \in crossed}]
    BY <1>3 DEF Trigger
  <2>2. \A p \in {<<r, s>> : s \in crossed} : p[1] = r
    OBVIOUS
  <2> QED
    BY <1>0, <1>3, <2>1, <2>2 DEF Trigger, WatchInv
<1>4. ASSUME NEW r \in Runs, Load(r) PROVE WatchInv'
  <2>1. r \notin Watches
    BY <1>0, <1>4 DEF Load, WatchInv
  <2>2. \A p \in Plans : plan'[p].side = plan[p].side
    BY <1>0, <1>4, ExpiredFacts DEF Load
  <2> QED
    BY <1>0, <1>w, <1>4, <2>1, <2>2 DEF Load, WatchInv
<1>5. ASSUME NEW r \in Runs, Take(r) PROVE WatchInv'
  <2>1. PICK p \in todo[r] :
          /\ cur' = [cur EXCEPT ![r] = p] /\ todo' = [todo EXCEPT ![r] = @ \ {p}]
          /\ plan' \in IF r \in Watches
                       THEN {Saved({p}, "sell"), [plan EXCEPT ![p].side = "sell"]} ELSE {plan}
          /\ IF plan'[p].side = "buy"
             THEN Goto(r, "consume") /\ read' = [read EXCEPT ![r] = budget]
             ELSE Goto(r, "submit") /\ read' = read
    BY <1>5 DEF Take
  <2>2. p \in Plans
    BY <1>0, <2>1
  <2>3. CASE r \in Watches
    <3>1. plan'[p].side = "sell" /\ \A x \in Plans \ {p} : plan'[x] = plan[x]
      BY <1>0, <2>1, <2>2, <2>3, SavedFacts, SideFacts
    <3>2. pc' = [pc EXCEPT ![r] = "submit"]
      BY <2>1, <3>1
    <3> QED
      BY <1>0, <1>w, <2>1, <2>2, <2>3, <3>1, <3>2 DEF WatchInv
  <2>4. CASE r \notin Watches
    BY <1>0, <1>w, <2>1, <2>4 DEF WatchInv
  <2> QED
    BY <2>3, <2>4
<1>6. ASSUME NEW r \in Runs, Blocked(r) PROVE WatchInv'
  BY <1>0, <1>6, FailedFacts DEF Blocked, WatchInv
<1>7. ASSUME NEW r \in Runs, Consume(r) PROVE WatchInv'
  BY <1>0, <1>7, FailedFacts DEF Consume, WatchInv
<1>8. ASSUME NEW r \in Runs, ConsumeFails(r) PROVE WatchInv'
  BY <1>0, <1>8 DEF ConsumeFails, WatchInv
<1>9. ASSUME NEW r \in Runs, Submit(r) PROVE WatchInv'
  BY <1>0, <1>9, FailedFacts DEF Submit, WatchInv
<1>10. ASSUME NEW r \in Runs, Save(r) PROVE WatchInv'
  <2>1. cur[r] \in Plans
    BY <1>0, <1>10 DEF Save, TypeInv, HandsHold
  <2>2. \A x \in Plans : plan'[x].side = plan[x].side
    BY <1>0, <1>10, <2>1, SaveFacts
  <2>3. /\ todo' = todo /\ \A q \in Runs : cur'[q] \in {cur[q], None} /\ pc'[q] \in {pc[q], "take"}
    BY <1>0, <1>10 DEF Save
  <2> QED
    BY <1>0, <1>w, <2>2, <2>3 DEF WatchInv
<1>11. ASSUME NEW r \in Runs, SaveFails(r) PROVE WatchInv'
  BY <1>0, <1>11, FailedFacts DEF SaveFails, WatchInv
<1>12. ASSUME NEW r \in Runs, End(r) PROVE WatchInv'
  BY <1>0, <1>12 DEF End, WatchInv
<1>13. ASSUME NEW R \in SUBSET Runs, Crash(R) PROVE WatchInv'
  BY <1>0, <1>13 DEF Crash, WatchInv
<1>14. ASSUME NEW p \in Plans, Fill(p) PROVE WatchInv'
  BY <1>0, <1>14 DEF Fill, WatchInv
<1>15. ASSUME NEW p \in Plans, Die(p) PROVE WatchInv'
  BY <1>0, <1>15 DEF Die, WatchInv
<1>16. ASSUME NextDay PROVE WatchInv'
  BY <1>0, <1>16 DEF NextDay, WatchInv
<1>17. ASSUME UNCHANGED vars PROVE WatchInv'
  BY <1>0, <1>17 DEF vars, WatchInv
<1>c. Jobs \cup Watches \in SUBSET Runs /\ \A r \in Clis : {r} \in SUBSET Runs
  BY DEF Runs, Jobs
<1>i. Clis \subseteq Runs
  BY DEF Runs
<1> QED
  BY <1>c, <1>i, <1>1, <1>2, <1>3, <1>4, <1>5, <1>6, <1>7, <1>8, <1>9, <1>10, <1>11, <1>12, <1>13, <1>14, <1>15, <1>16, <1>17
     DEF Next, Step

LEMMA RunnerStep ==
  ASSUME TypeInv, OneRunner, [Next]_vars
  PROVE  OneRunner'
<1>0. /\ pc \in [Runs -> PCs] /\ Jobs \cup Clis \subseteq Runs /\ overlap \in BOOLEAN
      /\ TypeOK /\ Jobs \cap Watches = {} /\ Clis \cap (Jobs \cup Watches) = {}
  BY OrderAssumption DEF TypeInv, TypeOK, Runs, Jobs
<1>a. ASSUME overlap' = overlap, \A q \in Runs : InProgress(q)' => InProgress(q)
      PROVE  OneRunner'
  BY <1>0, <1>a DEF OneRunner
<1>b. ASSUME NEW r \in Runs, \A q \in Runs \ {r} : pc'[q] = pc[q],
             overlap' = (overlap \/ \E q \in Jobs \cup Clis : InProgress(q))
      PROVE  OneRunner'
  BY <1>0, <1>b DEF OneRunner, InProgress
<1> USE DEF storeVars, brokerVars, runVars, history, At, Goto
<1>1. ASSUME NEW r \in Runs, Snapshot(r) PROVE OneRunner'
  <2>1. \A q \in Runs \ {r} : pc'[q] = pc[q]
    BY <1>0, <1>1 DEF Snapshot
  <2>2. CASE r \in Watches
    <3>1. overlap' = overlap /\ \A q \in Jobs \cup Clis : pc'[q] = pc[q]
      BY <1>0, <1>1, <2>1, <2>2 DEF Snapshot
    <3> QED
      BY <1>0, <3>1 DEF OneRunner, InProgress
  <2>3. CASE r \notin Watches
    BY <1>1, <1>b, <2>1, <2>3 DEF Snapshot
  <2> QED
    BY <2>2, <2>3
<1>2. ASSUME NEW r \in Runs, Decide(r) PROVE OneRunner'
  BY <1>0, <1>a, <1>2 DEF Decide, InProgress
<1>3. ASSUME NEW r \in Runs, Trigger(r) PROVE OneRunner'
  BY <1>0, <1>a, <1>3 DEF Trigger, InProgress
<1>4. ASSUME NEW r \in Runs, Load(r) PROVE OneRunner'
  <2>1. \A q \in Runs \ {r} : pc'[q] = pc[q]
    BY <1>0, <1>4 DEF Load
  <2>2. CASE pc[r] = "load"
    <3>1. overlap' = overlap
      BY <1>4, <2>2 DEF Load
    <3> QED
      BY <1>0, <1>a, <2>1, <2>2, <3>1 DEF InProgress
  <2>3. CASE pc[r] # "load"
    BY <1>4, <1>b, <2>1, <2>3 DEF Load
  <2> QED
    BY <2>2, <2>3
<1>5. ASSUME NEW r \in Runs, Take(r) PROVE OneRunner'
  BY <1>0, <1>a, <1>5 DEF Take, InProgress
<1>6. ASSUME NEW r \in Runs, Blocked(r) PROVE OneRunner'
  BY <1>0, <1>a, <1>6, FailedFacts DEF Blocked, InProgress
<1>7. ASSUME NEW r \in Runs, Consume(r) PROVE OneRunner'
  BY <1>0, <1>a, <1>7, FailedFacts DEF Consume, InProgress
<1>8. ASSUME NEW r \in Runs, ConsumeFails(r) PROVE OneRunner'
  BY <1>0, <1>a, <1>8 DEF ConsumeFails, InProgress
<1>9. ASSUME NEW r \in Runs, Submit(r) PROVE OneRunner'
  BY <1>0, <1>a, <1>9, FailedFacts DEF Submit, InProgress
<1>10. ASSUME NEW r \in Runs, Save(r) PROVE OneRunner'
  BY <1>0, <1>a, <1>10 DEF Save, InProgress
<1>11. ASSUME NEW r \in Runs, SaveFails(r) PROVE OneRunner'
  BY <1>0, <1>a, <1>11, FailedFacts DEF SaveFails, InProgress
<1>12. ASSUME NEW r \in Runs, End(r) PROVE OneRunner'
  BY <1>0, <1>a, <1>12 DEF End, InProgress
<1>13. ASSUME NEW R \in SUBSET Runs, Crash(R) PROVE OneRunner'
  BY <1>0, <1>a, <1>13 DEF Crash, InProgress
<1>14. ASSUME NEW p \in Plans, Fill(p) PROVE OneRunner'
  BY <1>0, <1>a, <1>14 DEF Fill, InProgress
<1>15. ASSUME NEW p \in Plans, Die(p) PROVE OneRunner'
  BY <1>0, <1>a, <1>15 DEF Die, InProgress
<1>16. ASSUME NextDay PROVE OneRunner'
  BY <1>0, <1>a, <1>16 DEF NextDay, InProgress
<1>17. ASSUME UNCHANGED vars PROVE OneRunner'
  BY <1>0, <1>a, <1>17 DEF vars, InProgress
<1>c. Jobs \cup Watches \in SUBSET Runs /\ \A r \in Clis : {r} \in SUBSET Runs
  BY DEF Runs, Jobs
<1>i. Clis \subseteq Runs
  BY DEF Runs
<1> QED
  BY <1>c, <1>i, <1>1, <1>2, <1>3, <1>4, <1>5, <1>6, <1>7, <1>8, <1>9, <1>10, <1>11, <1>12, <1>13, <1>14, <1>15, <1>16, <1>17
     DEF Next, Step

LEMMA PastStep ==
  ASSUME TypeInv, PastInv, [Next]_vars
  PROVE  PastInv'
<1>0. /\ day \in Nat /\ TypeOK /\ budget.day \in Nat
      /\ \A p \in Plans : order[p].day \in Nat
      /\ \A r \in Runs : pc[r] = "consume" => read[r] \in BudgetStates
      /\ \A r \in Runs : pc[r] = "submit" => cur[r] \in Plans
  <2>1. TypeOK /\ HandsHold
    BY DEF TypeInv
  <2>2. day \in Nat /\ budget.day \in Nat
    BY <2>1 DEF TypeOK, Days, BudgetStates
  <2>3. \A p \in Plans : order[p].day \in Nat
    <3>1. \A p \in Plans : order[p].day \in Days \cup {0}
      BY <2>1, OrderParts
    <3> QED
      BY <3>1 DEF Days
  <2>4. \A r \in Runs : pc[r] = "consume" => read[r] \in BudgetStates
    <3>1. read \in [Runs -> BudgetStates \cup {None}]
      BY <2>1 DEF TypeOK
    <3> QED
      BY <2>1, <3>1 DEF HandsHold
  <2>5. \A r \in Runs : pc[r] = "submit" => cur[r] \in Plans
    <3>1. cur \in [Runs -> Plans \cup {None}]
      BY <2>1 DEF TypeOK
    <3> QED
      BY <2>1, <3>1 DEF HandsHold
  <2> QED
    BY <2>1, <2>2, <2>3, <2>4, <2>5
<1> USE DEF storeVars, brokerVars, runVars, history, At
<1>1. ASSUME NEW r \in Runs, Snapshot(r) PROVE PastInv'
  BY <1>1 DEF Snapshot, PastInv
<1>2. ASSUME NEW r \in Runs, Decide(r) PROVE PastInv'
  BY <1>2 DEF Decide, PastInv
<1>3. ASSUME NEW r \in Runs, Trigger(r) PROVE PastInv'
  BY <1>3 DEF Trigger, PastInv
<1>4. ASSUME NEW r \in Runs, Load(r) PROVE PastInv'
  BY <1>4 DEF Load, PastInv
<1>5. ASSUME NEW r \in Runs, Take(r) PROVE PastInv'
  BY <1>5 DEF Take, PastInv
<1>6. ASSUME NEW r \in Runs, Blocked(r) PROVE PastInv'
  BY <1>6 DEF Blocked, PastInv
<1>7. ASSUME NEW r \in Runs, Consume(r) PROVE PastInv'
  <2>1. budget'.day = day
    <3>1. Today(read[r]).day = day
      BY <1>0, <1>7, TodayFacts DEF Consume
    <3>2. \/ budget' = [day |-> day, open |-> Today(read[r]).open + 1, new |-> Today(read[r]).new + 1]
          \/ budget' = Today(read[r])
      BY <1>7 DEF Consume
    <3> QED
      BY <3>1, <3>2
  <2>2. UNCHANGED <<day, order>>
    BY <1>7 DEF Consume
  <2> QED
    BY <1>0, <2>1, <2>2 DEF PastInv
<1>8. ASSUME NEW r \in Runs, ConsumeFails(r) PROVE PastInv'
  BY <1>8 DEF ConsumeFails, PastInv
<1>9. ASSUME NEW r \in Runs, Submit(r) PROVE PastInv'
  <2>1. \A x \in Plans : order'[x].day \in {order[x].day, day}
    <3>1. \E st \in {"open", "filled"} : order' = [order EXCEPT ![cur[r]] = [status |-> st, day |-> day]]
      BY <1>9 DEF Submit
    <3> QED
      BY <1>0, <1>9, <3>1 DEF Submit, TypeOK
  <2>2. UNCHANGED <<day, budget>>
    BY <1>9 DEF Submit
  <2> QED
    BY <1>0, <2>1, <2>2 DEF PastInv
<1>10. ASSUME NEW r \in Runs, Save(r) PROVE PastInv'
  BY <1>10 DEF Save, PastInv
<1>11. ASSUME NEW r \in Runs, SaveFails(r) PROVE PastInv'
  BY <1>11 DEF SaveFails, PastInv
<1>12. ASSUME NEW r \in Runs, End(r) PROVE PastInv'
  BY <1>12 DEF End, PastInv
<1>13. ASSUME NEW R \in SUBSET Runs, Crash(R) PROVE PastInv'
  BY <1>13 DEF Crash, PastInv
<1>14. ASSUME NEW p \in Plans, Fill(p) PROVE PastInv'
  <2>1. \A x \in Plans : order'[x].day = order[x].day
    BY <1>0, <1>14, OrderFacts DEF Fill
  <2> QED
    BY <1>14, <2>1 DEF Fill, PastInv
<1>15. ASSUME NEW p \in Plans, Die(p) PROVE PastInv'
  <2>1. \A x \in Plans : order'[x].day = order[x].day
    BY <1>0, <1>15, OrderFacts DEF Die
  <2> QED
    BY <1>15, <2>1 DEF Die, PastInv
<1>16. ASSUME NextDay PROVE PastInv'
  <2>1. \A x \in Plans : order'[x].day = order[x].day
    BY <1>0, <1>16, NextOrders
  <2> QED
    BY <1>0, <1>16, <2>1 DEF NextDay, PastInv
<1>17. ASSUME UNCHANGED vars PROVE PastInv'
  BY <1>17 DEF vars, PastInv
<1>c. Jobs \cup Watches \in SUBSET Runs /\ \A r \in Clis : {r} \in SUBSET Runs
  BY DEF Runs, Jobs
<1>i. Clis \subseteq Runs
  BY DEF Runs
<1> QED
  BY <1>c, <1>i, <1>1, <1>2, <1>3, <1>4, <1>5, <1>6, <1>7, <1>8, <1>9, <1>10, <1>11, <1>12, <1>13, <1>14, <1>15, <1>16, <1>17
     DEF Next, Step

LEMMA HandInvHolds == Spec => []HandInv
<1>1. Init => HandInv
  <2> SUFFICES ASSUME Init PROVE HandInv
    OBVIOUS
  <2>1. BegunInv /\ WatchInv /\ OneRunner
    BY DEF Init, BegunInv, WatchInv, OneRunner, InProgress, Runs, Jobs
  <2>2. PastInv
    BY DEF Init, PastInv
  <2> QED
    BY <2>1, <2>2, TypeInit DEF HandInv
<1>2. HandInv /\ [Next]_vars => HandInv'
  BY TypeStep, BegunStep, WatchStep, RunnerStep, PastStep DEF HandInv
<1> QED
  BY <1>1, <1>2, PTL DEF Spec

-----------------------------------------------------------------------------
(* The budget of a day.                                                    *)

InFlight == {p \in Plans : \E r \in Runs : pc[r] = "submit" /\ cur[r] = p}

\* The buys whose risk the budget of the day has to cover: those the broker
\* has got today, and those that are allowed to go out.
Risked == {p \in Plans : IsBuy(p) /\ (p \in InFlight \/ (order[p].status # "none" /\ order[p].day = day))}

\* While nobody met and the budget did not fail, what is read is what is
\* there, and the budget of the day counts every risk of the day.
Counted ==
  ~overlap /\ ~unchecked =>
    /\ \A r \in Jobs \cup Clis : pc[r] = "consume" => read[r] = budget
    /\ budget.new <= Budget
    /\ IsFiniteSet(Risked)
    /\ budget.day = day => Cardinality(Risked) <= budget.new
    /\ budget.day # day => Risked = {}

BudgetInv == HandInv /\ Counted

\* A step that takes on no risk and leaves the budget alone.
LEMMA CountKept ==
  ASSUME BudgetInv, UNCHANGED <<day, budget>>,
         ~overlap' /\ ~unchecked' =>
           /\ ~overlap /\ ~unchecked
           /\ Risked' \subseteq Risked
           /\ \A r \in Jobs \cup Clis : pc'[r] = "consume" => read'[r] = budget
  PROVE  Counted'
<1> SUFFICES ASSUME ~overlap', ~unchecked'
             PROVE  /\ \A r \in Jobs \cup Clis : pc'[r] = "consume" => read'[r] = budget'
                    /\ budget'.new <= Budget
                    /\ IsFiniteSet(Risked')
                    /\ budget'.day = day' => Cardinality(Risked') <= budget'.new
                    /\ budget'.day # day' => Risked' = {}
  BY DEF Counted
<1>1. /\ budget.new <= Budget /\ IsFiniteSet(Risked)
      /\ budget.day = day => Cardinality(Risked) <= budget.new
      /\ budget.day # day => Risked = {}
      /\ Risked' \subseteq Risked
  BY DEF BudgetInv, Counted
<1>2. IsFiniteSet(Risked') /\ Cardinality(Risked') <= Cardinality(Risked)
  BY <1>1, FS_Subset
<1>3. Cardinality(Risked) \in Nat /\ Cardinality(Risked') \in Nat /\ budget.new \in Nat
  BY <1>1, <1>2, FS_CardinalityType DEF BudgetInv, HandInv, TypeInv, TypeOK, BudgetStates
<1> QED
  BY <1>1, <1>2, <1>3

\* One runner: nobody else has a buy in flight, or reads the budget.
LEMMA AloneWithTheBudget ==
  ASSUME HandInv, ~overlap, NEW r \in Runs, pc[r] = "consume"
  PROVE  /\ r \in Jobs \cup Clis
         /\ \A q \in Jobs \cup Clis : pc[q] = "consume" => q = r
         /\ \A p \in InFlight : ~IsBuy(p)
<1>1. r \in Jobs \cup Clis
  BY DEF HandInv, WatchInv, Runs, Jobs
<1>2. \A q \in Jobs \cup Clis : InProgress(q) => q = r
  BY <1>1 DEF HandInv, OneRunner, InProgress
<1>3. ASSUME NEW p \in InFlight PROVE ~IsBuy(p)
  <2>1. PICK q \in Runs : pc[q] = "submit" /\ cur[q] = p
    BY <1>3 DEF InFlight
  <2>2. q \in Watches
    BY <1>2, <2>1 DEF InProgress, Runs, Jobs
  <2>3. p # None
    BY <1>3, OrderAssumption DEF InFlight
  <2> QED
    BY <2>1, <2>2, <2>3 DEF HandInv, WatchInv, IsBuy
<1> QED
  BY <1>1, <1>2, <1>3 DEF InProgress

\* check_order: the risk is counted before the order goes out.
LEMMA ConsumeCounts ==
  ASSUME BudgetInv, NEW r \in Runs, Consume(r)
  PROVE  Counted'
<1> SUFFICES ASSUME ~overlap', ~unchecked'
             PROVE  /\ \A q \in Jobs \cup Clis : pc'[q] = "consume" => read'[q] = budget'
                    /\ budget'.new <= Budget
                    /\ IsFiniteSet(Risked')
                    /\ budget'.day = day' => Cardinality(Risked') <= budget'.new
                    /\ budget'.day # day' => Risked' = {}
  BY DEF Counted
<1>0. /\ pc \in [Runs -> PCs] /\ budget \in BudgetStates /\ TypeOK /\ HandInv
      /\ pc[r] = "consume" /\ cur[r] \in Plans
  BY OrderAssumption DEF BudgetInv, HandInv, TypeInv, TypeOK, HandsHold, Consume, At
<1>1. ~overlap /\ ~unchecked /\ UNCHANGED <<day, plan, order>>
  BY DEF Consume, history, storeVars, brokerVars
<1>2. /\ r \in Jobs \cup Clis
      /\ \A q \in Jobs \cup Clis : pc[q] = "consume" => q = r
      /\ \A p \in InFlight : ~IsBuy(p)
  BY <1>0, <1>1, AloneWithTheBudget
<1>3. /\ read[r] = budget /\ budget.new <= Budget /\ IsFiniteSet(Risked)
      /\ budget.day = day => Cardinality(Risked) <= budget.new
      /\ budget.day # day => Risked = {}
  BY <1>0, <1>1, <1>2 DEF BudgetInv, Counted
<1> DEFINE b == Today(budget)
<1>4. b \in BudgetStates /\ b.day = day /\ b.new = IF budget.day = day THEN budget.new ELSE 0
  BY <1>0, TodayFacts
<1>5. /\ b.new \in Nat /\ Budget \in Nat /\ b.new <= Budget
      /\ Cardinality(Risked) \in Nat /\ Cardinality(Risked) <= b.new
  BY <1>3, <1>4, FS_CardinalityType, FS_EmptySet, OrderAssumption DEF BudgetStates
<1> HIDE DEF b
<1>6. \A q \in Runs \ {r} : pc'[q] = pc[q] /\ cur'[q] = cur[q]
  BY <1>0, FailedFacts DEF Consume, Goto
<1>7. CASE CanConsume(Today(read[r]))
  <2>1. /\ budget' = [day |-> day, open |-> b.open + 1, new |-> b.new + 1]
        /\ pc' = [pc EXCEPT ![r] = "submit"] /\ cur' = cur
    BY <1>3, <1>7 DEF Consume, Goto, b
  <2>2. b.new + 1 <= Budget
    BY <1>3, <1>7 DEF CanConsume, b
  <2>3. Risked' \subseteq Risked \cup {cur[r]}
    <3>1. InFlight' \subseteq InFlight \cup {cur[r]}
      BY <1>0, <2>1 DEF InFlight
    <3> QED
      BY <1>1, <3>1 DEF Risked, IsBuy
  <2>4. /\ IsFiniteSet(Risked \cup {cur[r]})
        /\ Cardinality(Risked \cup {cur[r]}) <= Cardinality(Risked) + 1
    <3>1. /\ IsFiniteSet(Risked \cup {cur[r]})
          /\ Cardinality(Risked \cup {cur[r]}) =
               IF cur[r] \in Risked THEN Cardinality(Risked) ELSE Cardinality(Risked) + 1
      BY <1>3, FS_AddElement, Zenon
    <3> QED
      BY <1>5, <3>1
  <2>5. IsFiniteSet(Risked') /\ Cardinality(Risked') <= Cardinality(Risked \cup {cur[r]})
    BY <2>3, <2>4, FS_Subset
  <2>6. Cardinality(Risked') \in Nat /\ Cardinality(Risked \cup {cur[r]}) \in Nat
    BY <2>4, <2>5, FS_CardinalityType
  <2>7. Cardinality(Risked') <= b.new + 1
    BY <1>5, <2>4, <2>5, <2>6
  <2>8. budget'.day = day' /\ budget'.new = b.new + 1
    BY <1>1, <2>1
  <2>9. \A q \in Jobs \cup Clis : pc'[q] # "consume"
    BY <1>0, <1>2, <2>1 DEF Runs, Jobs
  <2> QED
    BY <2>2, <2>5, <2>7, <2>8, <2>9
<1>8. CASE ~CanConsume(Today(read[r]))
  <2>1. budget' = b /\ Failed(r)
    BY <1>3, <1>8 DEF Consume, b
  <2>2. pc'[r] = "take"
    BY <1>0, <2>1, FailedFacts
  <2>3. Risked' \subseteq Risked
    <3>1. InFlight' \subseteq InFlight
      BY <1>6, <2>2 DEF InFlight
    <3> QED
      BY <1>1, <3>1 DEF Risked, IsBuy
  <2>4. IsFiniteSet(Risked') /\ Cardinality(Risked') <= Cardinality(Risked)
    BY <1>3, <2>3, FS_Subset
  <2>5. Cardinality(Risked') \in Nat
    BY <2>4, FS_CardinalityType
  <2>6. Cardinality(Risked') <= b.new
    BY <1>5, <2>4, <2>5
  <2>7. \A q \in Jobs \cup Clis : pc'[q] # "consume"
    BY <1>2, <1>6, <2>2 DEF Runs, Jobs
  <2> QED
    BY <1>1, <1>4, <1>5, <2>1, <2>4, <2>6, <2>7
<1> QED
  BY <1>7, <1>8

\* The budget of a new day is dated by its first buy: until then there is no
\* risk of that day, since nothing is being sent when the day changes.
LEMMA NextDayCounts ==
  ASSUME BudgetInv, NextDay
  PROVE  Counted'
<1>0. /\ day \in Nat /\ TypeOK /\ budget.day \in Nat /\ budget.day <= day
      /\ \A p \in Plans : order[p].day \in Nat /\ order[p].day <= day
  BY OrderParts DEF BudgetInv, HandInv, PastInv, TypeInv, TypeOK, Days, BudgetStates
<1>1. UNCHANGED <<plan, budget, pc, cur, read, overlap, unchecked>> /\ day' = day + 1
  BY DEF NextDay, storeVars, runVars, history
<1>2. \A r \in Runs : pc[r] \notin {"consume", "submit"}
  BY DEF NextDay, BudgetInv, HandInv, TypeInv, HandsHold
<1>3. \A p \in Plans : order'[p].day = order[p].day
  BY <1>0, NextOrders
<1>4. Risked' = {}
  BY <1>0, <1>1, <1>2, <1>3 DEF Risked, InFlight
<1>5. budget'.day # day'
  BY <1>0, <1>1
<1>6. \A r \in Jobs \cup Clis : pc'[r] # "consume"
  BY <1>1, <1>2 DEF Runs, Jobs
<1> QED
  BY <1>1, <1>4, <1>5, <1>6, FS_EmptySet DEF BudgetInv, Counted

LEMMA CountedStep ==
  ASSUME BudgetInv, [Next]_vars
  PROVE  Counted'
<1>0. /\ pc \in [Runs -> PCs] /\ TypeOK /\ Jobs \cup Clis \subseteq Runs
      /\ overlap \in BOOLEAN /\ unchecked \in BOOLEAN
      /\ todo \in [Runs -> SUBSET Plans] /\ cur \in [Runs -> Plans \cup {None}]
      /\ read \in [Runs -> BudgetStates \cup {None}] /\ None \notin Plans
      /\ BegunInv /\ HandsHold
  BY OrderAssumption DEF BudgetInv, HandInv, TypeInv, TypeOK, Runs, Jobs
<1>r. ~overlap /\ ~unchecked => \A r \in Jobs \cup Clis : pc[r] = "consume" => read[r] = budget
  BY DEF BudgetInv, Counted
<1>s. \A p \in Plans : IsBuy(p)' <=> plan'[p].side = "buy"
  BY DEF IsBuy
\* Nobody else moves, and the one that does ends up elsewhere.
<1>a. ASSUME NEW r \in Runs, \A q \in Runs \ {r} : pc'[q] = pc[q] /\ cur'[q] = cur[q] /\ read'[q] = read[q],
             pc'[r] \notin {"consume", "submit"},
             \A p \in Plans : plan'[p].side = plan[p].side,
             UNCHANGED <<day, budget, order, overlap, unchecked>>
      PROVE  Counted'
  <2>1. InFlight' \subseteq InFlight
    BY <1>a DEF InFlight
  <2>2. Risked' \subseteq Risked
    BY <1>a, <2>1 DEF Risked, IsBuy
  <2>3. ~overlap /\ ~unchecked => \A q \in Jobs \cup Clis : pc'[q] = "consume" => read'[q] = budget
    BY <1>0, <1>r, <1>a
  <2> QED
    BY <1>a, <2>2, <2>3, CountKept
<1> USE DEF storeVars, brokerVars, runVars, history, At, Goto
<1>1. ASSUME NEW r \in Runs, Snapshot(r) PROVE Counted'
  <2>1. pc' = [pc EXCEPT ![r] = "plan"] /\ UNCHANGED <<day, plan, budget, order, cur, read, unchecked>>
    BY <1>1 DEF Snapshot
  <2>2. ~overlap' => ~overlap
    BY <1>1 DEF Snapshot
  <2>3. Risked' \subseteq Risked
    <3>1. InFlight' \subseteq InFlight
      BY <1>0, <2>1 DEF InFlight
    <3> QED
      BY <2>1, <3>1 DEF Risked, IsBuy
  <2>4. \A q \in Jobs \cup Clis : pc'[q] = "consume" => pc[q] = "consume"
    BY <1>0, <2>1
  <2> QED
    BY <1>r, <2>1, <2>2, <2>3, <2>4, CountKept
<1>2. ASSUME NEW r \in Runs, Decide(r) PROVE Counted'
  <2>1. /\ pc' = [pc EXCEPT ![r] = "load"] /\ pc[r] = "plan"
        /\ UNCHANGED <<day, budget, order, cur, read, overlap, unchecked>>
    BY <1>2 DEF Decide
  <2>2. \A p \in Plans : p[1] = r => p \notin InFlight /\ order[p].status = "none"
    BY <1>0, <2>1 DEF BegunInv, Begun, InFlight
  <2>3. \A p \in Plans : p[1] # r => plan'[p] \in {plan[p], Expired[p]}
    BY <1>2 DEF Decide
  <2>4. \A p \in Plans : p[1] # r => plan'[p].side = plan[p].side
    BY <1>0, <2>3, ExpiredFacts
  <2>5. InFlight' \subseteq InFlight
    BY <1>0, <2>1 DEF InFlight
  <2>6. Risked' \subseteq Risked
    <3>1. \A p \in Plans : IsBuy(p)' => (IsBuy(p) \/ (p \notin InFlight /\ order[p].status = "none"))
      BY <2>2, <2>4 DEF IsBuy
    <3> QED
      BY <2>1, <2>5, <3>1 DEF Risked
  <2>7. \A q \in Jobs \cup Clis : pc'[q] = "consume" => pc[q] = "consume"
    BY <1>0, <2>1
  <2> QED
    BY <1>r, <2>1, <2>6, <2>7, CountKept
<1>3. ASSUME NEW r \in Runs, Trigger(r) PROVE Counted'
  BY <1>0, <1>a, <1>3 DEF Trigger
<1>4. ASSUME NEW r \in Runs, Load(r) PROVE Counted'
  <2>1. /\ pc' = [pc EXCEPT ![r] = "take"]
        /\ UNCHANGED <<day, budget, order, cur, read, unchecked>>
    BY <1>4 DEF Load
  <2>2. \A p \in Plans : plan'[p].side = plan[p].side
    BY <1>0, <1>4, ExpiredFacts DEF Load
  <2>3. InFlight' \subseteq InFlight
    BY <1>0, <2>1 DEF InFlight
  <2>4. Risked' \subseteq Risked
    BY <2>1, <2>2, <2>3 DEF Risked, IsBuy
  <2>5. \A q \in Jobs \cup Clis : pc'[q] = "consume" => pc[q] = "consume"
    BY <1>0, <2>1
  <2>6. ~overlap' => ~overlap
    <3>1. CASE overlap' = overlap
      BY <3>1
    <3>2. CASE overlap' = (overlap \/ \E q \in Jobs \cup Clis : InProgress(q))
      BY <3>2
    <3> QED
      BY <1>4, <3>1, <3>2 DEF Load
  <2> QED
    BY <1>r, <2>1, <2>4, <2>5, <2>6, CountKept
<1>5. ASSUME NEW r \in Runs, Take(r) PROVE Counted'
  <2>1. PICK p \in todo[r] :
          /\ cur' = [cur EXCEPT ![r] = p]
          /\ plan' \in IF r \in Watches
                       THEN {Saved({p}, "sell"), [plan EXCEPT ![p].side = "sell"]} ELSE {plan}
          /\ IF plan'[p].side = "buy"
             THEN Goto(r, "consume") /\ read' = [read EXCEPT ![r] = budget]
             ELSE Goto(r, "submit") /\ read' = read
    BY <1>5 DEF Take
  <2>2. p \in Plans /\ UNCHANGED <<day, budget, order, overlap, unchecked>>
    BY <1>0, <1>5, <2>1 DEF Take
  <2>3. \A x \in Plans : plan'[x].side = "buy" => plan[x].side = "buy"
    BY <1>0, <2>1, <2>2, SavedFacts, SideFacts
  <2>4. \A x \in Plans : plan'[x].side = "buy" /\ x \in InFlight' => x \in InFlight
    BY <1>0, <2>1 DEF InFlight
  <2>5. Risked' \subseteq Risked
    BY <2>2, <2>3, <2>4 DEF Risked, IsBuy
  <2>6. ~overlap /\ ~unchecked => \A q \in Jobs \cup Clis : pc'[q] = "consume" => read'[q] = budget
    BY <1>0, <1>r, <2>1
  <2> QED
    BY <2>2, <2>5, <2>6, CountKept
<1>6. ASSUME NEW r \in Runs, Blocked(r) PROVE Counted'
  BY <1>0, <1>a, <1>6, FailedFacts DEF Blocked
<1>7. ASSUME NEW r \in Runs, Consume(r) PROVE Counted'
  BY <1>7, ConsumeCounts
<1>8. ASSUME NEW r \in Runs, ConsumeFails(r) PROVE Counted'
  BY <1>8 DEF ConsumeFails, Counted
<1>9. ASSUME NEW r \in Runs, Submit(r) PROVE Counted'
  <2>1. cur[r] \in Plans /\ pc[r] = "submit" /\ UNCHANGED <<day, plan, budget, overlap, unchecked>>
    BY <1>0, <1>9 DEF Submit, HandsHold
  <2>2. \A x \in Plans \ {cur[r]} : order'[x] = order[x]
    <3>1. \E st \in {"open", "filled"} : order' = [order EXCEPT ![cur[r]] = [status |-> st, day |-> day]]
      BY <1>9 DEF Submit
    <3> QED
      BY <1>0, <3>1 DEF TypeOK
  <2>3. cur[r] \in InFlight
    BY <2>1 DEF InFlight
  <2>4. \A q \in Runs \ {r} : pc'[q] = pc[q] /\ cur'[q] = cur[q] /\ read'[q] = read[q]
    BY <1>0, <1>9, FailedFacts DEF Submit
  <2>5. pc'[r] \in {"save", "take"}
    BY <1>0, <1>9, FailedFacts DEF Submit
  <2>6. InFlight' \subseteq InFlight
    BY <2>4, <2>5 DEF InFlight
  <2>7. Risked' \subseteq Risked
    BY <2>1, <2>2, <2>3, <2>6 DEF Risked, IsBuy
  <2>8. ~overlap /\ ~unchecked => \A q \in Jobs \cup Clis : pc'[q] = "consume" => read'[q] = budget
    BY <1>0, <1>r, <2>4, <2>5
  <2> QED
    BY <2>1, <2>7, <2>8, CountKept
<1>10. ASSUME NEW r \in Runs, Save(r) PROVE Counted'
  <2>1. \A x \in Plans : plan'[x].side = plan[x].side
    BY <1>0, <1>10, SaveFacts DEF Save, HandsHold
  <2> QED
    BY <1>0, <1>a, <1>10, <2>1 DEF Save
<1>11. ASSUME NEW r \in Runs, SaveFails(r) PROVE Counted'
  BY <1>0, <1>a, <1>11, FailedFacts DEF SaveFails
<1>12. ASSUME NEW r \in Runs, End(r) PROVE Counted'
  BY <1>0, <1>a, <1>12 DEF End
<1>13. ASSUME NEW R \in SUBSET Runs, Crash(R) PROVE Counted'
  <2>1. /\ \A q \in Runs : pc'[q] \in {pc[q], "done"}
        /\ \A q \in Runs : pc'[q] \in {"consume", "submit"} => cur'[q] = cur[q] /\ read'[q] = read[q]
        /\ UNCHANGED <<day, plan, budget, order, overlap, unchecked>>
    BY <1>13 DEF Crash, InProgress
  <2>2. InFlight' \subseteq InFlight
    BY <2>1 DEF InFlight
  <2>3. Risked' \subseteq Risked
    BY <2>1, <2>2 DEF Risked, IsBuy
  <2>4. ~overlap /\ ~unchecked => \A q \in Jobs \cup Clis : pc'[q] = "consume" => read'[q] = budget
    BY <1>0, <1>r, <2>1
  <2> QED
    BY <2>1, <2>3, <2>4, CountKept
<1>14. ASSUME NEW p \in Plans, Fill(p) PROVE Counted'
  <2>1. /\ order'[p].day = order[p].day /\ order[p].status # "none"
        /\ \A x \in Plans \ {p} : order'[x] = order[x]
        /\ UNCHANGED <<day, plan, budget, pc, cur, read, overlap, unchecked>>
    BY <1>0, <1>14, OrderFacts DEF Fill
  <2>2. Risked' \subseteq Risked
    BY <2>1 DEF Risked, IsBuy, InFlight
  <2> QED
    BY <1>r, <2>1, <2>2, CountKept
<1>15. ASSUME NEW p \in Plans, Die(p) PROVE Counted'
  <2>1. /\ order'[p].day = order[p].day /\ order[p].status # "none"
        /\ \A x \in Plans \ {p} : order'[x] = order[x]
        /\ UNCHANGED <<day, plan, budget, pc, cur, read, overlap, unchecked>>
    BY <1>0, <1>15, OrderFacts DEF Die
  <2>2. Risked' \subseteq Risked
    BY <2>1 DEF Risked, IsBuy, InFlight
  <2> QED
    BY <1>r, <2>1, <2>2, CountKept
<1>16. ASSUME NextDay PROVE Counted'
  BY <1>16, NextDayCounts
<1>17. ASSUME UNCHANGED vars PROVE Counted'
  <2>1. Risked' = Risked
    BY <1>17 DEF vars, Risked, IsBuy, InFlight
  <2> QED
    BY <1>r, <1>17, <2>1, CountKept DEF vars
<1>c. Jobs \cup Watches \in SUBSET Runs /\ \A r \in Clis : {r} \in SUBSET Runs
  BY DEF Runs, Jobs
<1>i. Clis \subseteq Runs
  BY DEF Runs
<1> QED
  BY <1>c, <1>i, <1>1, <1>2, <1>3, <1>4, <1>5, <1>6, <1>7, <1>8, <1>9, <1>10, <1>11, <1>12, <1>13, <1>14, <1>15, <1>16, <1>17
     DEF Next, Step

\* More new risk than the budget of a day goes out only after an error of the
\* budget itself, or through two runs that may buy at the same time: for any
\* number of runs that crash, lose answers, fail to write their rows or are
\* started by hand, one after the other.
THEOREM BudgetHoldsAlways == Spec => []BudgetHolds
<1>1. Init => Counted
  <2> SUFFICES ASSUME Init PROVE Counted
    OBVIOUS
  <2>1. Risked = {}
    BY DEF Init, Risked, InFlight
  <2>2. Cardinality(Risked) = 0 /\ IsFiniteSet(Risked)
    BY <2>1, FS_EmptySet
  <2>3. budget.new = 0 /\ budget.new <= Budget
    BY OrderAssumption DEF Init
  <2>4. \A r \in Jobs \cup Clis : pc[r] # "consume"
    BY DEF Init, Runs, Jobs
  <2> QED
    BY <2>1, <2>2, <2>3, <2>4 DEF Counted
<1>2. BudgetInv /\ [Next]_vars => Counted'
  BY CountedStep
<1>3. BudgetInv => BudgetHolds
  <2> SUFFICES ASSUME BudgetInv, ~overlap, ~unchecked PROVE Cardinality(BoughtToday) <= Budget
    BY DEF BudgetHolds
  <2>1. /\ budget.new <= Budget /\ IsFiniteSet(Risked)
        /\ budget.day = day => Cardinality(Risked) <= budget.new
        /\ budget.day # day => Risked = {}
    BY DEF BudgetInv, Counted
  <2>2. BoughtToday \subseteq Risked
    BY DEF BoughtToday, Risked
  <2>3. IsFiniteSet(BoughtToday) /\ Cardinality(BoughtToday) <= Cardinality(Risked)
    BY <2>1, <2>2, FS_Subset
  <2>4. /\ Cardinality(Risked) \in Nat /\ Cardinality(BoughtToday) \in Nat
        /\ budget.new \in Nat /\ Budget \in Nat
    BY <2>1, <2>3, FS_CardinalityType, OrderAssumption DEF BudgetInv, HandInv, TypeInv, TypeOK, BudgetStates
  <2>5. Cardinality(Risked) <= Budget
    BY <2>1, <2>4, FS_EmptySet
  <2> QED
    BY <2>3, <2>4, <2>5
<1>4. Spec => []BudgetInv
  <2>1. Init /\ HandInv => BudgetInv
    BY <1>1 DEF BudgetInv
  <2>2. BudgetInv /\ [Next]_vars /\ HandInv' => BudgetInv'
    BY <1>2 DEF BudgetInv
  <2> QED
    BY <2>1, <2>2, HandInvHolds, PTL DEF Spec
<1> QED
  BY <1>3, <1>4, PTL

-----------------------------------------------------------------------------
(* One buy per symbol.                                                     *)

Past == {"load", "take", "consume", "submit", "save"}

\* A job sends plans it has made itself, and what is in a position was
\* ordered.
OwnInv ==
  /\ \A r \in Jobs :
       /\ \A p \in todo[r] : p[1] = r /\ plan[p].status # "none"
       /\ cur[r] # None => cur[r][1] = r /\ plan[cur[r]].status # "none"
  /\ \A s \in Symbols : \A p \in position[s] : order[p].status # "none"

\* While nobody met or sent plans by hand: a symbol is bought once, a run that
\* decides sees every symbol that is bought, and one that sends has free
\* symbols before it.
BuyInv ==
  ~overlap /\ ~ByHand =>
    /\ \A s \in Symbols : \A p, q \in Live(s) : p = q
    /\ \A r \in Jobs : pc[r] = "plan" => \A s \in Symbols \ Busy(r) : Live(s) = {}
    /\ \A p \in Plans :
         p[1] \in Jobs /\ pc[p[1]] \in Past /\ IsBuy(p)
           /\ plan[p].status # "none" /\ order[p].status = "none" => Live(p[2]) = {}

OneBuyInv == HandInv /\ OwnInv /\ BuyInv

\* A plan that was made stays made, and an order that was sent stays sent.
LEMMA MadeStays ==
  ASSUME TypeInv, [Next]_vars
  PROVE  \A p \in Plans : /\ plan[p].status # "none" => plan'[p].status # "none"
                          /\ order[p].status # "none" => order'[p].status # "none"
<1>0. /\ pc \in [Runs -> PCs] /\ TypeOK /\ HandsHold /\ plan \in [Plans -> PlanRows]
      /\ cur \in [Runs -> Plans \cup {None}] /\ todo \in [Runs -> SUBSET Plans] /\ None \notin Plans
  BY OrderAssumption DEF TypeInv, TypeOK, PlanRows
<1> DEFINE Goal == \A p \in Plans : /\ plan[p].status # "none" => plan'[p].status # "none"
                                    /\ order[p].status # "none" => order'[p].status # "none"
<1> USE DEF storeVars, brokerVars, runVars, history, At
<1>1. ASSUME NEW r \in Runs, Snapshot(r) PROVE Goal
  BY <1>1 DEF Snapshot
<1>2. ASSUME NEW r \in Runs, Decide(r) PROVE Goal
  <2>1. \A p \in Plans : \/ plan'[p].status = "PENDING"
                          \/ plan'[p] \in {plan[p], Expired[p]}
    BY <1>2 DEF Decide
  <2> QED
    BY <1>0, <1>2, <2>1, ExpiredFacts DEF Decide
<1>3. ASSUME NEW r \in Runs, Trigger(r) PROVE Goal
  BY <1>3 DEF Trigger
<1>4. ASSUME NEW r \in Runs, Load(r) PROVE Goal
  BY <1>0, <1>4, ExpiredFacts DEF Load
<1>5. ASSUME NEW r \in Runs, Take(r) PROVE Goal
  <2>1. PICK p \in todo[r] :
          plan' \in IF r \in Watches
                    THEN {Saved({p}, "sell"), [plan EXCEPT ![p].side = "sell"]} ELSE {plan}
    BY <1>5 DEF Take
  <2>2. p \in Plans
    BY <1>0, <2>1
  <2>3. CASE plan' = Saved({p}, "sell")
    <3>1. plan'[p].status = "PENDING"
      BY <2>2, <2>3 DEF Saved
    <3> QED
      BY <1>0, <1>5, <2>3, <3>1, SavedFacts DEF Take
  <2>4. CASE plan' = [plan EXCEPT ![p].side = "sell"]
    BY <1>0, <1>5, <2>2, <2>4, SideFacts DEF Take
  <2>5. CASE plan' = plan
    BY <1>5, <2>5 DEF Take
  <2> QED
    BY <2>1, <2>3, <2>4, <2>5
<1>6. ASSUME NEW r \in Runs, Blocked(r) PROVE Goal
  BY <1>6 DEF Blocked
<1>7. ASSUME NEW r \in Runs, Consume(r) PROVE Goal
  BY <1>7 DEF Consume
<1>8. ASSUME NEW r \in Runs, ConsumeFails(r) PROVE Goal
  BY <1>8 DEF ConsumeFails
<1>9. ASSUME NEW r \in Runs, Submit(r) PROVE Goal
  <2>1. cur[r] \in Plans
    BY <1>0, <1>9 DEF Submit, HandsHold
  <2>2. \E st \in {"open", "filled"} : order' = [order EXCEPT ![cur[r]] = [status |-> st, day |-> day]]
    BY <1>9 DEF Submit
  <2>3. \A x \in Plans : order[x].status # "none" => order'[x].status # "none"
    BY <1>0, <2>1, <2>2 DEF TypeOK
  <2> QED
    BY <1>9, <2>3 DEF Submit
<1>10. ASSUME NEW r \in Runs, Save(r) PROVE Goal
  <2>1. cur[r] \in Plans
    BY <1>0, <1>10 DEF Save, HandsHold
  <2> DEFINE st == IF plan[cur[r]].status = "none" THEN "none" ELSE "SUBMITTED"
  <2>2. plan' = [plan EXCEPT ![cur[r]].status = st]
    BY <1>10, Zenon DEF Save
  <2>3. st \in {"none", "SUBMITTED"} /\ (plan[cur[r]].status # "none" => st = "SUBMITTED")
    OBVIOUS
  <2> HIDE DEF st
  <2>4. [plan[cur[r]] EXCEPT !.status = st] = [side |-> plan[cur[r]].side, day |-> plan[cur[r]].day, status |-> st]
    BY <1>0, <2>1, RowUpdates
  <2>5. plan' = [plan EXCEPT ![cur[r]] = [plan[cur[r]] EXCEPT !.status = st]]
    BY <2>2, Zenon
  <2>6. plan'[cur[r]].status = st /\ \A x \in Plans \ {cur[r]} : plan'[x] = plan[x]
    BY <1>0, <2>1, <2>4, <2>5
  <2> QED
    BY <1>10, <2>3, <2>6 DEF Save
<1>11. ASSUME NEW r \in Runs, SaveFails(r) PROVE Goal
  BY <1>11 DEF SaveFails
<1>12. ASSUME NEW r \in Runs, End(r) PROVE Goal
  BY <1>12 DEF End
<1>13. ASSUME NEW R \in SUBSET Runs, Crash(R) PROVE Goal
  BY <1>13 DEF Crash
<1>14. ASSUME NEW p \in Plans, Fill(p) PROVE Goal
  BY <1>0, <1>14, OrderFacts DEF Fill
<1>15. ASSUME NEW p \in Plans, Die(p) PROVE Goal
  BY <1>0, <1>15, OrderFacts DEF Die
<1>16. ASSUME NextDay PROVE Goal
  BY <1>0, <1>16, NextOrders DEF NextDay
<1>17. ASSUME UNCHANGED vars PROVE Goal
  BY <1>17 DEF vars
<1>c. Jobs \cup Watches \in SUBSET Runs /\ \A r \in Clis : {r} \in SUBSET Runs
  BY DEF Runs, Jobs
<1>i. Clis \subseteq Runs
  BY DEF Runs
<1>q. Goal
  BY <1>c, <1>i, <1>1, <1>2, <1>3, <1>4, <1>5, <1>6, <1>7, <1>8, <1>9, <1>10, <1>11, <1>12, <1>13, <1>14, <1>15, <1>16, <1>17
     DEF Next, Step
<1> QED
  BY <1>q

\* A filled order adds itself to the position of its symbol, at most.
LEMMA FilledGrows ==
  ASSUME TypeOK, NEW p \in Plans, Filled(p)
  PROVE  /\ \A s \in Symbols : position'[s] \subseteq position[s] \cup {p}
         /\ \A s \in Symbols : ~IsBuy(p) \/ s # SymbolOf(p) => position'[s] \subseteq position[s]
<1>1. SymbolOf(p) \in Symbols /\ position \in [Symbols -> SUBSET Plans]
  BY DEF SymbolOf, Plans, TypeOK
<1>2. CASE IsBuy(p)
  BY <1>1, <1>2 DEF Filled
<1>3. CASE ~IsBuy(p)
  BY <1>1, <1>3 DEF Filled
<1> QED
  BY <1>2, <1>3

LEMMA OwnStep ==
  ASSUME TypeInv, OwnInv, [Next]_vars
  PROVE  OwnInv'
<1>0. /\ pc \in [Runs -> PCs] /\ TypeOK /\ HandsHold /\ Jobs \subseteq Runs /\ Jobs \cap Clis = {}
      /\ Jobs \cap Watches = {} /\ position \in [Symbols -> SUBSET Plans]
      /\ cur \in [Runs -> Plans \cup {None}] /\ todo \in [Runs -> SUBSET Plans] /\ None \notin Plans
  BY OrderAssumption DEF TypeInv, TypeOK, Runs, Jobs
<1>m. \A p \in Plans : /\ plan[p].status # "none" => plan'[p].status # "none"
                       /\ order[p].status # "none" => order'[p].status # "none"
  BY MadeStays
<1>o. /\ \A r \in Jobs : \A p \in todo[r] : p \in Plans /\ p[1] = r /\ plan[p].status # "none"
      /\ \A r \in Jobs : cur[r] # None => cur[r] \in Plans /\ cur[r][1] = r /\ plan[cur[r]].status # "none"
  BY <1>0 DEF OwnInv
\* It is enough that what comes into a hand is its own, and made, and that
\* what comes into a position is an order.
<1> DEFINE
      Hands == \A r \in Jobs :
                 /\ \A p \in todo'[r] : p \in Plans /\ p[1] = r /\ plan[p].status # "none"
                 /\ cur'[r] # None => \E p \in Plans : p = cur'[r] /\ p[1] = r /\ plan[p].status # "none"
      Positions == \A s \in Symbols : \A p \in position'[s] :
                     p \in Plans /\ (p \in position[s] \/ order'[p].status # "none")
      Goal == Hands /\ Positions
<1>b. ASSUME Goal PROVE OwnInv'
  <2>1. \A r \in Jobs : \A p \in todo'[r] : p[1] = r /\ plan'[p].status # "none"
    BY <1>b, <1>m
  <2>2. \A r \in Jobs : cur'[r] # None => \E p \in Plans : p = cur'[r] /\ p[1] = r /\ plan'[p].status # "none"
    BY <1>b, <1>m
  <2>3. \A s \in Symbols : \A p \in position'[s] : order'[p].status # "none"
    BY <1>b, <1>m DEF OwnInv
  <2> QED
    BY <2>1, <2>2, <2>3 DEF OwnInv
<1>p. position' = position => Positions
  BY <1>0
<1> USE DEF storeVars, brokerVars, runVars, history, At, Goto
<1>1. ASSUME NEW r \in Runs, Snapshot(r) PROVE Goal
  <2>1. Hands
    BY <1>0, <1>o, <1>1 DEF Snapshot
  <2> QED
    BY <1>1, <1>p, <2>1 DEF Snapshot
<1>2. ASSUME NEW r \in Runs, Decide(r) PROVE Goal
  <2>1. Hands
    BY <1>0, <1>o, <1>2 DEF Decide
  <2> QED
    BY <1>2, <1>p, <2>1 DEF Decide
<1>3. ASSUME NEW r \in Runs, Trigger(r) PROVE Goal
  <2>1. \A q \in Jobs : todo'[q] = todo[q] /\ cur'[q] = cur[q]
    BY <1>0, <1>3 DEF Trigger
  <2> QED
    BY <1>3, <1>o, <1>p, <2>1 DEF Trigger
<1>4. ASSUME NEW r \in Runs, Load(r) PROVE Goal
  <2>1. \A p \in Pending : p \in Plans /\ plan[p].status # "none"
    BY DEF Pending
  <2>2. Hands
    BY <1>0, <1>o, <1>4, <2>1 DEF Load
  <2> QED
    BY <1>4, <1>p, <2>2 DEF Load
<1>5. ASSUME NEW r \in Runs, Take(r) PROVE Goal
  <2>1. PICK p \in todo[r] : cur' = [cur EXCEPT ![r] = p] /\ todo' = [todo EXCEPT ![r] = @ \ {p}]
    BY <1>5 DEF Take
  <2>2. Hands
    BY <1>0, <1>o, <2>1
  <2> QED
    BY <1>5, <1>p, <2>2 DEF Take
<1>6. ASSUME NEW r \in Runs, Blocked(r) PROVE Goal
  <2>1. Hands
    BY <1>0, <1>o, <1>6, FailedFacts DEF Blocked
  <2> QED
    BY <1>6, <1>p, <2>1 DEF Blocked
<1>7. ASSUME NEW r \in Runs, Consume(r) PROVE Goal
  <2>1. Hands
    BY <1>0, <1>o, <1>7, FailedFacts DEF Consume
  <2> QED
    BY <1>7, <1>p, <2>1 DEF Consume
<1>8. ASSUME NEW r \in Runs, ConsumeFails(r) PROVE Goal
  <2>1. Hands
    BY <1>0, <1>o, <1>8 DEF ConsumeFails
  <2> QED
    BY <1>8, <1>p, <2>1 DEF ConsumeFails
<1>9. ASSUME NEW r \in Runs, Submit(r) PROVE Goal
  <2>1. cur[r] \in Plans
    BY <1>0, <1>9 DEF Submit, HandsHold
  <2>2. \A s \in Symbols : position'[s] \subseteq position[s] \cup {cur[r]}
    <3>1. position' = position \/ Filled(cur[r])
      BY <1>9 DEF Submit
    <3> QED
      BY <1>0, <2>1, <3>1, FilledGrows
  <2>3. order'[cur[r]].status # "none"
    <3>1. \E st \in {"open", "filled"} : order' = [order EXCEPT ![cur[r]] = [status |-> st, day |-> day]]
      BY <1>9 DEF Submit
    <3> QED
      BY <1>0, <2>1, <3>1 DEF TypeOK
  <2>4. Hands
    BY <1>0, <1>o, <1>9, FailedFacts DEF Submit
  <2> QED
    BY <1>0, <2>1, <2>2, <2>3, <2>4
<1>10. ASSUME NEW r \in Runs, Save(r) PROVE Goal
  <2>1. Hands
    BY <1>0, <1>o, <1>10 DEF Save
  <2> QED
    BY <1>10, <1>p, <2>1 DEF Save
<1>11. ASSUME NEW r \in Runs, SaveFails(r) PROVE Goal
  <2>1. Hands
    BY <1>0, <1>o, <1>11, FailedFacts DEF SaveFails
  <2> QED
    BY <1>11, <1>p, <2>1 DEF SaveFails
<1>12. ASSUME NEW r \in Runs, End(r) PROVE Goal
  <2>1. Hands
    BY <1>0, <1>o, <1>12 DEF End
  <2> QED
    BY <1>12, <1>p, <2>1 DEF End
<1>13. ASSUME NEW R \in SUBSET Runs, Crash(R) PROVE Goal
  <2>1. Hands
    BY <1>0, <1>o, <1>13 DEF Crash
  <2> QED
    BY <1>13, <1>p, <2>1 DEF Crash
<1>14. ASSUME NEW p \in Plans, Fill(p) PROVE Goal
  <2>1. \A s \in Symbols : position'[s] \subseteq position[s] \cup {p}
    BY <1>0, <1>14, FilledGrows DEF Fill
  <2>2. order'[p].status # "none"
    BY <1>0, <1>14, OrderFacts DEF Fill
  <2>3. Hands
    BY <1>o, <1>14 DEF Fill
  <2> QED
    BY <1>0, <2>1, <2>2, <2>3
<1>15. ASSUME NEW p \in Plans, Die(p) PROVE Goal
  <2>1. Hands
    BY <1>0, <1>o, <1>15 DEF Die
  <2> QED
    BY <1>15, <1>p, <2>1 DEF Die
<1>16. ASSUME NextDay PROVE Goal
  <2>1. Hands
    BY <1>0, <1>o, <1>16 DEF NextDay
  <2> QED
    BY <1>16, <1>p, <2>1 DEF NextDay
<1>17. ASSUME UNCHANGED vars PROVE Goal
  <2>1. Hands
    BY <1>0, <1>o, <1>17 DEF vars
  <2> QED
    BY <1>17, <1>p, <2>1 DEF vars
<1>c. Jobs \cup Watches \in SUBSET Runs /\ \A r \in Clis : {r} \in SUBSET Runs
  BY DEF Runs, Jobs
<1>i. Clis \subseteq Runs
  BY DEF Runs
<1>q. Goal
  BY <1>c, <1>i, <1>1, <1>2, <1>3, <1>4, <1>5, <1>6, <1>7, <1>8, <1>9, <1>10, <1>11, <1>12, <1>13, <1>14, <1>15, <1>16, <1>17
     DEF Next, Step
<1> QED
  BY <1>b, <1>q

\* Whoever has sent plans by hand has.
LEMMA HandStays ==
  ASSUME TypeInv, [Next]_vars
  PROVE  ByHand => ByHand'
<1>0. pc \in [Runs -> PCs] /\ Clis \subseteq Runs
  BY DEF TypeInv, TypeOK, Runs
<1> DEFINE Goal == \A r \in Clis : pc[r] # "off" => pc'[r] # "off"
<1> USE DEF storeVars, brokerVars, runVars, history, At, Goto
<1>1. ASSUME NEW r \in Runs, Snapshot(r) PROVE Goal
  BY <1>0, <1>1 DEF Snapshot
<1>2. ASSUME NEW r \in Runs, Decide(r) PROVE Goal
  BY <1>0, <1>2 DEF Decide
<1>3. ASSUME NEW r \in Runs, Trigger(r) PROVE Goal
  BY <1>0, <1>3 DEF Trigger
<1>4. ASSUME NEW r \in Runs, Load(r) PROVE Goal
  BY <1>0, <1>4 DEF Load
<1>5. ASSUME NEW r \in Runs, Take(r) PROVE Goal
  BY <1>0, <1>5 DEF Take
<1>6. ASSUME NEW r \in Runs, Blocked(r) PROVE Goal
  BY <1>0, <1>6, FailedFacts DEF Blocked, TypeInv
<1>7. ASSUME NEW r \in Runs, Consume(r) PROVE Goal
  BY <1>0, <1>7, FailedFacts DEF Consume, TypeInv
<1>8. ASSUME NEW r \in Runs, ConsumeFails(r) PROVE Goal
  BY <1>0, <1>8 DEF ConsumeFails
<1>9. ASSUME NEW r \in Runs, Submit(r) PROVE Goal
  BY <1>0, <1>9, FailedFacts DEF Submit, TypeInv
<1>10. ASSUME NEW r \in Runs, Save(r) PROVE Goal
  BY <1>0, <1>10 DEF Save
<1>11. ASSUME NEW r \in Runs, SaveFails(r) PROVE Goal
  BY <1>0, <1>11, FailedFacts DEF SaveFails, TypeInv
<1>12. ASSUME NEW r \in Runs, End(r) PROVE Goal
  BY <1>0, <1>12 DEF End
<1>13. ASSUME NEW R \in SUBSET Runs, Crash(R) PROVE Goal
  BY <1>0, <1>13 DEF Crash
<1>14. ASSUME NEW p \in Plans, Fill(p) PROVE Goal
  BY <1>0, <1>14 DEF Fill
<1>15. ASSUME NEW p \in Plans, Die(p) PROVE Goal
  BY <1>0, <1>15 DEF Die
<1>16. ASSUME NextDay PROVE Goal
  BY <1>0, <1>16 DEF NextDay
<1>17. ASSUME UNCHANGED vars PROVE Goal
  BY <1>0, <1>17 DEF vars
<1>c. Jobs \cup Watches \in SUBSET Runs /\ \A r \in Clis : {r} \in SUBSET Runs
  BY DEF Runs, Jobs
<1>i. Clis \subseteq Runs
  BY DEF Runs
<1>q. Goal
  BY <1>c, <1>i, <1>1, <1>2, <1>3, <1>4, <1>5, <1>6, <1>7, <1>8, <1>9, <1>10, <1>11, <1>12, <1>13, <1>14, <1>15, <1>16, <1>17
     DEF Next, Step
<1> QED
  BY <1>q DEF ByHand

\* A step after which nothing more is live, and no run is further in its plan
\* than before.
LEMMA BuysKept ==
  ASSUME OneBuyInv, [Next]_vars,
         ~overlap' /\ ~ByHand' =>
           /\ ~overlap
           /\ \A s \in Symbols : Live(s)' \subseteq Live(s)
           /\ \A p \in Plans : /\ plan'[p].side = "buy" => plan[p].side = "buy"
                               /\ plan'[p].status # "none" => plan[p].status # "none"
           /\ \A r \in Jobs : /\ pc'[r] = "plan" => pc[r] = "plan" /\ view'[r] = view[r]
                              /\ pc'[r] \in Past => pc[r] \in Past
  PROVE  BuyInv'
<1> SUFFICES ASSUME ~overlap', ~ByHand'
             PROVE  /\ \A s \in Symbols : \A p, q \in Live(s)' : p = q
                    /\ \A r \in Jobs : pc'[r] = "plan" => \A s \in Symbols \ Busy(r)' : Live(s)' = {}
                    /\ \A p \in Plans :
                         p[1] \in Jobs /\ pc'[p[1]] \in Past /\ IsBuy(p)'
                           /\ plan'[p].status # "none" /\ order'[p].status = "none" => Live(p[2])' = {}
  BY DEF BuyInv
<1>1. ~overlap /\ ~ByHand
  BY HandStays DEF OneBuyInv, HandInv
<1>2. \A p \in Plans : p[2] \in Symbols /\ (order'[p].status = "none" => order[p].status = "none")
  BY MadeStays, PlanIsOfARun DEF OneBuyInv, HandInv
<1>3. \A r \in Jobs : view'[r] = view[r] => Busy(r)' = Busy(r)
  BY DEF Busy
<1>4. /\ \A s \in Symbols : \A p, q \in Live(s) : p = q
      /\ \A r \in Jobs : pc[r] = "plan" => \A s \in Symbols \ Busy(r) : Live(s) = {}
      /\ \A p \in Plans :
           p[1] \in Jobs /\ pc[p[1]] \in Past /\ IsBuy(p)
             /\ plan[p].status # "none" /\ order[p].status = "none" => Live(p[2]) = {}
  BY <1>1 DEF OneBuyInv, BuyInv
<1>5. /\ \A s \in Symbols : Live(s)' \subseteq Live(s)
      /\ \A p \in Plans : /\ plan'[p].side = "buy" => plan[p].side = "buy"
                          /\ plan'[p].status # "none" => plan[p].status # "none"
      /\ \A r \in Jobs : /\ pc'[r] = "plan" => pc[r] = "plan" /\ view'[r] = view[r]
                         /\ pc'[r] \in Past => pc[r] \in Past
  OBVIOUS
<1>6. ASSUME NEW s \in Symbols, NEW p \in Live(s)', NEW q \in Live(s)' PROVE p = q
  <2>1. p \in Live(s) /\ q \in Live(s)
    BY <1>5
  <2> QED
    BY <1>4, <2>1
<1>7. ASSUME NEW r \in Jobs, pc'[r] = "plan", NEW s \in Symbols \ Busy(r)' PROVE Live(s)' = {}
  <2>1. pc[r] = "plan" /\ s \in Symbols \ Busy(r)
    BY <1>3, <1>5, <1>7
  <2> QED
    BY <1>4, <1>5, <2>1
<1>8. ASSUME NEW p \in Plans, p[1] \in Jobs, pc'[p[1]] \in Past, IsBuy(p)',
             plan'[p].status # "none", order'[p].status = "none"
      PROVE  Live(p[2])' = {}
  <2>1. pc[p[1]] \in Past /\ plan[p].status # "none" /\ order[p].status = "none" /\ p[2] \in Symbols
    BY <1>2, <1>5, <1>8
  <2>2. IsBuy(p)
    BY <1>5, <1>8 DEF IsBuy
  <2>3. Live(p[2]) = {}
    BY <1>4, <1>8, <2>1, <2>2
  <2> QED
    BY <1>5, <2>1, <2>3
<1> QED
  BY <1>6, <1>7, <1>8

LEMMA BuyStep ==
  ASSUME OneBuyInv, [Next]_vars
  PROVE  BuyInv'
<1>0. /\ pc \in [Runs -> PCs] /\ TypeOK /\ TypeInv /\ Jobs \subseteq Runs /\ Jobs \cap Clis = {}
      /\ Jobs \cap Watches = {} /\ overlap \in BOOLEAN
      /\ cur \in [Runs -> Plans \cup {None}] /\ todo \in [Runs -> SUBSET Plans] /\ None \notin Plans
      /\ BegunInv /\ WatchInv /\ OneRunner /\ OwnInv /\ HandsHold
      /\ \A p \in Plans : p[1] \in Runs /\ p[2] \in Symbols /\ SymbolOf(p) = p[2] /\ p = <<p[1], p[2]>>
  BY OrderAssumption, PlanIsOfARun DEF OneBuyInv, HandInv, TypeInv, TypeOK, Runs, Jobs, SymbolOf
\* Orders, positions and sides as before: what is live stays.
<1>l. ASSUME UNCHANGED <<order, position>>, \A p \in Plans : plan'[p].side = "buy" => plan[p].side = "buy"
      PROVE  \A s \in Symbols : Live(s)' \subseteq Live(s)
  BY <1>l DEF Live, IsBuy, SymbolOf
<1>a. ASSUME UNCHANGED <<order, position, view>>, ~overlap' => ~overlap,
             \A p \in Plans : /\ plan'[p].side = "buy" => plan[p].side = "buy"
                              /\ plan'[p].status # "none" => plan[p].status # "none",
             \A r \in Jobs : /\ pc'[r] # "plan" \/ pc[r] = "plan"
                             /\ pc'[r] \in Past => pc[r] \in Past
      PROVE  BuyInv'
  <2>1. /\ order' = order /\ position' = position /\ view' = view
        /\ \A p \in Plans : plan'[p].side = "buy" => plan[p].side = "buy"
        /\ \A p \in Plans : plan'[p].status # "none" => plan[p].status # "none"
        /\ \A r \in Jobs : pc'[r] = "plan" => pc[r] = "plan"
        /\ \A r \in Jobs : pc'[r] \in Past => pc[r] \in Past
    BY <1>a
  <2>2. \A s \in Symbols : Live(s)' \subseteq Live(s)
    BY <2>1 DEF Live, IsBuy, SymbolOf
  <2>3. ~overlap' => ~overlap
    BY <1>a
  <2> HIDE DEF Live, Past
  <2> QED
    BY <2>1, <2>2, <2>3, BuysKept
<1> USE DEF storeVars, brokerVars, runVars, history, At, Goto
<1>1. ASSUME NEW r \in Runs, Snapshot(r) PROVE BuyInv'
  <2>1. /\ pc' = [pc EXCEPT ![r] = "plan"] /\ pc[r] = "off" /\ r \notin Clis
        /\ view' = [view EXCEPT ![r] = [ordered |-> Ordered, held |-> Held]]
        /\ UNCHANGED <<plan, order, position>>
    BY <1>1 DEF Snapshot
  <2>2. ~overlap' => ~overlap
    BY <1>1 DEF Snapshot
  <2>3. ByHand' = ByHand
    BY <1>0, <2>1 DEF ByHand
  <2>4. \A s \in Symbols : Live(s)' = Live(s)
    BY <2>1 DEF Live, IsBuy, SymbolOf
  <2>5. view \in [Runs -> Views \cup {None}]
    BY <1>0 DEF TypeOK
  <2>6. \A s \in Symbols \ Busy(r)' : Live(s) = {}
    <3>1. Busy(r)' = Ordered \cup Held
      BY <2>1, <2>5 DEF Busy
    <3> QED
      BY <3>1 DEF Ordered, Held, Live
  <2>7. \A q \in Runs \ {r} : pc'[q] = pc[q] /\ Busy(q)' = Busy(q)
    BY <1>0, <2>1, <2>5 DEF Busy
  <2>8. \A p \in Plans : pc'[p[1]] \in Past => pc[p[1]] \in Past
    BY <1>0, <2>1 DEF Past
  <2>9. \A q \in Jobs : pc'[q] = "plan" => \A s \in Symbols \ Busy(q)' : ~overlap /\ ~ByHand => Live(s) = {}
    BY <1>0, <2>6, <2>7 DEF OneBuyInv, BuyInv
  <2>10. ASSUME ~overlap', ~ByHand'
         PROVE  /\ \A s \in Symbols : \A p, q \in Live(s)' : p = q
                /\ \A q \in Jobs : pc'[q] = "plan" => \A s \in Symbols \ Busy(q)' : Live(s)' = {}
                /\ \A p \in Plans :
                     p[1] \in Jobs /\ pc'[p[1]] \in Past /\ IsBuy(p)'
                       /\ plan'[p].status # "none" /\ order'[p].status = "none" => Live(p[2])' = {}
    <3>1. ~overlap /\ ~ByHand
      BY <2>2, <2>3, <2>10
    <3>2. /\ \A s \in Symbols : \A p, q \in Live(s) : p = q
          /\ \A p \in Plans :
               p[1] \in Jobs /\ pc[p[1]] \in Past /\ IsBuy(p)
                 /\ plan[p].status # "none" /\ order[p].status = "none" => Live(p[2]) = {}
      BY <3>1 DEF OneBuyInv, BuyInv
    <3>3. \A s \in Symbols : \A p, q \in Live(s)' : p = q
      BY <2>4, <3>2
    <3>4. \A q \in Jobs : pc'[q] = "plan" => \A s \in Symbols \ Busy(q)' : Live(s)' = {}
      BY <2>4, <2>9, <3>1
    <3>5. plan' = plan /\ order' = order /\ \A p \in Plans : IsBuy(p)' = IsBuy(p)
      BY <2>1 DEF IsBuy
    <3>6. \A p \in Plans :
            p[1] \in Jobs /\ pc'[p[1]] \in Past /\ IsBuy(p)'
              /\ plan'[p].status # "none" /\ order'[p].status = "none" => Live(p[2])' = {}
      BY <1>0, <2>4, <2>8, <3>2, <3>5
    <3> QED
      BY <3>3, <3>4, <3>6
  <2> QED
    BY <2>10 DEF BuyInv
<1>2. ASSUME NEW r \in Runs, Decide(r) PROVE BuyInv'
  <2>1. /\ pc' = [pc EXCEPT ![r] = "load"] /\ pc[r] = "plan" /\ r \in Jobs /\ view' = [view EXCEPT ![r] = None]
        /\ UNCHANGED <<order, position, overlap>>
    BY <1>2 DEF Decide
  <2>2. PICK buys \in SUBSET (Symbols \ Busy(r)), sells \in SUBSET (view[r].held \ view[r].ordered) :
          plan' = [p \in Plans |->
            IF p[1] = r /\ p[2] \in buys \cup sells
            THEN [side |-> IF p[2] \in buys THEN "buy" ELSE "sell", day |-> day, status |-> "PENDING"]
            ELSE (IF r \in Earnings THEN Expired ELSE plan)[p]]
    BY <1>2 DEF Decide
  <2>3. \A p \in Plans : p[1] = r => plan[p].status = "none" /\ order[p].status = "none"
    BY <1>0, <2>1 DEF BegunInv, Begun
  <2>4. \A p \in Plans : p[1] # r => /\ plan'[p].side = plan[p].side
                                     /\ plan'[p].status # "none" => plan[p].status # "none"
    BY <1>0, <2>2, ExpiredFacts
  <2>5. \A p \in Plans : p[1] = r /\ plan'[p].side = "buy" /\ plan'[p].status # "none" => p[2] \in buys
    BY <1>0, <2>2, <2>3, ExpiredFacts
  <2>6. \A s \in Symbols : Live(s)' \subseteq Live(s)
    <3>1. \A s \in Symbols : \A p \in Plans : p[1] = r => p \notin position[s] /\ order[p].status # "open"
      BY <1>0, <2>3 DEF OwnInv
    <3>2. order' = order /\ position' = position
      BY <2>1
    <3>3. \A p \in Plans : p[1] # r => IsBuy(p)' = IsBuy(p)
      BY <2>4 DEF IsBuy
    <3>4. ASSUME NEW s \in Symbols, NEW p \in Live(s)' PROVE p \in Live(s)
      <4>1. p \in Plans /\ SymbolOf(p) = s /\ IsBuy(p)' /\ (order[p].status = "open" \/ p \in position[s])
        BY <3>2, <3>4 DEF Live, SymbolOf
      <4>2. p[1] # r
        BY <3>1, <4>1
      <4> QED
        BY <3>3, <4>1, <4>2 DEF Live
    <3> QED
      BY <3>4
  <2>7. ByHand' = ByHand
    BY <1>0, <2>1 DEF ByHand
  <2> SUFFICES ASSUME ~overlap', ~ByHand'
               PROVE  /\ \A s \in Symbols : \A p, q \in Live(s)' : p = q
                      /\ \A q \in Jobs : pc'[q] = "plan" => \A s \in Symbols \ Busy(q)' : Live(s)' = {}
                      /\ \A p \in Plans :
                           p[1] \in Jobs /\ pc'[p[1]] \in Past /\ IsBuy(p)'
                             /\ plan'[p].status # "none" /\ order'[p].status = "none" => Live(p[2])' = {}
    BY DEF BuyInv
  <2>8. /\ \A s \in Symbols : \A p, q \in Live(s) : p = q
        /\ \A s \in Symbols \ Busy(r) : Live(s) = {}
        /\ \A p \in Plans :
             p[1] \in Jobs /\ pc[p[1]] \in Past /\ IsBuy(p)
               /\ plan[p].status # "none" /\ order[p].status = "none" => Live(p[2]) = {}
    BY <2>1, <2>7 DEF OneBuyInv, BuyInv
  <2>9. \A q \in Jobs : pc'[q] # "plan"
    <3>1. \A q \in Jobs : InProgress(q) => q = r
      BY <2>1 DEF InProgress, OneBuyInv, HandInv, OneRunner
    <3> QED
      BY <1>0, <2>1, <3>1 DEF InProgress
  <2>10. ASSUME NEW p \in Plans, p[1] \in Jobs, pc'[p[1]] \in Past, IsBuy(p)',
                plan'[p].status # "none", order'[p].status = "none"
         PROVE  Live(p[2])' = {}
    <3>1. CASE p[1] = r
      <4>1. p[2] \in Symbols \ Busy(r)
        BY <2>5, <2>10, <3>1 DEF IsBuy
      <4> QED
        BY <2>6, <2>8, <4>1
    <3>2. CASE p[1] # r
      <4>a. pc'[p[1]] = pc[p[1]] /\ order' = order
        BY <1>0, <2>1, <3>2
      <4>b. plan'[p].side = plan[p].side
        BY <2>4, <3>2
      <4>c. plan[p].status # "none"
        BY <2>4, <2>10, <3>2
      <4>1. pc[p[1]] \in Past /\ IsBuy(p) /\ plan[p].status # "none" /\ order[p].status = "none"
        BY <2>10, <4>a, <4>b, <4>c DEF IsBuy
      <4> QED
        BY <1>0, <2>6, <2>8, <2>10, <4>1
    <3> QED
      BY <3>1, <3>2
  <2>11. \A s \in Symbols : \A p, q \in Live(s)' : p = q
    BY <2>6, <2>8
  <2> QED
    BY <2>9, <2>10, <2>11
<1>3. ASSUME NEW r \in Runs, Trigger(r) PROVE BuyInv'
  <2>1. \A q \in Jobs : pc'[q] = pc[q] /\ view'[q] = view[q]
    BY <1>0, <1>3 DEF Trigger, TypeOK
  <2>2. UNCHANGED <<plan, order, position, overlap>>
    BY <1>3 DEF Trigger
  <2>3. \A s \in Symbols : Live(s)' \subseteq Live(s)
    BY <2>2, <1>l
  <2> QED
    BY <2>1, <2>2, <2>3, BuysKept
<1>4. ASSUME NEW r \in Runs, Load(r) PROVE BuyInv'
  <2>1. CASE r \in Clis
    <3>1. ByHand'
      BY <1>0, <1>4, <2>1 DEF Load, ByHand, Runs
    <3> QED
      BY <3>1 DEF BuyInv
  <2>2. CASE r \notin Clis
    <3>1. /\ pc' = [pc EXCEPT ![r] = "take"] /\ pc[r] = "load"
          /\ UNCHANGED <<order, position, view, overlap>>
      BY <1>4, <2>2 DEF Load
    <3>2. \A p \in Plans : plan'[p].side = plan[p].side /\ (plan'[p].status # "none" => plan[p].status # "none")
      BY <1>0, <1>4, ExpiredFacts DEF Load
    <3>3. \A q \in Jobs : (pc'[q] # "plan" \/ pc[q] = "plan") /\ (pc'[q] \in Past => pc[q] \in Past)
      BY <1>0, <3>1 DEF Past
    <3> QED
      BY <1>a, <3>1, <3>2, <3>3
  <2> QED
    BY <2>1, <2>2
<1>5. ASSUME NEW r \in Runs, Take(r) PROVE BuyInv'
  <2>1. PICK p \in todo[r] :
          plan' \in IF r \in Watches
                    THEN {Saved({p}, "sell"), [plan EXCEPT ![p].side = "sell"]} ELSE {plan}
    BY <1>5 DEF Take
  <2>2. p \in Plans /\ UNCHANGED <<order, position, view, overlap>>
    BY <1>0, <1>5, <2>1 DEF Take
  <2>3. \A x \in Plans : plan'[x].side = "buy" => plan[x].side = "buy"
    BY <1>0, <2>1, <2>2, SavedFacts, SideFacts
  <2>4. pc[r] = "take" /\ (pc' = [pc EXCEPT ![r] = "consume"] \/ pc' = [pc EXCEPT ![r] = "submit"])
    BY <1>5 DEF Take
  <2>5. \A s \in Symbols : Live(s)' \subseteq Live(s)
    BY <1>l, <2>2, <2>3
  <2>6. CASE r \in Watches
    <3>1. \A q \in Jobs : pc'[q] = pc[q]
      BY <1>0, <2>4, <2>6
    <3>2. plan'[p].side = "sell" /\ \A x \in Plans \ {p} : plan'[x] = plan[x]
      BY <1>0, <2>1, <2>2, <2>6, SavedFacts, SideFacts
    <3> SUFFICES ASSUME ~overlap', ~ByHand'
                 PROVE  /\ \A s \in Symbols : \A x, q \in Live(s)' : x = q
                        /\ \A q \in Jobs : pc'[q] = "plan" => \A s \in Symbols \ Busy(q)' : Live(s)' = {}
                        /\ \A x \in Plans :
                             x[1] \in Jobs /\ pc'[x[1]] \in Past /\ IsBuy(x)'
                               /\ plan'[x].status # "none" /\ order'[x].status = "none" => Live(x[2])' = {}
      BY DEF BuyInv
    <3>3. ~overlap /\ ~ByHand
      BY <1>0, <2>2, HandStays
    <3>4. \A x \in Plans : IsBuy(x)' => IsBuy(x) /\ plan'[x] = plan[x]
      BY <3>2 DEF IsBuy
    <3>5. \A q \in Jobs : Busy(q)' = Busy(q)
      BY <2>2 DEF Busy
    <3>6. /\ \A s \in Symbols : \A x, q \in Live(s) : x = q
          /\ \A q \in Jobs : pc[q] = "plan" => \A s \in Symbols \ Busy(q) : Live(s) = {}
          /\ \A x \in Plans :
               x[1] \in Jobs /\ pc[x[1]] \in Past /\ IsBuy(x)
                 /\ plan[x].status # "none" /\ order[x].status = "none" => Live(x[2]) = {}
      BY <3>3 DEF OneBuyInv, BuyInv
    <3>7. ASSUME NEW s \in Symbols, NEW x \in Live(s)', NEW q \in Live(s)' PROVE x = q
      <4>1. x \in Live(s) /\ q \in Live(s)
        BY <2>5
      <4> QED
        BY <3>6, <4>1
    <3>8. ASSUME NEW q \in Jobs, pc'[q] = "plan", NEW s \in Symbols \ Busy(q)' PROVE Live(s)' = {}
      <4>1. pc[q] = "plan" /\ s \in Symbols \ Busy(q)
        BY <3>1, <3>5, <3>8
      <4> QED
        BY <2>5, <3>6, <4>1
    <3>9. ASSUME NEW x \in Plans, x[1] \in Jobs, pc'[x[1]] \in Past, IsBuy(x)',
                 plan'[x].status # "none", order'[x].status = "none"
          PROVE  Live(x[2])' = {}
      <4>1. pc[x[1]] \in Past /\ IsBuy(x) /\ plan[x].status # "none" /\ order[x].status = "none"
        BY <2>2, <3>1, <3>4, <3>9
      <4>2. Live(x[2]) = {} /\ x[2] \in Symbols
        BY <1>0, <3>6, <3>9, <4>1
      <4> QED
        BY <2>5, <4>2
    <3> QED
      BY <3>7, <3>8, <3>9
  <2>7. CASE r \notin Watches
    <3>1. \A q \in Jobs : (pc'[q] # "plan" \/ pc[q] = "plan") /\ (pc'[q] \in Past => pc[q] \in Past)
      BY <1>0, <2>4 DEF Past
    <3> QED
      BY <1>a, <2>1, <2>2, <2>7, <3>1
  <2> QED
    BY <2>6, <2>7
<1>6. ASSUME NEW r \in Runs, Blocked(r) PROVE BuyInv'
  <2>1. \A q \in Jobs : (pc'[q] # "plan" \/ pc[q] = "plan") /\ (pc'[q] \in Past => pc[q] \in Past)
    BY <1>0, <1>6, FailedFacts DEF Blocked, Past
  <2> QED
    BY <1>6, <1>a, <2>1 DEF Blocked
<1>7. ASSUME NEW r \in Runs, Consume(r) PROVE BuyInv'
  <2>1. \A q \in Jobs : (pc'[q] # "plan" \/ pc[q] = "plan") /\ (pc'[q] \in Past => pc[q] \in Past)
    BY <1>0, <1>7, FailedFacts DEF Consume, Past
  <2> QED
    BY <1>7, <1>a, <2>1 DEF Consume
<1>8. ASSUME NEW r \in Runs, ConsumeFails(r) PROVE BuyInv'
  <2>1. \A q \in Jobs : (pc'[q] # "plan" \/ pc[q] = "plan") /\ (pc'[q] \in Past => pc[q] \in Past)
    BY <1>0, <1>8 DEF ConsumeFails, Past
  <2> QED
    BY <1>8, <1>a, <2>1 DEF ConsumeFails
<1>9. ASSUME NEW r \in Runs, Submit(r) PROVE BuyInv'
  <2>0. /\ cur[r] \in Plans /\ pc[r] = "submit" /\ order[cur[r]].status = "none"
        /\ UNCHANGED <<plan, view, overlap>>
    BY <1>0, <1>9 DEF Submit, HandsHold, Acceptable
  <2> PICK p \in Plans : p = cur[r]
    BY <2>0
  <2>1. PICK st \in {"open", "filled"} :
          /\ order' = [order EXCEPT ![p] = [status |-> st, day |-> day]]
          /\ position' = position \/ Filled(p)
    BY <1>9 DEF Submit
  <2>2. order'[p].status \in {"open", "filled"} /\ \A x \in Plans \ {p} : order'[x] = order[x]
    BY <1>0, <2>0, <2>1 DEF TypeOK
  <2>3. pc'[r] \in {"save", "take"} /\ \A q \in Runs \ {r} : pc'[q] = pc[q]
    BY <1>0, <1>9, FailedFacts DEF Submit
  <2>4. \A q \in Jobs : (pc'[q] # "plan" \/ pc[q] = "plan") /\ (pc'[q] \in Past => pc[q] \in Past)
    BY <1>0, <2>0, <2>3 DEF Past
  <2>5. \A s \in Symbols : /\ position'[s] \subseteq position[s] \cup {p}
                           /\ ~IsBuy(p) \/ s # SymbolOf(p) => position'[s] \subseteq position[s]
    BY <1>0, <2>0, <2>1, FilledGrows
  <2>6. \A s \in Symbols : ~IsBuy(p) \/ s # SymbolOf(p) => Live(s)' \subseteq Live(s)
    BY <2>0, <2>2, <2>5 DEF Live, IsBuy, SymbolOf
  <2>7. CASE ~IsBuy(p)
    BY <2>0, <2>4, <2>6, <2>7, BuysKept
  <2>8. CASE IsBuy(p) /\ r \in Clis
    <3>1. ByHand'
      BY <1>0, <2>3, <2>8 DEF ByHand, Runs
    <3> QED
      BY <3>1 DEF BuyInv
  <2>9. CASE IsBuy(p) /\ r \notin Clis
    <3>1. r \in Jobs
      BY <1>0, <2>0, <2>9 DEF WatchInv, IsBuy, Runs, Jobs
    <3>2. p \in Plans /\ p[1] = r /\ plan[p].status # "none" /\ order[p].status = "none" /\ p[2] \in Symbols
      BY <1>0, <2>0, <3>1 DEF OwnInv
    <3> SUFFICES ASSUME ~overlap', ~ByHand'
                 PROVE  /\ \A s \in Symbols : \A x, q \in Live(s)' : x = q
                        /\ \A q \in Jobs : pc'[q] = "plan" => \A s \in Symbols \ Busy(q)' : Live(s)' = {}
                        /\ \A x \in Plans :
                             x[1] \in Jobs /\ pc'[x[1]] \in Past /\ IsBuy(x)'
                               /\ plan'[x].status # "none" /\ order'[x].status = "none" => Live(x[2])' = {}
      BY DEF BuyInv
    <3>3. ~overlap /\ ~ByHand
      BY <1>0, <2>0, HandStays
    <3>4. Live(p[2]) = {}
      BY <2>0, <2>9, <3>1, <3>2, <3>3 DEF OneBuyInv, BuyInv, Past
    <3>5. ASSUME NEW x \in Live(p[2])', x # p PROVE FALSE
      <4>1. x \in Plans /\ SymbolOf(x) = p[2] /\ IsBuy(x)' /\ (order'[x].status = "open" \/ x \in position'[p[2]])
        BY DEF Live, SymbolOf
      <4>2. order'[x] = order[x] /\ (x \in position'[p[2]] => x \in position[p[2]])
        BY <2>2, <2>5, <3>2, <3>5, <4>1
      <4>3. IsBuy(x)
        BY <2>0, <4>1 DEF IsBuy
      <4>4. x \in Live(p[2])
        BY <4>1, <4>2, <4>3 DEF Live
      <4> QED
        BY <3>4, <4>4
    <3>6. \A s \in Symbols : s # p[2] => Live(s)' \subseteq Live(s)
      BY <1>0, <2>6, <3>2
    <3>7. \A q \in Jobs : InProgress(q) => q = r
      BY <2>0, <3>1, <3>3 DEF InProgress, OneBuyInv, HandInv, OneRunner
    <3>8. \A q \in Jobs : pc'[q] # "plan" /\ (pc'[q] \in Past => q = r)
      BY <1>0, <2>3, <3>7 DEF InProgress, Past
    <3>9. ASSUME NEW s \in Symbols, NEW x \in Live(s)', NEW q \in Live(s)' PROVE x = q
      <4>1. CASE s = p[2]
        <5>1. x = p /\ q = p
          BY <3>5, <4>1
        <5> QED
          BY <5>1
      <4>2. CASE s # p[2]
        <5>1. x \in Live(s) /\ q \in Live(s)
          BY <3>6, <4>2
        <5>2. \A y, z \in Live(s) : y = z
          BY <3>3 DEF OneBuyInv, BuyInv
        <5> QED
          BY <5>1, <5>2
      <4> QED
        BY <4>1, <4>2
    <3>10. ASSUME NEW x \in Plans, x[1] \in Jobs, pc'[x[1]] \in Past, IsBuy(x)',
                  plan'[x].status # "none", order'[x].status = "none"
           PROVE  Live(x[2])' = {}
      <4>1. x[1] = r /\ x # p
        BY <2>2, <3>8, <3>10
      <4>2. x[2] # p[2] /\ x[2] \in Symbols
        BY <1>0, <3>2, <4>1
      <4>3. order[x].status = "none" /\ plan[x].status # "none" /\ IsBuy(x) /\ pc[x[1]] \in Past
        BY <2>0, <2>2, <3>10, <4>1 DEF IsBuy, Past
      <4>4. Live(x[2]) = {}
        BY <3>1, <3>3, <4>1, <4>3 DEF OneBuyInv, BuyInv
      <4> QED
        BY <3>6, <4>2, <4>4
    <3> QED
      BY <3>8, <3>9, <3>10
  <2> QED
    BY <2>7, <2>8, <2>9
<1>10. ASSUME NEW r \in Runs, Save(r) PROVE BuyInv'
  <2>1. \A x \in Plans : plan'[x].side = plan[x].side /\ (plan'[x].status # "none" => plan[x].status # "none")
    BY <1>0, <1>10, SaveFacts DEF Save, HandsHold
  <2>2. \A q \in Jobs : (pc'[q] # "plan" \/ pc[q] = "plan") /\ (pc'[q] \in Past => pc[q] \in Past)
    BY <1>0, <1>10 DEF Save, Past
  <2> QED
    BY <1>10, <1>a, <2>1, <2>2 DEF Save
<1>11. ASSUME NEW r \in Runs, SaveFails(r) PROVE BuyInv'
  <2>1. \A q \in Jobs : (pc'[q] # "plan" \/ pc[q] = "plan") /\ (pc'[q] \in Past => pc[q] \in Past)
    BY <1>0, <1>11, FailedFacts DEF SaveFails, Past
  <2> QED
    BY <1>11, <1>a, <2>1 DEF SaveFails
<1>12. ASSUME NEW r \in Runs, End(r) PROVE BuyInv'
  <2>1. \A q \in Jobs : (pc'[q] # "plan" \/ pc[q] = "plan") /\ (pc'[q] \in Past => pc[q] \in Past)
    BY <1>0, <1>12 DEF End, Past
  <2> QED
    BY <1>12, <1>a, <2>1 DEF End
<1>13. ASSUME NEW R \in SUBSET Runs, Crash(R) PROVE BuyInv'
  <2>1. \A q \in Runs : pc'[q] \in {pc[q], "done"} /\ (pc'[q] = "plan" => view'[q] = view[q])
    BY <1>13 DEF Crash, InProgress
  <2>2. UNCHANGED <<plan, order, position, overlap>>
    BY <1>13 DEF Crash
  <2>3. \A s \in Symbols : Live(s)' \subseteq Live(s)
    BY <2>2, <1>l
  <2>4. \A q \in Jobs : /\ pc'[q] = "plan" => pc[q] = "plan" /\ view'[q] = view[q]
                        /\ pc'[q] \in Past => pc[q] \in Past
    BY <1>0, <2>1 DEF Past
  <2> QED
    BY <2>2, <2>3, <2>4, BuysKept
<1>14. ASSUME NEW p \in Plans, Fill(p) PROVE BuyInv'
  <2>1. UNCHANGED <<plan, pc, view, overlap>> /\ order[p].status = "open" /\ Filled(p)
    BY <1>14 DEF Fill
  <2>2. \A x \in Plans : x # p => order'[x] = order[x]
    BY <1>0, <1>14, OrderFacts DEF Fill
  <2>3. order'[p].status # "open"
    BY <1>0, <1>14, OrderFacts DEF Fill
  <2>4. \A s \in Symbols : /\ position'[s] \subseteq position[s] \cup {p}
                           /\ ~IsBuy(p) \/ s # SymbolOf(p) => position'[s] \subseteq position[s]
    BY <1>0, <2>1, FilledGrows
  <2>5. \A s \in Symbols : Live(s)' \subseteq Live(s)
    BY <2>1, <2>2, <2>3, <2>4 DEF Live, IsBuy, SymbolOf
  <2> QED
    BY <2>1, <2>5, BuysKept
<1>15. ASSUME NEW p \in Plans, Die(p) PROVE BuyInv'
  <2>1. UNCHANGED <<plan, pc, view, overlap, position>>
    BY <1>15 DEF Die
  <2>2. \A x \in Plans : order'[x].status = "open" => order[x].status = "open"
    BY <1>0, <1>15, OrderFacts DEF Die
  <2>3. \A s \in Symbols : Live(s)' \subseteq Live(s)
    BY <2>1, <2>2 DEF Live, IsBuy, SymbolOf
  <2> QED
    BY <2>1, <2>3, BuysKept
<1>16. ASSUME NextDay PROVE BuyInv'
  <2>1. UNCHANGED <<plan, pc, view, overlap, position>>
    BY <1>16 DEF NextDay
  <2>2. \A x \in Plans : order'[x].status = "open" => order[x].status = "open"
    <3>1. \A x \in Plans : order'[x] = IF order[x].status = "open"
                                      THEN [order[x] EXCEPT !.status = "dead"] ELSE order[x]
      BY <1>16 DEF NextDay
    <3> QED
      BY <3>1
  <2>3. \A s \in Symbols : Live(s)' \subseteq Live(s)
    BY <2>1, <2>2 DEF Live, IsBuy, SymbolOf
  <2> QED
    BY <2>1, <2>3, BuysKept
<1>17. ASSUME UNCHANGED vars PROVE BuyInv'
  BY <1>17, <1>a DEF vars
<1>c. Jobs \cup Watches \in SUBSET Runs /\ \A r \in Clis : {r} \in SUBSET Runs
  BY DEF Runs, Jobs
<1>i. Clis \subseteq Runs
  BY DEF Runs
<1> QED
  BY <1>c, <1>i, <1>1, <1>2, <1>3, <1>4, <1>5, <1>6, <1>7, <1>8, <1>9, <1>10, <1>11, <1>12, <1>13, <1>14, <1>15, <1>16, <1>17
     DEF Next, Step

LEMMA OneBuyInvHolds == Spec => []OneBuyInv
<1>1. Init => OwnInv /\ BuyInv
  <2> SUFFICES ASSUME Init PROVE OwnInv /\ BuyInv
    OBVIOUS
  <2>1. \A s \in Symbols : Live(s) = {}
    BY DEF Init, Live
  <2>2. Jobs \subseteq Runs /\ \A p \in Plans : p[1] \in Runs /\ p[2] \in Symbols
    BY PlanIsOfARun DEF Runs, Jobs
  <2>3. OwnInv
    BY <2>2 DEF Init, OwnInv
  <2> QED
    BY <2>1, <2>2, <2>3 DEF BuyInv
<1>2. OneBuyInv /\ [Next]_vars => BuyInv'
  BY BuyStep
<1>3. OneBuyInv /\ [Next]_vars => OwnInv'
  BY OwnStep DEF OneBuyInv, HandInv
<1>4. Init /\ HandInv => OneBuyInv
  BY <1>1 DEF OneBuyInv
<1>5. OneBuyInv /\ [Next]_vars /\ HandInv' => OneBuyInv'
  BY <1>2, <1>3 DEF OneBuyInv
<1> QED
  BY <1>4, <1>5, HandInvHolds, PTL DEF Spec

\* A symbol is bought twice only if two runs that may buy decided at the same
\* time or somebody sent a plan by hand: lost answers, rows that could not be
\* written, crashes and plans left pending never make a run buy again.
THEOREM OneBuyPerSymbolHolds == Spec => []OneBuyPerSymbol
<1>1. OneBuyInv => OneBuyPerSymbol
  <2> SUFFICES ASSUME OneBuyInv, ~overlap, ~ByHand, NEW s \in Symbols PROVE Cardinality(Live(s)) <= 1
    BY DEF OneBuyPerSymbol
  <2>1. \A p, q \in Live(s) : p = q
    BY DEF OneBuyInv, BuyInv
  <2>2. CASE Live(s) = {}
    BY <2>2, FS_EmptySet
  <2>3. CASE Live(s) # {}
    <3>1. PICK p \in Live(s) : TRUE
      BY <2>3
    <3>2. Live(s) = {p}
      BY <2>1, <3>1
    <3> QED
      BY <3>2, FS_Singleton
  <2> QED
    BY <2>2, <2>3
<1> QED
  BY <1>1, OneBuyInvHolds, PTL

-----------------------------------------------------------------------------
(* The four kinds of steps, for the rows and the daily limit: a decision,  *)
(* an order that is sent, a row that is written, and the rest.             *)

\* Neither an order is sent, nor a row is written, nor a plan is made.
Rest ==
  /\ rows' = rows
  /\ \A p \in Plans :
       /\ order'[p].day = order[p].day
       /\ order'[p].status = "none" <=> order[p].status = "none"
       /\ order'[p].status = "open" => order[p].status = "open"
       /\ plan'[p].side = "buy" => plan[p].side = "buy"
       /\ plan'[p].status # "none" => plan[p].status # "none" \/ p[1] \in Watches
       /\ plan'[p].side # plan[p].side => p[1] \in Watches
  /\ \A s \in Symbols : \A p \in position'[s] :
       p \in position[s] \/ (order[p].status = "open" /\ IsBuy(p) /\ SymbolOf(p) = s)
  /\ \A r \in Runs :
       /\ pc'[r] = "save" => pc[r] = "save" /\ cur'[r] = cur[r]
       /\ pc[r] = "save" => pc'[r] = "save" \/ cur[r] \in missed'
  /\ \A r \in Jobs : pc'[r] \in Past => pc[r] \in Past
  /\ day' = day \/ (day' = day + 1 /\ \A r \in Runs : pc[r] # "save")

\* A plan goes from the submission to the save, or is missed.
Sent(r) ==
  /\ rows' = rows /\ plan' = plan /\ day' = day
  /\ pc[r] = "submit" /\ cur[r] \in Plans /\ order[cur[r]].status = "none"
  /\ order'[cur[r]].status # "none" /\ order'[cur[r]].day = day
  /\ \A p \in Plans \ {cur[r]} : order'[p] = order[p]
  /\ \/ pc'[r] = "save" /\ cur'[r] = cur[r]
     \/ pc'[r] = "take" /\ cur[r] \in missed'
  /\ \A q \in Runs \ {r} : pc'[q] = pc[q] /\ cur'[q] = cur[q]
  /\ \A s \in Symbols : \A p \in position'[s] :
       p \in position[s] \/ (p = cur[r] /\ IsBuy(p) /\ SymbolOf(p) = s)

\* The row of the plan that a run has sent.
Written(r) ==
  /\ pc[r] = "save" /\ cur[r] \in Plans /\ pc'[r] = "take"
  /\ rows' = Append(rows, [plan |-> cur[r], day |-> day])
  /\ \A p \in Plans : /\ plan'[p].side = plan[p].side
                      /\ plan'[p].status # "none" => plan[p].status # "none"
  /\ order' = order /\ position' = position /\ day' = day
  /\ \A q \in Runs \ {r} : pc'[q] = pc[q] /\ cur'[q] = cur[q]

\* A decision makes plans of the run alone, and no more buys than it may.
Decided(r) ==
  /\ rows' = rows /\ order' = order /\ position' = position /\ day' = day /\ cur' = cur
  /\ pc[r] = "plan" /\ pc'[r] = "load"
  /\ \A q \in Runs \ {r} : pc'[q] = pc[q]
  /\ \A p \in Plans : p[1] # r => /\ plan'[p].side = plan[p].side
                                  /\ plan'[p].status # "none" => plan[p].status # "none"
  /\ \E buys \in SUBSET Symbols :
       /\ buys = {} \/ WithinDailyLimit(buys, limit'[r])
       /\ \A p \in Plans : p[1] = r /\ plan'[p].side = "buy" /\ plan'[p].status # "none"
                             => p[2] \in buys

\* What the histories have seen they have seen.
LEMMA HistoryGrows ==
  ASSUME TypeOK, [Next]_vars
  PROVE  missed \subseteq missed' /\ (overlap => overlap')
BY DEF TypeOK, Next, Step, Snapshot, Decide, Trigger, Load, Take, Blocked, Consume, ConsumeFails,
   Submit, Save, SaveFails, End, Crash, Fill, Die, NextDay, vars, history

LEMMA FilledFills ==
  ASSUME TypeOK, NEW p \in Plans, Filled(p)
  PROVE  \A s \in Symbols : \A q \in position'[s] :
           q \in position[s] \/ (q = p /\ IsBuy(p) /\ SymbolOf(p) = s)
<1>1. SymbolOf(p) \in Symbols /\ position \in [Symbols -> SUBSET Plans]
  BY DEF SymbolOf, Plans, TypeOK
<1>2. CASE IsBuy(p)
  BY <1>1, <1>2 DEF Filled
<1>3. CASE ~IsBuy(p)
  BY <1>1, <1>3 DEF Filled
<1> QED
  BY <1>2, <1>3

LEMMA SubmitIsSent ==
  ASSUME TypeInv, NEW r \in Runs, Submit(r)
  PROVE  Sent(r)
<1>0. /\ TypeOK /\ pc \in [Runs -> PCs] /\ cur \in [Runs -> Plans \cup {None}]
      /\ pc[r] = "submit" /\ cur[r] \in Plans /\ order[cur[r]].status = "none"
      /\ rows' = rows /\ plan' = plan /\ day' = day
  BY DEF TypeInv, TypeOK, HandsHold, Submit, At, Acceptable, storeVars
<1>1. PICK st \in {"open", "filled"} : order' = [order EXCEPT ![cur[r]] = [status |-> st, day |-> day]]
  BY DEF Submit
<1>2. /\ order'[cur[r]].status # "none" /\ order'[cur[r]].day = day
      /\ \A p \in Plans \ {cur[r]} : order'[p] = order[p]
  BY <1>0, <1>1 DEF TypeOK
<1>3. /\ \/ pc'[r] = "save" /\ cur'[r] = cur[r]
         \/ pc'[r] = "take" /\ cur[r] \in missed'
      /\ \A q \in Runs \ {r} : pc'[q] = pc[q] /\ cur'[q] = cur[q]
  <2>1. CASE Goto(r, "save") /\ cur' = cur
    <3>1. pc'[r] = "save" /\ \A q \in Runs \ {r} : pc'[q] = pc[q]
      BY <1>0, <2>1 DEF Goto
    <3> QED
      BY <2>1, <3>1
  <2>2. CASE Failed(r) /\ missed' = missed \cup {cur[r]}
    BY <1>0, <2>2, FailedFacts
  <2> QED
    BY <2>1, <2>2 DEF Submit
<1>4. \A s \in Symbols : \A p \in position'[s] :
        p \in position[s] \/ (p = cur[r] /\ IsBuy(p) /\ SymbolOf(p) = s)
  <2>1. CASE position' = position
    BY <2>1
  <2>2. CASE Filled(cur[r])
    BY <1>0, <2>2, FilledFills
  <2> QED
    BY <2>1, <2>2 DEF Submit
<1> QED
  BY <1>0, <1>2, <1>3, <1>4 DEF Sent

LEMMA SaveIsWritten ==
  ASSUME TypeInv, NEW r \in Runs, Save(r)
  PROVE  Written(r)
<1>0. /\ TypeOK /\ pc \in [Runs -> PCs] /\ cur \in [Runs -> Plans \cup {None}]
      /\ pc[r] = "save" /\ cur[r] \in Plans
  BY DEF TypeInv, TypeOK, HandsHold, Save, At
<1>1. /\ \A p \in Plans : plan'[p].side = plan[p].side
      /\ \A p \in Plans : plan'[p].status # "none" => plan[p].status # "none"
  BY <1>0, SaveFacts
<1>2. /\ rows' = Append(rows, [plan |-> cur[r], day |-> day])
      /\ order' = order /\ position' = position /\ day' = day
  BY DEF Save, brokerVars
<1>3. pc'[r] = "take" /\ \A q \in Runs \ {r} : pc'[q] = pc[q] /\ cur'[q] = cur[q]
  BY <1>0 DEF Save, Goto
<1> QED
  BY <1>0, <1>1, <1>2, <1>3 DEF Written

LEMMA DecideIsDecided ==
  ASSUME HandInv, NEW r \in Runs, Decide(r)
  PROVE  Decided(r)
<1>0. /\ TypeOK /\ pc \in [Runs -> PCs] /\ pc[r] = "plan"
      /\ rows' = rows /\ order' = order /\ position' = position /\ day' = day /\ cur' = cur
      /\ pc'[r] = "load" /\ \A q \in Runs \ {r} : pc'[q] = pc[q]
  BY DEF HandInv, TypeInv, TypeOK, Decide, At, Goto, brokerVars
<1>1. PICK l \in DailyLimits(r), buys \in SUBSET (Symbols \ Busy(r)),
           sells \in SUBSET (view[r].held \ view[r].ordered) :
        /\ WithinDailyLimit(buys, l)
        /\ LET base == IF r \in Earnings THEN Expired ELSE plan
           IN plan' = [p \in Plans |->
                IF p[1] = r /\ p[2] \in buys \cup sells
                THEN [side |-> IF p[2] \in buys THEN "buy" ELSE "sell",
                      day |-> day, status |-> "PENDING"]
                ELSE base[p]]
        /\ limit' = [limit EXCEPT ![r] = IF buys = {} THEN @ ELSE l]
  BY DEF Decide
<1>2. ASSUME NEW p \in Plans, p[1] # r
      PROVE  plan'[p].side = plan[p].side /\ (plan'[p].status # "none" => plan[p].status # "none")
  <2>1. plan'[p] \in {plan[p], Expired[p]}
    BY <1>1, <1>2
  <2> QED
    BY <1>0, <2>1, ExpiredFacts
<1>3. ASSUME NEW p \in Plans, p[1] = r, plan'[p].side = "buy", plan'[p].status # "none"
      PROVE  p[2] \in buys
  <2>1. plan[p].status = "none"
    BY <1>0, <1>3 DEF HandInv, BegunInv, Begun
  <2>2. p[2] \in buys \cup sells
    <3> SUFFICES ASSUME p[2] \notin buys \cup sells PROVE FALSE
      OBVIOUS
    <3>1. plan'[p] \in {plan[p], Expired[p]}
      BY <1>1
    <3> QED
      BY <1>0, <1>3, <2>1, <3>1, ExpiredFacts
  <2> SUFFICES ASSUME p[2] \notin buys PROVE FALSE
    OBVIOUS
  <2>3. plan'[p] = [side |-> "sell", day |-> day, status |-> "PENDING"]
    BY <1>1, <1>3, <2>2
  <2> QED
    BY <1>3, <2>3
<1>4. buys = {} \/ WithinDailyLimit(buys, limit'[r])
  <2> SUFFICES ASSUME buys # {} PROVE WithinDailyLimit(buys, limit'[r])
    OBVIOUS
  <2>1. limit'[r] = l
    BY <1>0, <1>1 DEF TypeOK
  <2> QED
    BY <1>1, <2>1
<1> QED
  BY <1>0, <1>1, <1>2, <1>3, <1>4 DEF Decided

LEMMA StepIsOfAKind ==
  ASSUME HandInv, [Next]_vars
  PROVE  \/ Rest
         \/ \E r \in Runs : Sent(r) \/ Written(r)
         \/ \E r \in Jobs : Decided(r)
<1>0. /\ TypeInv /\ TypeOK /\ WatchInv /\ HandsHold /\ None \notin Plans
      /\ pc \in [Runs -> PCs] /\ cur \in [Runs -> Plans \cup {None}]
      /\ todo \in [Runs -> SUBSET Plans] /\ Jobs \subseteq Runs
  BY OrderAssumption DEF HandInv, TypeInv, TypeOK, Runs, Jobs
\* What is nobody's business but the run's own.
<1>a. ASSUME UNCHANGED <<rows, order, position, day>>,
             NEW r \in Runs, \A q \in Runs \ {r} : pc'[q] = pc[q] /\ cur'[q] = cur[q],
             pc'[r] # "save", pc[r] = "save" => cur[r] \in missed',
             r \in Jobs /\ pc'[r] \in Past => pc[r] \in Past,
             \A p \in Plans : /\ plan'[p].side = "buy" => plan[p].side = "buy"
                              /\ plan'[p].status # "none" => plan[p].status # "none" \/ p[1] \in Watches
                              /\ plan'[p].side # plan[p].side => p[1] \in Watches
      PROVE  Rest
  <2>1. rows' = rows /\ order' = order /\ position' = position /\ day' = day
    BY <1>a
  <2>2. \A q \in Runs : /\ pc'[q] = "save" => pc[q] = "save" /\ cur'[q] = cur[q]
                        /\ pc[q] = "save" => pc'[q] = "save" \/ cur[q] \in missed'
    BY <1>a
  <2>3. \A q \in Jobs : pc'[q] \in Past => pc[q] \in Past
    BY <1>0, <1>a
  <2> QED
    BY <1>a, <2>1, <2>2, <2>3 DEF Rest
<1> DEFINE Kind == \/ Rest
                   \/ \E r \in Runs : Sent(r) \/ Written(r)
                   \/ \E r \in Jobs : Decided(r)
<1> USE DEF storeVars, brokerVars, runVars, history, At, Goto
<1>1. ASSUME NEW r \in Runs, Snapshot(r) PROVE Rest
  BY <1>0, <1>1, <1>a DEF Snapshot, Past
<1>2. ASSUME NEW r \in Runs, Decide(r) PROVE Kind
  BY <1>2, DecideIsDecided DEF Decide
<1>3. ASSUME NEW r \in Runs, Trigger(r) PROVE Rest
  <2>1. r \notin Jobs
    BY <1>3, OrderAssumption DEF Trigger
  <2> QED
    BY <1>0, <1>3, <1>a, <2>1 DEF Trigger, Past
<1>4. ASSUME NEW r \in Runs, Load(r) PROVE Rest
  <2>1. r \in Jobs => pc[r] \in Past
    BY <1>4, OrderAssumption DEF Load, Past
  <2>2. \A p \in Plans : /\ plan'[p].side = plan[p].side
                         /\ plan'[p].status # "none" => plan[p].status # "none"
    BY <1>0, <1>4, ExpiredFacts DEF Load
  <2>3. UNCHANGED <<rows, order, position, day, cur>> /\ pc'[r] = "take" /\ pc[r] # "save"
        /\ \A q \in Runs \ {r} : pc'[q] = pc[q]
    BY <1>0, <1>4 DEF Load
  <2> QED
    BY <1>a, <2>1, <2>2, <2>3
<1>5. ASSUME NEW r \in Runs, Take(r) PROVE Rest
  <2>1. PICK p \in todo[r] :
          plan' \in IF r \in Watches
                    THEN {Saved({p}, "sell"), [plan EXCEPT ![p].side = "sell"]} ELSE {plan}
    BY <1>5 DEF Take
  <2>2. p \in Plans
    BY <1>0, <2>1
  <2>3. UNCHANGED <<rows, order, position, day>> /\ pc[r] = "take"
        /\ pc'[r] \in {"consume", "submit"}
        /\ \A q \in Runs \ {r} : pc'[q] = pc[q] /\ cur'[q] = cur[q]
    <3>1. UNCHANGED <<rows, order, position, day>> /\ pc[r] = "take"
      BY <1>5 DEF Take
    <3>2. pc' = [pc EXCEPT ![r] = "consume"] \/ pc' = [pc EXCEPT ![r] = "submit"]
      BY <1>5 DEF Take
    <3>3. \E x \in Plans : cur' = [cur EXCEPT ![r] = x]
      BY <1>0, <1>5 DEF Take
    <3> QED
      BY <1>0, <3>1, <3>2, <3>3
  <2>4. \A x \in Plans : /\ plan'[x].side = "buy" => plan[x].side = "buy"
                         /\ x = p \/ plan'[x] = plan[x]
    BY <1>0, <2>1, <2>2, SavedFacts, SideFacts
  <2>5. r \in Watches \/ plan' = plan
    BY <2>1
  <2>6. r \in Watches => p[1] = r /\ r \notin Jobs
    BY <1>0, <2>1, OrderAssumption DEF WatchInv
  <2>7. \A x \in Plans : /\ plan'[x].status # "none" => plan[x].status # "none" \/ x[1] \in Watches
                         /\ plan'[x].side # plan[x].side => x[1] \in Watches
    BY <2>4, <2>5, <2>6
  <2>8. r \in Jobs /\ pc'[r] \in Past => pc[r] \in Past
    BY <2>3 DEF Past
  <2> QED
    BY <1>a, <2>3, <2>4, <2>7, <2>8
<1>6. ASSUME NEW r \in Runs, Blocked(r) PROVE Rest
  <2>1. Failed(r) /\ pc[r] \in {"consume", "submit"} /\ UNCHANGED <<rows, plan, order, position, day>>
    BY <1>6 DEF Blocked
  <2> QED
    BY <1>0, <1>a, <2>1, FailedFacts DEF Past
<1>7. ASSUME NEW r \in Runs, Consume(r) PROVE Rest
  <2>1. pc[r] = "consume" /\ UNCHANGED <<rows, plan, order, position, day>>
    BY <1>7 DEF Consume
  <2>2. CASE Failed(r)
    BY <1>0, <1>a, <2>1, <2>2, FailedFacts DEF Past
  <2>3. CASE Goto(r, "submit") /\ cur' = cur
    BY <1>0, <1>a, <2>1, <2>3 DEF Past
  <2> QED
    BY <1>7, <2>2, <2>3 DEF Consume
<1>8. ASSUME NEW r \in Runs, ConsumeFails(r) PROVE Rest
  BY <1>0, <1>8, <1>a DEF ConsumeFails, Past
<1>9. ASSUME NEW r \in Runs, Submit(r) PROVE Kind
  BY <1>0, <1>9, SubmitIsSent
<1>10. ASSUME NEW r \in Runs, Save(r) PROVE Kind
  BY <1>0, <1>10, SaveIsWritten
<1>11. ASSUME NEW r \in Runs, SaveFails(r) PROVE Rest
  <2>1. /\ Failed(r) /\ pc[r] = "save" /\ cur[r] \in missed'
        /\ UNCHANGED <<rows, plan, order, position, day>>
    BY <1>11 DEF SaveFails
  <2> QED
    BY <1>0, <1>a, <2>1, FailedFacts DEF Past
<1>12. ASSUME NEW r \in Runs, End(r) PROVE Rest
  BY <1>0, <1>12, <1>a DEF End, Past
<1>13. ASSUME NEW R \in SUBSET Runs, Crash(R) PROVE Rest
  <2>1. rows' = rows /\ plan' = plan /\ order' = order /\ position' = position /\ day' = day
    BY <1>13 DEF Crash
  <2>2. \A q \in Runs : \/ pc'[q] = pc[q] /\ cur'[q] = cur[q]
                        \/ pc'[q] \in {"off", "done"} /\ (pc[q] = "save" => cur[q] \in missed')
    BY <1>13 DEF Crash, InProgress
  <2> QED
    BY <1>0, <2>1, <2>2 DEF Rest, Past
<1>14. ASSUME NEW p \in Plans, Fill(p) PROVE Rest
  <2>1. /\ order[p].status = "open" /\ Filled(p)
        /\ rows' = rows /\ plan' = plan /\ pc' = pc /\ cur' = cur /\ day' = day
    BY <1>14 DEF Fill
  <2>2. \A x \in Plans : /\ order'[x].day = order[x].day
                         /\ order'[x].status = "none" <=> order[x].status = "none"
                         /\ order'[x].status = "open" => order[x].status = "open"
    BY <1>0, <1>14, <2>1, OrderFacts DEF Fill
  <2>3. \A s \in Symbols : \A q \in position'[s] :
          q \in position[s] \/ (q = p /\ IsBuy(p) /\ SymbolOf(p) = s)
    BY <1>0, <2>1, FilledFills
  <2> QED
    BY <2>1, <2>2, <2>3 DEF Rest
<1>15. ASSUME NEW p \in Plans, Die(p) PROVE Rest
  <2>1. /\ order[p].status = "open" /\ position' = position
        /\ rows' = rows /\ plan' = plan /\ pc' = pc /\ cur' = cur /\ day' = day
    BY <1>15 DEF Die
  <2>2. \A x \in Plans : /\ order'[x].day = order[x].day
                         /\ order'[x].status = "none" <=> order[x].status = "none"
                         /\ order'[x].status = "open" => order[x].status = "open"
    BY <1>0, <1>15, <2>1, OrderFacts DEF Die
  <2> QED
    BY <2>1, <2>2 DEF Rest
<1>16. ASSUME NextDay PROVE Rest
  <2>1. /\ position' = position /\ rows' = rows /\ plan' = plan /\ pc' = pc /\ cur' = cur
        /\ day' = day + 1 /\ \A r \in Runs : cur[r] = None
    BY <1>16 DEF NextDay
  <2>2. \A r \in Runs : pc[r] # "save"
    BY <1>0, <2>1 DEF HandsHold
  <2>3. \A x \in Plans : order'[x].status = "open" => order[x].status = "open"
    <3>1. \A x \in Plans : order'[x] = IF order[x].status = "open"
                                      THEN [order[x] EXCEPT !.status = "dead"] ELSE order[x]
      BY <1>16 DEF NextDay
    <3> QED
      BY <3>1
  <2> QED
    BY <1>0, <1>16, <2>1, <2>2, <2>3, NextOrders DEF Rest
<1>17. ASSUME UNCHANGED vars PROVE Rest
  BY <1>17 DEF vars, Rest
<1>c. Jobs \cup Watches \in SUBSET Runs /\ \A r \in Clis : {r} \in SUBSET Runs
  BY DEF Runs, Jobs
<1> HIDE DEF Kind
<1>q. Kind
  <2>1. Rest => Kind
    BY DEF Kind
  <2> QED
    BY <2>1, <1>c, <1>1, <1>2, <1>3, <1>4, <1>5, <1>6, <1>7, <1>8, <1>9, <1>10, <1>11, <1>12, <1>13, <1>14, <1>15, <1>16, <1>17
       DEF Next, Step
<1> QED
  BY <1>q DEF Kind

-----------------------------------------------------------------------------
(* The rows of the orders.                                                 *)

\* A row is of an order that was sent, and so is what a run is about to write;
\* without a miss, every order has its row, of its day, or is about to have it.
RowInv ==
  /\ \A i \in DOMAIN rows : order[rows[i].plan].status # "none"
  /\ \A r \in Runs :
       pc[r] = "save" => order[cur[r]].status # "none" /\ order[cur[r]].day = day
  /\ missed = {} =>
       \A p \in Plans : order[p].status # "none" =>
         \/ \E i \in DOMAIN rows : rows[i].plan = p /\ rows[i].day = order[p].day
         \/ \E r \in Runs : pc[r] = "save" /\ cur[r] = p

LEMMA RowsTyped ==
  ASSUME TypeOK
  PROVE  /\ rows \in Seq([plan : Plans, day : Days])
         /\ DOMAIN rows = 1 .. Len(rows) /\ Len(rows) \in Nat
         /\ \A i \in DOMAIN rows : rows[i].plan \in Plans /\ rows[i].day \in Days
<1> DEFINE R == [plan : Plans, day : Days]
<1>1. rows \in Seq(R)
  BY DEF TypeOK
<1>2. \A x \in R : x.plan \in Plans /\ x.day \in Days
  OBVIOUS
<1> HIDE DEF R
<1>3. DOMAIN rows = 1 .. Len(rows) /\ Len(rows) \in Nat /\ \A i \in DOMAIN rows : rows[i] \in R
  BY <1>1
<1> QED
  BY <1>1, <1>2, <1>3 DEF R

LEMMA RowAdded ==
  ASSUME TypeOK, NEW p \in Plans, rows' = Append(rows, [plan |-> p, day |-> day])
  PROVE  /\ DOMAIN rows' = 1 .. Len(rows) + 1
         /\ rows'[Len(rows) + 1].plan = p /\ rows'[Len(rows) + 1].day = day
         /\ \A i \in DOMAIN rows : i \in DOMAIN rows' /\ rows'[i] = rows[i]
<1>1. [plan |-> p, day |-> day] \in [plan : Plans, day : Days]
  BY DEF TypeOK
<1> QED
  BY <1>1, RowsTyped

LEMMA RowStep ==
  ASSUME HandInv, RowInv, [Next]_vars
  PROVE  RowInv'
<1>0. /\ TypeOK /\ HandsHold /\ cur \in [Runs -> Plans \cup {None}] /\ None \notin Plans
      /\ Jobs \subseteq Runs /\ \A r \in Runs : pc[r] = "save" => cur[r] \in Plans
  BY OrderAssumption DEF HandInv, TypeInv, TypeOK, HandsHold, Runs, Jobs
<1>m. missed' = {} => missed = {}
  BY <1>0, HistoryGrows
<1>1. CASE Rest
  <2>1. \A i \in DOMAIN rows' : order'[rows'[i].plan].status # "none"
    BY <1>0, <1>1, RowsTyped DEF Rest, RowInv
  <2>2. \A r \in Runs : pc'[r] = "save" => order'[cur'[r]].status # "none" /\ order'[cur'[r]].day = day'
    BY <1>0, <1>1 DEF Rest, RowInv
  <2>3. ASSUME missed' = {}, NEW p \in Plans, order'[p].status # "none"
        PROVE  \/ \E i \in DOMAIN rows' : rows'[i].plan = p /\ rows'[i].day = order'[p].day
               \/ \E r \in Runs : pc'[r] = "save" /\ cur'[r] = p
    <3>1. order[p].status # "none" /\ order'[p].day = order[p].day /\ rows' = rows
      BY <1>1, <2>3 DEF Rest
    <3>2. CASE \E i \in DOMAIN rows : rows[i].plan = p /\ rows[i].day = order[p].day
      BY <3>1, <3>2
    <3>3. ASSUME NEW r \in Runs, pc[r] = "save", cur[r] = p
          PROVE  pc'[r] = "save" /\ cur'[r] = p
      BY <1>1, <2>3, <3>3 DEF Rest
    <3> QED
      BY <1>m, <2>3, <3>1, <3>2, <3>3 DEF RowInv
  <2> QED
    BY <2>1, <2>2, <2>3 DEF RowInv
<1>2. ASSUME NEW r \in Runs, Sent(r) PROVE RowInv'
  <2>0. \A p \in Plans : order[p].status # "none" => p # cur[r] /\ order'[p] = order[p]
    BY <1>2 DEF Sent
  <2>1. \A i \in DOMAIN rows' : order'[rows'[i].plan].status # "none"
    BY <1>0, <1>2, <2>0, RowsTyped DEF Sent, RowInv
  <2>2. \A q \in Runs : pc'[q] = "save" => order'[cur'[q]].status # "none" /\ order'[cur'[q]].day = day'
    <3>1. CASE pc'[r] = "save"
      BY <1>0, <1>2, <2>0 DEF Sent, RowInv
    <3>2. CASE pc'[r] # "save"
      BY <1>0, <1>2, <2>0, <3>2 DEF Sent, RowInv
    <3> QED
      BY <3>1, <3>2
  <2>3. ASSUME missed' = {}, NEW p \in Plans, order'[p].status # "none"
        PROVE  \/ \E i \in DOMAIN rows' : rows'[i].plan = p /\ rows'[i].day = order'[p].day
               \/ \E q \in Runs : pc'[q] = "save" /\ cur'[q] = p
    <3>1. CASE p = cur[r]
      BY <1>2, <2>3, <3>1 DEF Sent
    <3>2. CASE p # cur[r]
      <4>1. order'[p] = order[p] /\ rows' = rows
        BY <1>2, <3>2 DEF Sent
      <4>2. \A q \in Runs : pc[q] = "save" /\ cur[q] = p => pc'[q] = "save" /\ cur'[q] = p
        BY <1>2 DEF Sent
      <4> QED
        BY <1>m, <2>3, <4>1, <4>2 DEF RowInv
    <3> QED
      BY <3>1, <3>2
  <2> QED
    BY <2>1, <2>2, <2>3 DEF RowInv
<1>3. ASSUME NEW r \in Runs, Written(r) PROVE RowInv'
  <2>0. /\ cur[r] \in Plans /\ order' = order /\ day' = day /\ pc[r] = "save" /\ pc'[r] = "take"
        /\ \A q \in Runs \ {r} : pc'[q] = pc[q] /\ cur'[q] = cur[q]
    BY <1>3 DEF Written
  <2>a. /\ DOMAIN rows' = 1 .. Len(rows) + 1
        /\ rows'[Len(rows) + 1].plan = cur[r] /\ rows'[Len(rows) + 1].day = day
        /\ \A i \in DOMAIN rows : i \in DOMAIN rows' /\ rows'[i] = rows[i]
    BY <1>0, <1>3, <2>0, RowAdded DEF Written
  <2>b. /\ DOMAIN rows = 1 .. Len(rows) /\ Len(rows) \in Nat
        /\ Len(rows) + 1 \in DOMAIN rows'
        /\ \A i \in DOMAIN rows' : i = Len(rows) + 1 \/ i \in DOMAIN rows
    BY <1>0, <2>a, RowsTyped
  <2>1. \A i \in DOMAIN rows' : order'[rows'[i].plan].status # "none"
    BY <2>0, <2>a, <2>b DEF RowInv
  <2>2. \A q \in Runs : pc'[q] = "save" => order'[cur'[q]].status # "none" /\ order'[cur'[q]].day = day'
    BY <2>0 DEF RowInv
  <2>3. ASSUME missed' = {}, NEW p \in Plans, order'[p].status # "none"
        PROVE  \/ \E i \in DOMAIN rows' : rows'[i].plan = p /\ rows'[i].day = order'[p].day
               \/ \E q \in Runs : pc'[q] = "save" /\ cur'[q] = p
    <3>1. CASE p = cur[r]
      BY <2>0, <2>a, <2>b, <3>1 DEF RowInv
    <3>2. CASE \E i \in DOMAIN rows : rows[i].plan = p /\ rows[i].day = order[p].day
      BY <2>0, <2>a, <3>2
    <3>3. CASE \E q \in Runs \ {r} : pc[q] = "save" /\ cur[q] = p
      BY <2>0, <3>3
    <3> QED
      BY <1>m, <2>0, <2>3, <3>1, <3>2, <3>3 DEF RowInv
  <2> QED
    BY <2>1, <2>2, <2>3 DEF RowInv
<1>4. ASSUME NEW r \in Runs, Decided(r) PROVE RowInv'
  <2>1. /\ rows' = rows /\ order' = order /\ day' = day /\ cur' = cur
        /\ \A q \in Runs : pc'[q] = "save" <=> pc[q] = "save"
    BY <1>4 DEF Decided
  <2> QED
    BY <1>m, <2>1 DEF RowInv
<1> QED
  BY <1>0, <1>1, <1>2, <1>3, <1>4, StepIsOfAKind

-----------------------------------------------------------------------------
(* The buys of a day and their rows.                                       *)

\* The buys that a run may still send: those it has decided on.
ToBuy(r) ==
  {p \in Plans : p[1] = r /\ IsBuy(p) /\ plan[p].status # "none" /\ order[p].status = "none"}

\* A set that grows by nothing keeps its bound.
LEMMA SmallerIsWithin ==
  ASSUME NEW S, NEW T \in SUBSET S, NEW n \in Nat, IsFiniteSet(S), Cardinality(S) <= n
  PROVE  IsFiniteSet(T) /\ Cardinality(T) <= n
<1>1. IsFiniteSet(T) /\ Cardinality(T) <= Cardinality(S)
  BY FS_Subset
<1>2. Cardinality(S) \in Nat /\ Cardinality(T) \in Nat
  BY <1>1, FS_CardinalityType
<1> QED
  BY <1>1, <1>2

\* Two runs that may buy are never both on their way.
LEMMA OneIsPast ==
  ASSUME HandInv, ~overlap, NEW q \in Jobs, NEW r \in Jobs,
         pc[q] \notin {"off", "done"}, pc[r] \notin {"off", "done"}
  PROVE  q = r
BY DEF HandInv, OneRunner, InProgress

\* Every buy of today has a row of today, unless a row is missing or about to
\* be written: the count of the rows bounds that of the buys.
LEMMA BuysAreCounted ==
  ASSUME TypeInv, RowInv, missed = {}, \A r \in Runs : pc[r] = "save" => ~IsBuy(cur[r])
  PROVE  IsFiniteSet(BoughtToday) /\ Cardinality(BoughtToday) <= UsedBuys /\ UsedBuys \in Nat
<1> DEFINE I == {i \in DOMAIN rows : rows[i].day = day /\ IsBuy(rows[i].plan)}
           place == [p \in BoughtToday |->
                       CHOOSE i \in DOMAIN rows : rows[i].plan = p /\ rows[i].day = order[p].day]
<1>1. DOMAIN rows = 1 .. Len(rows) /\ Len(rows) \in Nat
  BY RowsTyped DEF TypeInv
<1>2. IsFiniteSet(I)
  <2>1. I \in SUBSET (1 .. Len(rows)) /\ IsFiniteSet(1 .. Len(rows))
    BY <1>1, FS_Interval
  <2> HIDE DEF I
  <2> QED
    BY <2>1, FS_Subset
<1>3. ASSUME NEW p \in BoughtToday
      PROVE  place[p] \in I /\ rows[place[p]].plan = p
  <2>1. p \in Plans /\ order[p].status # "none" /\ order[p].day = day /\ IsBuy(p)
    BY DEF BoughtToday
  <2>2. \E i \in DOMAIN rows : rows[i].plan = p /\ rows[i].day = order[p].day
    BY <2>1 DEF RowInv
  <2>3. place[p] \in DOMAIN rows /\ rows[place[p]].plan = p /\ rows[place[p]].day = order[p].day
    BY <2>2
  <2> QED
    BY <2>1, <2>3
<1>4. place \in Injection(BoughtToday, I)
  <2>1. place \in [BoughtToday -> I]
    BY <1>3
  <2>2. \A p, q \in BoughtToday : place[p] = place[q] => p = q
    BY <1>3
  <2> HIDE DEF place, I
  <2> QED
    BY <2>1, <2>2 DEF Injection, IsInjective
<1>5. UsedBuys = Cardinality(I)
  BY DEF UsedBuys
<1> HIDE DEF I, place
<1> QED
  BY <1>2, <1>4, <1>5, FS_Injection, FS_CardinalityType

LEMMA RowInit ==
  ASSUME Init
  PROVE  RowInv
BY DEF Init, RowInv

-----------------------------------------------------------------------------
(* The rows of what is held.                                               *)

\* Until somebody sends a plan by hand, the watch sells and what is held was
\* bought.
HeldInv ==
  ~ByHand =>
    /\ \A p \in Plans : p[1] \in Watches /\ order[p].status # "none" => ~IsBuy(p)
    /\ \A s \in Symbols : \A p \in position[s] : IsBuy(p) /\ SymbolOf(p) = s

\* After the row of a buy that is live there is no row of another buy of its
\* symbol, and none is about to be written.
LatestInv ==
  ~overlap /\ ~ByHand =>
    /\ \A s \in Symbols : \A i, j \in BuyRows(s) :
         i <= j /\ rows[i].plan \in Live(s) => rows[j].plan = rows[i].plan
    /\ \A r \in Runs, s \in Symbols :
         pc[r] = "save" /\ IsBuy(cur[r]) /\ SymbolOf(cur[r]) = s => Live(s) \subseteq {cur[r]}

\* What is in a position was ordered, and so is no plan of a run that decides.
LEMMA NotOfTheDecider ==
  ASSUME HandInv, OwnInv, NEW r \in Jobs, pc[r] = "plan"
  PROVE  /\ \A p \in Plans : order[p].status # "none" => p[1] # r
         /\ \A s \in Symbols : \A p \in position[s] : p \in Plans /\ p[1] # r
<1>1. \A p \in Plans : order[p].status # "none" => p[1] # r
  BY DEF HandInv, BegunInv, Begun
<1>2. position \in [Symbols -> SUBSET Plans]
  BY DEF HandInv, TypeInv, TypeOK
<1> QED
  BY <1>1, <1>2 DEF OwnInv

\* Without a hand, who sends a buy is a job.
LEMMA BuyerIsAJob ==
  ASSUME HandInv, ~ByHand, NEW r \in Runs, pc[r] \in {"submit", "save"}, IsBuy(cur[r])
  PROVE  r \in Jobs
<1>1. r \notin Clis
  BY DEF ByHand
<1>2. r \notin Watches
  BY DEF HandInv, TypeInv, HandsHold, WatchInv, IsBuy
<1> QED
  BY <1>1, <1>2 DEF Runs, Jobs

LEMMA HeldStep ==
  ASSUME HandInv, OwnInv, HeldInv, [Next]_vars
  PROVE  HeldInv'
<1>0. /\ TypeInv /\ TypeOK /\ WatchInv /\ HandsHold /\ position \in [Symbols -> SUBSET Plans]
      /\ Jobs \cap Watches = {} /\ Runs = Jobs \cup Watches \cup Clis
  BY OrderAssumption DEF HandInv, TypeInv, TypeOK, Runs, Jobs
<1>t. position' \in [Symbols -> SUBSET Plans]
  BY <1>0, TypeStep DEF TypeInv, TypeOK
<1> DEFINE Sells == \A p \in Plans : p[1] \in Watches /\ order'[p].status # "none" => ~IsBuy(p)'
           Buys == \A s \in Symbols : \A p \in position'[s] : IsBuy(p)' /\ SymbolOf(p) = s
<1> SUFFICES ASSUME ~ByHand' PROVE Sells /\ Buys
  BY DEF HeldInv, SymbolOf
<1>1. ~ByHand
  BY <1>0, HandStays
<1>2. /\ \A p \in Plans : p[1] \in Watches /\ order[p].status # "none" => ~IsBuy(p)
      /\ \A s \in Symbols : \A p \in position[s] : IsBuy(p) /\ SymbolOf(p) = s
  BY <1>1 DEF HeldInv
<1>3. CASE Rest
  <2>1. Sells
    BY <1>2, <1>3 DEF Rest, IsBuy
  <2>2. ASSUME NEW s \in Symbols, NEW p \in position'[s]
        PROVE  IsBuy(p)' /\ SymbolOf(p) = s
    <3>1. p \in Plans
      BY <1>t
    <3>2. IsBuy(p) /\ SymbolOf(p) = s /\ order[p].status # "none"
      <4>1. p \in position[s] \/ (order[p].status = "open" /\ IsBuy(p) /\ SymbolOf(p) = s)
        BY <1>3, <2>2 DEF Rest
      <4>2. p \in position[s] => order[p].status # "none"
        BY DEF OwnInv
      <4> QED
        BY <1>2, <4>1, <4>2
    <3>3. p[1] \notin Watches
      BY <1>2, <3>1, <3>2
    <3> QED
      BY <1>3, <3>1, <3>2, <3>3 DEF Rest, IsBuy
  <2> QED
    BY <2>1, <2>2
<1>4. ASSUME NEW r \in Runs, Sent(r) PROVE Sells /\ Buys
  <2>0. /\ pc[r] = "submit" /\ cur[r] \in Plans /\ plan' = plan
        /\ \A p \in Plans \ {cur[r]} : order'[p] = order[p]
        /\ \A s \in Symbols : \A p \in position'[s] :
             p \in position[s] \/ (p = cur[r] /\ IsBuy(p) /\ SymbolOf(p) = s)
    BY <1>4 DEF Sent
  <2>1. cur[r][1] \in Watches => ~IsBuy(cur[r])
    <3> SUFFICES ASSUME IsBuy(cur[r]) PROVE cur[r][1] \notin Watches
      OBVIOUS
    <3>1. r \in Jobs
      BY <1>1, <2>0, BuyerIsAJob
    <3>2. cur[r][1] = r
      BY <1>0, <2>0, <3>1 DEF OwnInv, HandsHold
    <3> QED
      BY <1>0, <3>1, <3>2
  <2>2. Sells
    BY <1>2, <2>0, <2>1 DEF IsBuy
  <2>3. Buys
    BY <1>2, <2>0 DEF IsBuy
  <2> QED
    BY <2>2, <2>3
<1>5. ASSUME NEW r \in Runs, Written(r) PROVE Sells /\ Buys
  <2>1. order' = order /\ position' = position /\ \A p \in Plans : plan'[p].side = plan[p].side
    BY <1>5 DEF Written
  <2>2. \A s \in Symbols : \A p \in position[s] : p \in Plans
    BY <1>0
  <2> QED
    BY <1>2, <2>1, <2>2 DEF IsBuy
<1>6. ASSUME NEW r \in Jobs, Decided(r) PROVE Sells /\ Buys
  <2>1. /\ order' = order /\ position' = position /\ pc[r] = "plan"
        /\ \A p \in Plans : p[1] # r => plan'[p].side = plan[p].side
    BY <1>6 DEF Decided
  <2>2. \A s \in Symbols : \A p \in position[s] : p \in Plans /\ p[1] # r
    BY <2>1, NotOfTheDecider
  <2>3. r \notin Watches
    BY <1>0
  <2> QED
    BY <1>2, <2>1, <2>2, <2>3 DEF IsBuy
<1> HIDE DEF Sells, Buys
<1> QED
  BY <1>3, <1>4, <1>5, <1>6, StepIsOfAKind

\* Where no order is sent, nothing comes to live.
LEMMA LiveShrinks ==
  ASSUME HandInv, OwnInv,
         Rest \/ (\E r \in Runs : Written(r)) \/ (\E r \in Jobs : Decided(r))
  PROVE  \A s \in Symbols : Live(s)' \subseteq Live(s)
<1>0. position \in [Symbols -> SUBSET Plans]
  BY DEF HandInv, TypeInv, TypeOK
<1> SUFFICES ASSUME NEW s \in Symbols, NEW p \in Plans, SymbolOf(p) = s, plan'[p].side = "buy",
                    order'[p].status = "open" \/ p \in position'[s]
             PROVE  plan[p].side = "buy" /\ (order[p].status = "open" \/ p \in position[s])
  BY DEF Live, IsBuy, SymbolOf
<1>1. CASE Rest
  BY <1>1 DEF Rest
<1>2. ASSUME NEW r \in Runs, Written(r)
      PROVE  plan[p].side = "buy" /\ (order[p].status = "open" \/ p \in position[s])
  BY <1>2 DEF Written
<1>3. ASSUME NEW r \in Jobs, Decided(r)
      PROVE  plan[p].side = "buy" /\ (order[p].status = "open" \/ p \in position[s])
  <2>1. /\ order' = order /\ position' = position /\ pc[r] = "plan"
        /\ \A x \in Plans : x[1] # r => plan'[x].side = plan[x].side
    BY <1>3 DEF Decided
  <2>2. p[1] # r
    BY <2>1, NotOfTheDecider
  <2> QED
    BY <2>1, <2>2
<1> QED
  BY <1>1, <1>2, <1>3

LEMMA LatestStep ==
  ASSUME OneBuyInv, RowInv, LatestInv, [Next]_vars
  PROVE  LatestInv'
<1>0. /\ HandInv /\ OwnInv /\ TypeInv /\ TypeOK /\ WatchInv /\ HandsHold /\ BegunInv
      /\ Jobs \subseteq Runs
      /\ position \in [Symbols -> SUBSET Plans]
      /\ \A i \in DOMAIN rows : rows[i].plan \in Plans
      /\ \A r \in Runs : pc[r] = "save" => cur[r] \in Plans
      /\ cur \in [Runs -> Plans \cup {None}]
  BY RowsTyped DEF OneBuyInv, HandInv, TypeInv, TypeOK, HandsHold, Runs, Jobs
<1>p. \A p \in Plans : SymbolOf(p) \in Symbols
  BY PlanIsOfARun DEF SymbolOf
<1> DEFINE Ordinal == \A s \in Symbols : \A i, j \in BuyRows(s)' :
                        i <= j /\ rows'[i].plan \in Live(s)' => rows'[j].plan = rows'[i].plan
           Alone == \A r \in Runs, s \in Symbols :
                      pc'[r] = "save" /\ plan'[cur'[r]].side = "buy" /\ SymbolOf(cur'[r]) = s
                        => Live(s)' \subseteq {cur'[r]}
<1> SUFFICES ASSUME ~overlap', ~ByHand'
             PROVE  Ordinal /\ Alone
  BY DEF LatestInv, IsBuy, SymbolOf
<1>1. ~overlap /\ ~ByHand
  BY <1>0, HistoryGrows, HandStays
<1>2. /\ \A s \in Symbols : \A i, j \in BuyRows(s) :
           i <= j /\ rows[i].plan \in Live(s) => rows[j].plan = rows[i].plan
      /\ \A r \in Runs, s \in Symbols :
           pc[r] = "save" /\ IsBuy(cur[r]) /\ SymbolOf(cur[r]) = s => Live(s) \subseteq {cur[r]}
  BY <1>1 DEF LatestInv
\* Where no order is sent and no row is written.
<1>a. ASSUME rows' = rows,
             \A s \in Symbols : Live(s)' \subseteq Live(s),
             \A p \in Plans : order[p].status # "none" /\ plan'[p].side = "buy" => plan[p].side = "buy",
             \A r \in Runs : pc'[r] = "save" => pc[r] = "save" /\ cur'[r] = cur[r]
      PROVE  Ordinal /\ Alone
  <2>1. \A s \in Symbols : BuyRows(s)' \subseteq BuyRows(s)
    BY <1>0, <1>a DEF BuyRows, IsBuy, SymbolOf, RowInv
  <2>2. Ordinal
    BY <1>2, <1>a, <2>1
  <2>3. ASSUME NEW r \in Runs, NEW s \in Symbols,
               pc'[r] = "save", plan'[cur'[r]].side = "buy", SymbolOf(cur'[r]) = s
        PROVE  Live(s)' \subseteq {cur'[r]}
    <3>1. pc[r] = "save" /\ cur'[r] = cur[r] /\ IsBuy(cur[r])
      BY <1>0, <1>a, <2>3 DEF RowInv, IsBuy
    <3> QED
      BY <1>2, <1>a, <2>3, <3>1
  <2> QED
    BY <2>2, <2>3
<1>3. CASE Rest
  <2>1. \A s \in Symbols : Live(s)' \subseteq Live(s)
    BY <1>0, <1>3, LiveShrinks
  <2> QED
    BY <1>3, <1>a, <2>1 DEF Rest
<1>4. ASSUME NEW r \in Jobs, Decided(r) PROVE Ordinal /\ Alone
  <2>1. \A s \in Symbols : Live(s)' \subseteq Live(s)
    BY <1>0, <1>4, LiveShrinks
  <2>2. /\ rows' = rows /\ cur' = cur /\ pc[r] = "plan" /\ pc'[r] = "load"
        /\ \A q \in Runs \ {r} : pc'[q] = pc[q]
        /\ \A p \in Plans : p[1] # r => plan'[p].side = plan[p].side
    BY <1>4 DEF Decided
  <2>3. \A p \in Plans : order[p].status # "none" /\ plan'[p].side = "buy" => plan[p].side = "buy"
    BY <1>0, <2>2, NotOfTheDecider
  <2> QED
    BY <1>a, <2>1, <2>2, <2>3
<1>5. ASSUME NEW r \in Runs, Sent(r) PROVE Ordinal /\ Alone
  <2>0. /\ rows' = rows /\ plan' = plan
        /\ pc[r] = "submit" /\ cur[r] \in Plans /\ order[cur[r]].status = "none"
        /\ \A p \in Plans \ {cur[r]} : order'[p] = order[p]
        /\ pc'[r] = "save" => cur'[r] = cur[r]
        /\ \A q \in Runs \ {r} : pc'[q] = pc[q] /\ cur'[q] = cur[q]
        /\ \A s \in Symbols : \A p \in position'[s] :
             p \in position[s] \/ (p = cur[r] /\ IsBuy(p) /\ SymbolOf(p) = s)
    BY <1>5 DEF Sent
  <2>1. \A s \in Symbols : \A p \in Live(s)' :
          p \in Live(s) \/ (p = cur[r] /\ IsBuy(p) /\ SymbolOf(p) = s)
    BY <2>0 DEF Live, IsBuy, SymbolOf
  <2>2. \A s \in Symbols : BuyRows(s)' = BuyRows(s)
    BY <2>0 DEF BuyRows, IsBuy, SymbolOf
  <2>3. \A i \in DOMAIN rows : rows[i].plan # cur[r]
    BY <2>0 DEF RowInv
  <2>4. Ordinal
    BY <1>2, <2>0, <2>1, <2>2, <2>3 DEF BuyRows
  <2>5. IsBuy(cur[r]) => r \in Jobs /\ Live(SymbolOf(cur[r])) = {}
    <3> SUFFICES ASSUME IsBuy(cur[r]) PROVE r \in Jobs /\ Live(SymbolOf(cur[r])) = {}
      OBVIOUS
    <3>1. r \in Jobs
      BY <1>0, <1>1, <2>0, BuyerIsAJob
    <3>2. cur[r][1] = r /\ plan[cur[r]].status # "none"
      BY <1>0, <2>0, <3>1 DEF OwnInv, HandsHold
    <3> QED
      BY <1>1, <2>0, <3>1, <3>2 DEF OneBuyInv, BuyInv, SymbolOf, Past
  <2>6. ASSUME NEW q \in Runs, NEW s \in Symbols,
               pc'[q] = "save", plan'[cur'[q]].side = "buy", SymbolOf(cur'[q]) = s
        PROVE  Live(s)' \subseteq {cur'[q]}
    <3>1. CASE q = r
      BY <2>0, <2>1, <2>5, <2>6, <3>1 DEF IsBuy
    <3>2. CASE q # r
      <4>1. pc[q] = "save" /\ cur'[q] = cur[q] /\ IsBuy(cur[q])
        BY <2>0, <2>6, <3>2 DEF IsBuy
      <4>2. q \in Jobs
        BY <1>0, <1>1, <4>1, BuyerIsAJob
      <4>3. ~IsBuy(cur[r])
        BY <1>0, <1>1, <2>0, <2>5, <3>2, <4>1, <4>2, OneIsPast
      <4> QED
        BY <1>2, <2>1, <2>6, <4>1, <4>3
    <3> QED
      BY <3>1, <3>2
  <2> QED
    BY <2>4, <2>6
<1>6. ASSUME NEW r \in Runs, Written(r) PROVE Ordinal /\ Alone
  <2>0. /\ pc[r] = "save" /\ cur[r] \in Plans /\ pc'[r] = "take"
        /\ \A p \in Plans : plan'[p].side = plan[p].side
        /\ \A q \in Runs \ {r} : pc'[q] = pc[q] /\ cur'[q] = cur[q]
    BY <1>6 DEF Written
  <2>1. \A s \in Symbols : Live(s)' \subseteq Live(s)
    BY <1>0, <1>6, LiveShrinks
  <2>2. /\ DOMAIN rows' = 1 .. Len(rows) + 1
        /\ rows'[Len(rows) + 1].plan = cur[r]
        /\ \A i \in DOMAIN rows : i \in DOMAIN rows' /\ rows'[i] = rows[i]
    BY <1>0, <1>6, RowAdded DEF Written
  <2>3. /\ DOMAIN rows = 1 .. Len(rows) /\ Len(rows) \in Nat
        /\ \A i \in DOMAIN rows' : i = Len(rows) + 1 \/ i \in DOMAIN rows
    BY <1>0, <2>2, RowsTyped
  <2>4. ASSUME NEW s \in Symbols, NEW i \in BuyRows(s)', NEW j \in BuyRows(s)',
               i <= j, rows'[i].plan \in Live(s)'
        PROVE  rows'[j].plan = rows'[i].plan
    <3>1. \A k \in BuyRows(s)' : k \in BuyRows(s) \/ k = Len(rows) + 1
      BY <1>0, <2>0, <2>2, <2>3 DEF BuyRows, IsBuy, SymbolOf
    <3>2. Len(rows) + 1 \in BuyRows(s)' => IsBuy(cur[r]) /\ SymbolOf(cur[r]) = s
      BY <2>0, <2>2 DEF BuyRows, IsBuy, SymbolOf
    <3>3. \A k \in BuyRows(s) : rows'[k] = rows[k] /\ k \in 1 .. Len(rows)
      BY <2>2, <2>3 DEF BuyRows
    <3>4. CASE j = Len(rows) + 1
      <4>1. Live(s) \subseteq {cur[r]}
        BY <1>2, <2>0, <2>4, <3>2, <3>4
      <4> QED
        BY <2>1, <2>2, <2>4, <3>4, <4>1
    <3>5. CASE j \in BuyRows(s)
      <4>1. i \in BuyRows(s)
        BY <2>3, <2>4, <3>1, <3>3, <3>5
      <4> QED
        BY <1>2, <2>1, <2>4, <3>3, <3>5, <4>1
    <3> QED
      BY <3>1, <3>4, <3>5
  <2>5. ASSUME NEW q \in Runs, NEW s \in Symbols,
               pc'[q] = "save", plan'[cur'[q]].side = "buy", SymbolOf(cur'[q]) = s
        PROVE  Live(s)' \subseteq {cur'[q]}
    <3>1. pc[q] = "save" /\ cur'[q] = cur[q] /\ IsBuy(cur[q])
      BY <1>0, <2>0, <2>5 DEF IsBuy
    <3> QED
      BY <1>2, <2>1, <2>5, <3>1
  <2> QED
    BY <2>4, <2>5
<1> HIDE DEF Ordinal, Alone
<1> QED
  BY <1>0, <1>3, <1>4, <1>5, <1>6, StepIsOfAKind

\* A set of rows that is not empty has a last one.
LEMMA LastOfTheRows ==
  ASSUME TypeOK, NEW S \in SUBSET (DOMAIN rows), S # {}
  PROVE  \E m \in S : \A i \in S : m >= i
<1> DEFINE T == {Len(rows) - i : i \in S}
<1>1. DOMAIN rows = 1 .. Len(rows) /\ Len(rows) \in Nat
  BY RowsTyped
<1>2. T \subseteq Nat /\ T # {}
  BY <1>1
<1>3. PICK n \in T : \A m \in T : ~(m < n)
  <2> HIDE DEF T
  <2>1. PICK n \in T : \A m \in T : <<m, n>> \notin OpToRel(<, Nat)
    BY <1>2, WFMin, NatLessThanWellFounded
  <2>2. \A m \in T : ~(m < n)
    BY <2>1, <1>2 DEF OpToRel
  <2> QED
    BY <2>2
<1>4. PICK m \in S : n = Len(rows) - m
  BY <1>3
<1>5. ASSUME NEW i \in S PROVE m >= i
  <2>1. Len(rows) - i \in T
    OBVIOUS
  <2>2. ~(Len(rows) - i < Len(rows) - m)
    BY <1>3, <1>4, <2>1
  <2> QED
    BY <1>1, <2>2
<1> QED
  BY <1>5

\* The watch sells a position by the levels of the buy that made it: as long as
\* no two runs that may buy met and nobody sent a plan by hand, the last row of
\* a buy of a symbol is that of the buy that is held.
THEOREM LevelsOfTheHeldPlanHolds == Spec => []LevelsOfTheHeldPlan
<1>1. Init => RowInv /\ HeldInv /\ LatestInv
  <2> SUFFICES ASSUME Init PROVE HeldInv /\ LatestInv
    BY RowInit
  <2>1. \A s \in Symbols : Live(s) = {}
    BY DEF Init, Live
  <2>2. HeldInv
    BY DEF Init, HeldInv
  <2> QED
    BY <2>1, <2>2 DEF LatestInv
<1>2. OneBuyInv /\ RowInv /\ HeldInv /\ LatestInv /\ [Next]_vars => RowInv' /\ HeldInv' /\ LatestInv'
  BY RowStep, HeldStep, LatestStep DEF OneBuyInv
<1>3. OneBuyInv /\ HeldInv /\ LatestInv => LevelsOfTheHeldPlan
  <2> SUFFICES ASSUME TypeOK, HeldInv, LatestInv, ~overlap, ~ByHand,
                      NEW s \in Symbols, NEW p \in Rowed, p \in position[s]
               PROVE  LatestBuyPlan(s) = p
    BY DEF LevelsOfTheHeldPlan, OneBuyInv, HandInv, TypeInv
  <2>1. p \in Plans /\ IsBuy(p) /\ SymbolOf(p) = s
    BY DEF HeldInv, TypeOK
  <2>2. PICK i \in DOMAIN rows : rows[i].plan = p
    BY DEF Rowed
  <2>3. i \in BuyRows(s) /\ BuyRows(s) \subseteq DOMAIN rows
    BY <2>1, <2>2 DEF BuyRows
  <2> DEFINE m == CHOOSE k \in BuyRows(s) : \A j \in BuyRows(s) : k >= j
  <2>4. m \in BuyRows(s) /\ m >= i
    <3>1. \E k \in BuyRows(s) : \A j \in BuyRows(s) : k >= j
      BY <2>3, LastOfTheRows
    <3> QED
      BY <2>3, <3>1
  <2>5. p \in Live(s)
    BY <2>1 DEF Live
  <2>6. LatestBuyPlan(s) = rows[m].plan
    BY DEF LatestBuyPlan
  <2>7. i <= m
    BY <2>3, <2>4, RowsTyped
  <2> HIDE DEF m
  <2> QED
    BY <2>2, <2>3, <2>4, <2>5, <2>6, <2>7 DEF LatestInv
<1> QED
  BY <1>1, <1>2, <1>3, OneBuyInvHolds, PTL DEF Spec

-----------------------------------------------------------------------------
(* The buys of a day and the limits of its runs.                           *)

\* The limit under which a run chose its buys is not touched any more.
LEMMA LimitStays ==
  ASSUME HandInv, [Next]_vars
  PROVE  \A q \in Runs : pc[q] # "plan" => limit'[q] = limit[q]
<1>0. limit \in [Runs -> Nat]
  BY DEF HandInv, TypeInv, TypeOK
<1>1. limit' = limit \/ \E r \in Runs, n \in Nat : pc[r] = "plan" /\ limit' = [limit EXCEPT ![r] = n]
  <2>1. ASSUME NEW r \in Runs, Decide(r)
        PROVE  \E n \in Nat : limit' = [limit EXCEPT ![r] = n]
    <3>1. DailyLimits(r) \subseteq Nat
      BY OrderAssumption DEF DailyLimits
    <3>2. PICK l \in DailyLimits(r), buys \in SUBSET (Symbols \ Busy(r)) :
            limit' = [limit EXCEPT ![r] = IF buys = {} THEN @ ELSE l]
      BY <2>1 DEF Decide
    <3>3. (IF buys = {} THEN limit[r] ELSE l) \in Nat
      BY <1>0, <3>1
    <3> QED
      BY <3>2, <3>3
  <2>2. ASSUME ~\E r \in Runs : Decide(r)
        PROVE  limit' = limit
    BY <2>2 DEF Next, Step, Snapshot, Trigger, Load, Take, Blocked, Consume, ConsumeFails,
                Submit, Save, SaveFails, End, Crash, Fill, Die, NextDay, vars, history
  <2> QED
    BY <2>1, <2>2 DEF Decide, At
<1> QED
  BY <1>0, <1>1

\* The limit of some run of the day allows what was bought today, and the limit
\* of the run that is under way allows it with what the run has decided to buy.
LimitInv ==
  ~overlap /\ ~ByHand /\ missed = {} =>
    /\ IsFiniteSet(BoughtToday)
    /\ BoughtToday = {} \/ \E p \in BoughtToday : Allowed(BoughtToday, p[1])
    /\ \A r \in Jobs : pc[r] \in Past =>
         /\ IsFiniteSet(BoughtToday \cup ToBuy(r))
         /\ ToBuy(r) = {} \/ Allowed(BoughtToday \cup ToBuy(r), r)

\* A limit that allows a set allows less.
LEMMA LessIsAllowed ==
  ASSUME NEW S, NEW T \in SUBSET S, NEW r \in Runs, limit[r] \in Nat,
         IsFiniteSet(S), Allowed(S, r)
  PROVE  IsFiniteSet(T) /\ Allowed(T, r)
BY SmallerIsWithin, FS_Subset DEF Allowed

LEMMA LimitStep ==
  ASSUME IsFiniteSet(Symbols), OneBuyInv, RowInv, HeldInv, LimitInv, [Next]_vars
  PROVE  LimitInv'
<1>0. /\ HandInv /\ OwnInv /\ TypeInv /\ TypeOK /\ HandsHold /\ WatchInv /\ BegunInv
      /\ PastInv /\ day \in Nat /\ limit \in [Runs -> Nat]
      /\ pc \in [Runs -> PCs] /\ cur \in [Runs -> Plans \cup {None}] /\ None \notin Plans
      /\ Jobs \subseteq Runs /\ Watches \subseteq Runs /\ Clis \subseteq Runs
      /\ \A p \in Plans : p[1] \in Runs
  BY OrderAssumption DEF OneBuyInv, HandInv, TypeInv, TypeOK, Runs, Jobs, Days, Plans
<1>t. limit' \in [Runs -> Nat]
  BY <1>0, TypeStep DEF TypeInv, TypeOK
<1>o. Runs = Jobs \cup Watches \cup Clis /\ Jobs \cap Watches = {}
  BY OrderAssumption DEF Runs, Jobs
<1> DEFINE Bought == IsFiniteSet(BoughtToday')
                       /\ (BoughtToday' = {} \/ \E p \in BoughtToday' : Allowed(BoughtToday, p[1])')
           ToCome(r) == IsFiniteSet(BoughtToday' \cup ToBuy(r)')
                          /\ (ToBuy(r)' = {} \/ Allowed(BoughtToday \cup ToBuy(r), r)')
<1> SUFFICES ASSUME ~overlap', ~ByHand', missed' = {}
             PROVE  Bought /\ \A r \in Jobs : pc'[r] \in Past => ToCome(r)
  BY DEF LimitInv
<1>1. ~overlap /\ ~ByHand /\ missed = {}
  BY <1>0, HistoryGrows, HandStays
<1>2. /\ IsFiniteSet(BoughtToday)
      /\ BoughtToday = {} \/ \E p \in BoughtToday : Allowed(BoughtToday, p[1])
      /\ \A r \in Jobs : pc[r] \in Past =>
           /\ IsFiniteSet(BoughtToday \cup ToBuy(r))
           /\ ToBuy(r) = {} \/ Allowed(BoughtToday \cup ToBuy(r), r)
  BY <1>1 DEF LimitInv
<1>3. \A p \in Plans : /\ plan[p].status # "none" => plan'[p].status # "none"
                       /\ order[p].status # "none" => order'[p].status # "none"
  BY <1>0, MadeStays
<1>w. \A p \in BoughtToday : p \in Plans /\ p[1] \notin Watches /\ limit'[p[1]] = limit[p[1]]
  <2> SUFFICES ASSUME NEW p \in BoughtToday
               PROVE  p[1] \notin Watches /\ limit'[p[1]] = limit[p[1]]
    BY DEF BoughtToday
  <2>1. p \in Plans /\ order[p].status # "none" /\ IsBuy(p)
    BY DEF BoughtToday
  <2>2. pc[p[1]] # "plan"
    BY <1>0, <2>1 DEF BegunInv, Begun
  <2> QED
    BY <1>0, <1>1, <2>1, <2>2, LimitStays DEF HeldInv
<1>l. \A r \in Runs : pc[r] \in Past => limit'[r] = limit[r]
  BY <1>0, LimitStays DEF Past
\* Nothing is bought unless it is a new day, and no run has more to buy.
<1>a. ASSUME BoughtToday' = BoughtToday \/ BoughtToday' = {},
             \A r \in Jobs : pc'[r] \in Past => pc[r] \in Past /\ ToBuy(r)' \subseteq ToBuy(r)
      PROVE  Bought /\ \A r \in Jobs : pc'[r] \in Past => ToCome(r)
  <2>1. Bought
    <3>1. CASE BoughtToday' = {}
      BY <3>1, FS_EmptySet
    <3>2. CASE BoughtToday' = BoughtToday
      <4>1. \A p \in BoughtToday : Allowed(BoughtToday, p[1]) => Allowed(BoughtToday, p[1])'
        BY <1>w, <3>2 DEF Allowed
      <4> QED
        BY <1>2, <3>2, <4>1
    <3> QED
      BY <1>a, <3>1, <3>2
  <2>2. ASSUME NEW r \in Jobs, pc'[r] \in Past PROVE ToCome(r)
    <3>1. /\ BoughtToday' \cup ToBuy(r)' \subseteq BoughtToday \cup ToBuy(r)
          /\ pc[r] \in Past /\ ToBuy(r)' \subseteq ToBuy(r) /\ r \in Runs
      BY <1>0, <1>a, <2>2
    <3>2. IsFiniteSet(BoughtToday \cup ToBuy(r)) /\ IsFiniteSet(BoughtToday' \cup ToBuy(r)')
      BY <1>2, <3>1, FS_Subset
    <3>3. CASE ToBuy(r) = {}
      BY <3>1, <3>2, <3>3
    <3>4. CASE ToBuy(r) # {}
      <4>1. Allowed(BoughtToday' \cup ToBuy(r)', r)
        BY <1>0, <1>2, <3>1, <3>4, LessIsAllowed
      <4>2. Allowed(BoughtToday \cup ToBuy(r), r)'
        BY <1>l, <3>1, <4>1 DEF Allowed
      <4> QED
        BY <3>2, <4>2
    <3> QED
      BY <3>3, <3>4
  <2> QED
    BY <2>1, <2>2
<1>4. CASE Rest
  <2>1. BoughtToday' = BoughtToday \/ BoughtToday' = {}
    <3>1. CASE day' = day
      <4>1. ASSUME NEW p \in BoughtToday' PROVE p \in BoughtToday
        BY <1>4, <3>1 DEF Rest, BoughtToday, IsBuy
      <4>2. ASSUME NEW p \in BoughtToday PROVE p \in BoughtToday'
        BY <1>w, <1>4, <3>1 DEF Rest, BoughtToday, IsBuy
      <4> QED
        BY <4>1, <4>2
    <3>2. CASE day' = day + 1
      <4>1. ASSUME NEW p \in BoughtToday' PROVE FALSE
        <5>1. p \in Plans /\ order[p].status # "none" /\ order[p].day = day + 1
          BY <1>4, <3>2 DEF Rest, BoughtToday
        <5>2. order[p].day <= day
          BY <1>0, <5>1 DEF PastInv
        <5> QED
          BY <1>0, <5>1, <5>2
      <4> QED
        BY <4>1
    <3> QED
      BY <1>4, <3>1, <3>2 DEF Rest
  <2>2. ASSUME NEW r \in Jobs
        PROVE  ToBuy(r)' \subseteq ToBuy(r)
    <3> SUFFICES ASSUME NEW p \in Plans, p[1] = r, plan'[p].side = "buy", plan'[p].status # "none",
                        order'[p].status = "none"
                 PROVE  p \in ToBuy(r)
      BY DEF ToBuy, IsBuy
    <3>1. p[1] \notin Watches
      BY <1>o
    <3> QED
      BY <1>4, <3>1 DEF Rest, ToBuy, IsBuy
  <2>3. \A r \in Jobs : pc'[r] \in Past => pc[r] \in Past
    BY <1>4 DEF Rest
  <2> QED
    BY <1>a, <2>1, <2>2, <2>3
<1>5. ASSUME NEW r \in Runs, Written(r)
      PROVE  Bought /\ \A q \in Jobs : pc'[q] \in Past => ToCome(q)
  <2>1. BoughtToday' = BoughtToday
    BY <1>5 DEF Written, BoughtToday, IsBuy
  <2>2. \A q \in Jobs : ToBuy(q)' \subseteq ToBuy(q)
    BY <1>5 DEF Written, ToBuy, IsBuy
  <2>3. \A q \in Jobs : pc'[q] \in Past => pc[q] \in Past
    BY <1>0, <1>5 DEF Written, Past
  <2> QED
    BY <1>a, <2>1, <2>2, <2>3
\* The one run that may buy sends what it has decided on.
<1>6. ASSUME NEW r \in Runs, Sent(r)
      PROVE  Bought /\ \A q \in Jobs : pc'[q] \in Past => ToCome(q)
  <2>0. /\ pc[r] = "submit" /\ cur[r] \in Plans /\ order[cur[r]].status = "none"
        /\ plan' = plan /\ day' = day
        /\ order'[cur[r]].status # "none" /\ order'[cur[r]].day = day
        /\ \A p \in Plans \ {cur[r]} : order'[p] = order[p]
        /\ \A q \in Runs \ {r} : pc'[q] = pc[q]
    BY <1>6 DEF Sent
  <2>1. BoughtToday' = IF IsBuy(cur[r]) THEN BoughtToday \cup {cur[r]} ELSE BoughtToday
    <3>1. cur[r] \notin BoughtToday
      BY <2>0 DEF BoughtToday
    <3>2. \A p \in Plans : p \in BoughtToday' <=> IF p = cur[r] THEN IsBuy(p) ELSE p \in BoughtToday
      BY <2>0 DEF BoughtToday, IsBuy
    <3>3. BoughtToday' \subseteq Plans /\ BoughtToday \subseteq Plans
      BY DEF BoughtToday
    <3> QED
      BY <2>0, <3>1, <3>2, <3>3
  <2>2. \A q \in Jobs : ToBuy(q)' \subseteq ToBuy(q)
    BY <1>3, <2>0 DEF ToBuy, IsBuy
  <2>3. CASE r \in Clis
    BY <1>1, <2>0, <2>3 DEF ByHand
  <2>4. CASE ~IsBuy(cur[r])
    <3>1. \A q \in Jobs : pc'[q] \in Past => pc[q] \in Past
      BY <1>0, <2>0 DEF Past
    <3> QED
      BY <1>a, <2>1, <2>2, <2>4, <3>1
  <2>5. CASE r \in Jobs /\ IsBuy(cur[r])
    <3>1. cur[r] # None /\ cur[r][1] = r /\ plan[cur[r]].status # "none"
      BY <1>0, <2>0, <2>5 DEF OwnInv
    <3>2. cur[r] \in ToBuy(r)
      BY <2>0, <2>5, <3>1 DEF ToBuy
    <3>3. /\ IsFiniteSet(BoughtToday \cup ToBuy(r)) /\ Allowed(BoughtToday \cup ToBuy(r), r)
          /\ limit'[r] = limit[r]
      BY <1>2, <1>l, <2>0, <2>5, <3>2 DEF Past
    <3>4. \A q \in Jobs : pc'[q] \in Past => q = r
      <4> SUFFICES ASSUME NEW q \in Jobs, pc'[q] \in Past, q # r PROVE FALSE
        OBVIOUS
      <4>1. pc[q] \in Past
        BY <1>0, <2>0
      <4> QED
        BY <1>0, <1>1, <2>0, <2>5, <4>1, OneIsPast DEF Past
    <3>5. /\ BoughtToday' \subseteq BoughtToday \cup ToBuy(r)
          /\ BoughtToday' \cup ToBuy(r)' \subseteq BoughtToday \cup ToBuy(r)
      BY <2>1, <2>2, <2>5, <3>2
    <3>6. /\ IsFiniteSet(BoughtToday') /\ Allowed(BoughtToday', r)
          /\ IsFiniteSet(BoughtToday' \cup ToBuy(r)') /\ Allowed(BoughtToday' \cup ToBuy(r)', r)
      BY <1>0, <3>3, <3>5, LessIsAllowed
    <3>7. Allowed(BoughtToday, r)' /\ Allowed(BoughtToday \cup ToBuy(r), r)'
      BY <3>3, <3>6 DEF Allowed
    <3>8. Bought
      BY <2>1, <2>5, <3>1, <3>6, <3>7
    <3>9. ToCome(r)
      BY <3>6, <3>7
    <3> QED
      BY <3>4, <3>8, <3>9
  <2>6. CASE r \in Watches
    <3>1. ~IsBuy(cur[r])
      BY <1>0, <2>0, <2>6 DEF WatchInv, IsBuy
    <3> QED
      BY <2>4, <3>1
  <2> QED
    BY <1>o, <2>3, <2>4, <2>5, <2>6
\* A run decides on no more than the rows leave of its limit.
<1>7. ASSUME NEW r \in Jobs, Decided(r)
      PROVE  Bought /\ \A q \in Jobs : pc'[q] \in Past => ToCome(q)
  <2>0. /\ order' = order /\ day' = day /\ pc[r] = "plan" /\ pc'[r] = "load"
        /\ \A q \in Runs \ {r} : pc'[q] = pc[q]
        /\ \A p \in Plans : p[1] # r => plan'[p].side = plan[p].side
        /\ limit'[r] \in Nat
    BY <1>0, <1>t, <1>7 DEF Decided
  <2>1. PICK buys \in SUBSET Symbols :
          /\ buys = {} \/ WithinDailyLimit(buys, limit'[r])
          /\ \A p \in Plans : p[1] = r /\ plan'[p].side = "buy" /\ plan'[p].status # "none"
                                => p[2] \in buys
    BY <1>7 DEF Decided
  <2>2. BoughtToday' = BoughtToday
    <3>1. \A p \in Plans : order[p].status # "none" => p[1] # r
      BY <1>0, <2>0 DEF BegunInv, Begun
    <3> QED
      BY <2>0, <3>1 DEF BoughtToday, IsBuy
  <2>3. \A q \in Jobs : pc'[q] \in Past => q = r
    <3> SUFFICES ASSUME NEW q \in Jobs, pc'[q] \in Past, q # r PROVE FALSE
      OBVIOUS
    <3>1. pc[q] \in Past
      BY <1>0, <2>0
    <3> QED
      BY <1>0, <1>1, <2>0, <3>1, OneIsPast DEF Past
  <2>4. \A q \in Runs : pc[q] = "save" => ~IsBuy(cur[q])
    <3> SUFFICES ASSUME NEW q \in Runs, pc[q] = "save" PROVE ~IsBuy(cur[q])
      OBVIOUS
    <3>1. q \notin Clis
      BY <1>1 DEF ByHand
    <3>2. q \notin Jobs
      BY <1>0, <1>1, <2>0, OneIsPast
    <3> QED
      BY <1>0, <1>o, <3>1, <3>2 DEF WatchInv, HandsHold, IsBuy
  <2>5. IsFiniteSet(BoughtToday) /\ Cardinality(BoughtToday) <= UsedBuys /\ UsedBuys \in Nat
    BY <1>0, <1>1, <2>4, BuysAreCounted
  <2>6. IsFiniteSet(buys)
    BY FS_Subset
  <2>7. IsFiniteSet(ToBuy(r)') /\ Cardinality(ToBuy(r)') <= Cardinality(buys)
    <3> DEFINE sym == [p \in ToBuy(r)' |-> p[2]]
    <3>1. \A p \in ToBuy(r)' : p \in Plans /\ p[1] = r /\ p[2] \in buys
      BY <2>1 DEF ToBuy, IsBuy
    <3>2. sym \in [ToBuy(r)' -> buys]
      BY <3>1
    <3>3. \A p, q \in ToBuy(r)' : p[2] = q[2] => p = q
      BY <3>1, PlanIsOfARun
    <3>4. \A p, q \in ToBuy(r)' : sym[p] = sym[q] => p = q
      BY <3>3
    <3>5. sym \in Injection(ToBuy(r)', buys)
      <4> HIDE DEF sym
      <4> QED
        BY <3>2, <3>4 DEF Injection, IsInjective
    <3> QED
      BY <2>6, <3>5, FS_Injection
  <2>8. Bought
    <3>1. \A p \in BoughtToday : Allowed(BoughtToday, p[1]) => Allowed(BoughtToday, p[1])'
      BY <1>w, <2>2 DEF Allowed
    <3> QED
      BY <1>2, <2>2, <3>1
  <2>9. ToCome(r)
    <3>1. Cardinality(buys) \in Nat /\ Cardinality(BoughtToday) \in Nat /\ Cardinality(ToBuy(r)') \in Nat
      BY <2>5, <2>6, <2>7, FS_CardinalityType
    <3>2. /\ IsFiniteSet(BoughtToday \cup ToBuy(r)')
          /\ Cardinality(BoughtToday \cup ToBuy(r)') \in Nat
          /\ Cardinality(BoughtToday \cup ToBuy(r)') <= Cardinality(BoughtToday) + Cardinality(ToBuy(r)')
      <4>1. /\ IsFiniteSet(BoughtToday \cup ToBuy(r)')
            /\ Cardinality(BoughtToday \cup ToBuy(r)') =
                 Cardinality(BoughtToday) + Cardinality(ToBuy(r)') - Cardinality(BoughtToday \cap ToBuy(r)')
        BY <2>5, <2>7, FS_Union
      <4>2. Cardinality(BoughtToday \cap ToBuy(r)') \in Nat
        BY <2>5, FS_Intersection, FS_CardinalityType
      <4>3. Cardinality(BoughtToday \cup ToBuy(r)') \in Nat
        BY <4>1, FS_CardinalityType
      <4> QED
        BY <3>1, <4>1, <4>2, <4>3
    <3>3. CASE buys = {}
      <4>1. ToBuy(r)' = {}
        BY <2>1, <3>3 DEF ToBuy, IsBuy
      <4> QED
        BY <2>2, <3>2, <4>1
    <3>4. CASE buys # {}
      <4>1. limit'[r] = 0 \/ UsedBuys + Cardinality(buys) <= limit'[r]
        BY <2>0, <2>1, <3>4 DEF WithinDailyLimit
      <4>2. limit'[r] = 0 \/ Cardinality(BoughtToday \cup ToBuy(r)') <= limit'[r]
        BY <2>0, <2>5, <2>7, <3>1, <3>2, <4>1
      <4>3. Allowed(BoughtToday \cup ToBuy(r), r)'
        BY <2>2, <4>2 DEF Allowed
      <4> QED
        BY <2>2, <3>2, <4>3
    <3> QED
      BY <3>3, <3>4
  <2> QED
    BY <2>3, <2>8, <2>9
<1> QED
  BY <1>0, <1>4, <1>5, <1>6, <1>7, StepIsOfAKind

LEMMA LimitInit ==
  ASSUME Init
  PROVE  LimitInv
<1>1. BoughtToday = {} /\ \A r \in Jobs : pc[r] \notin Past
  BY DEF Init, BoughtToday, Past, Runs, Jobs
<1> QED
  BY <1>1, FS_EmptySet DEF LimitInv

\* Whatever limits the runs compute, the buys that the broker gets in a day stay
\* within the limit of one of the runs that bought, or that run had a limit of
\* zero, for any finite universe of symbols, unless a buy could not be recorded,
\* two runs decided at the same time or somebody sent a plan by hand: what is
\* counted is the rows, and the run that decides counts them after every earlier
\* buy has its own.
THEOREM DailyLimitHoldsAlways ==
  ASSUME IsFiniteSet(Symbols)
  PROVE  Spec => []DailyLimitHolds
<1>1. Init => RowInv /\ HeldInv /\ LimitInv
  <2> SUFFICES ASSUME Init PROVE HeldInv
    BY RowInit, LimitInit
  <2> QED
    BY DEF Init, HeldInv
<1>2. OneBuyInv /\ RowInv /\ HeldInv /\ LimitInv /\ [Next]_vars => RowInv' /\ HeldInv' /\ LimitInv'
  BY RowStep, HeldStep, LimitStep DEF OneBuyInv
<1>3. LimitInv => DailyLimitHolds
  BY DEF LimitInv, DailyLimitHolds
<1> QED
  BY <1>1, <1>2, <1>3, OneBuyInvHolds, PTL DEF Spec

=============================================================================
