------------------------ MODULE StrategyPromotionProofs ------------------------
(***************************************************************************)
(* Proofs about StrategyPromotion: for any strategies, windows, starters   *)
(* and budgets.  What is said of the quota and of the champions is proved  *)
(* for one evaluation at a time, which is what the nightly review is.      *)
(***************************************************************************)
EXTENDS StrategyPromotion, FiniteSetTheorems, WellFoundedInduction, TLAPS

-----------------------------------------------------------------------------
(* Facts about sets.                                                       *)

\* Of finitely many elements in a strict order one has nothing before it.
LEMMA MaximalElement ==
  ASSUME NEW A, IsFiniteSet(A), A # {}, NEW R,
         \A x \in A : <<x, x>> \notin R,
         \A x, y, z \in A : <<x, y>> \in R /\ <<y, z>> \in R => <<x, z>> \in R
  PROVE  \E x \in A : \A y \in A : <<y, x>> \notin R
<1> DEFINE dom(x) == {y \in A : <<x, y>> \in R}
           rest(x) == A \ dom(x)
           T == {Cardinality(rest(x)) : x \in A}
<1>1. \A x \in A : IsFiniteSet(rest(x)) /\ Cardinality(rest(x)) \in Nat
  BY FS_Subset, FS_CardinalityType
<1>2. T \subseteq Nat /\ T # {}
  <2> HIDE DEF rest
  <2> QED
    BY <1>1
<1>3. PICK n \in T : \A m \in T : ~(m < n)
  <2>1. PICK n \in T : \A m \in T : <<m, n>> \notin OpToRel(<, Nat)
    BY <1>2, WFMin, NatLessThanWellFounded
  <2> HIDE DEF T
  <2>2. \A m \in T : ~(m < n)
    BY <2>1, <1>2 DEF OpToRel
  <2> QED
    BY <2>2
<1>4. PICK x \in A : n = Cardinality(rest(x))
  BY <1>3
<1>5. SUFFICES ASSUME NEW y \in A, <<y, x>> \in R PROVE FALSE
  BY <1>4
<1>6. rest(y) \subseteq rest(x) /\ x \in rest(x) /\ x \notin rest(y)
  BY <1>5
<1>7. Cardinality(rest(y)) < Cardinality(rest(x))
  <2> HIDE DEF rest
  <2>1. Cardinality(rest(y)) <= Cardinality(rest(x)) /\ Cardinality(rest(y)) # Cardinality(rest(x))
    BY <1>1, <1>6, FS_Subset
  <2> QED
    BY <2>1, <1>1
<1>8. Cardinality(rest(y)) \in T
  OBVIOUS
<1> HIDE DEF rest, T
<1> QED
  BY <1>3, <1>4, <1>7, <1>8

\* The windows with a status are finitely many.
LEMMA InIsFinite ==
  ASSUME NEW s
  PROVE  In(s) \subseteq Windows /\ IsFiniteSet(In(s)) /\ Cardinality(In(s)) \in Nat
<1>1. In(s) \subseteq Windows
  BY DEF In
<1> QED
  BY <1>1, PromotionAssumption, FS_Subset, FS_CardinalityType

-----------------------------------------------------------------------------
(* Types.                                                                  *)

\* The windows, the registry and the actors keep their types.
LEMMA SetStatusType ==
  ASSUME TypeOK, NEW s \in Strategies, NEW new \in {"ACTIVE", "SHADOW", "RETIRED"}, SetStatus(s, new)
  PROVE  status' \in [Strategies -> RowStatuses] /\ later' \subseteq Strategies \X Strategies
BY DEF TypeOK, SetStatus, RowStatuses, Touched, Without, Active

\* Every step keeps the types.
LEMMA TypeStep ==
  ASSUME TypeOK, [Next]_vars
  PROVE  TypeOK'
<1>1. ASSUME NEW k \in Starters, NEW s \in Strategies, MarkShadow(k, s) PROVE TypeOK'
  BY <1>1
    DEF MarkShadow, Begin, Without, TypeOK, RowStatuses, registryVars, windowVars, evalVars,
      starterVars, history
<1>2. ASSUME NEW k \in Starters, NEW s \in Strategies, MarkFails(k, s) PROVE TypeOK'
  BY <1>2, PromotionAssumption
    DEF MarkFails, Begin, Fault, TypeOK, RowStatuses, registryVars, windowVars, evalVars,
      starterVars, history
<1>3. ASSUME NEW k \in Starters, CountOpen(k) PROVE TypeOK'
  BY <1>3
  DEF CountOpen, TypeOK, RowStatuses, registryVars, windowVars, evalVars, starterVars, history
<1>4. ASSUME NEW k \in Starters, NEW w \in Windows, InsertWindow(k, w) PROVE TypeOK'
  BY <1>4, PromotionAssumption
    DEF InsertWindow, StarterOff, Touched, TypeOK, RowStatuses, registryVars, windowVars,
      evalVars, starterVars, history, Unresolved, In
<1>5. ASSUME NEW k \in Starters, StarterEnds(k) PROVE TypeOK'
  BY <1>5, PromotionAssumption
    DEF StarterEnds, StarterOff, TypeOK, RowStatuses, registryVars, windowVars, evalVars,
      starterVars, history
<1>6. ASSUME NEW e \in Evaluators, BeginEvaluation(e) PROVE TypeOK'
  BY <1>6, InIsFinite
    DEF BeginEvaluation, At, Goto, TypeOK, RowStatuses, registryVars, windowVars, evalVars,
      starterVars, history
<1>7. ASSUME NEW e \in Evaluators, ReadQueued(e) PROVE TypeOK'
  BY <1>7
    DEF ReadQueued, At, Goto, In, TypeOK, RowStatuses, registryVars, windowVars, evalVars,
      starterVars, history
<1>8. ASSUME NEW e \in Evaluators, NEW w \in Windows, ActivateQueued(e, w) PROVE TypeOK'
  BY <1>8
    DEF ActivateQueued, At, Resolve, Touched, Newest, TypeOK, RowStatuses, registryVars,
      windowVars, evalVars, starterVars, history, Unresolved, In
<1>9. ASSUME NEW e \in Evaluators, EndActivation(e) PROVE TypeOK'
  BY <1>9
    DEF EndActivation, At, Goto, TypeOK, RowStatuses, registryVars, windowVars, evalVars,
      starterVars, history
<1>10. ASSUME NEW e \in Evaluators, ReadBudget(e) PROVE TypeOK'
  BY <1>10, InIsFinite, PromotionAssumption
    DEF ReadBudget, At, Goto, TypeOK, RowStatuses, registryVars, windowVars, evalVars,
      starterVars, history
<1>11. ASSUME NEW e \in Evaluators, ReadOpen(e) PROVE TypeOK'
  BY <1>11
    DEF ReadOpen, At, Goto, In, TypeOK, RowStatuses, registryVars, windowVars, evalVars,
      starterVars, history
<1>12. ASSUME NEW e \in Evaluators, NEW w \in Windows, Extend(e, w) PROVE TypeOK'
  BY <1>12
    DEF Extend, IsNext, At, Newest, TypeOK, RowStatuses, registryVars, windowVars, evalVars,
      starterVars, history
<1>13. ASSUME NEW e \in Evaluators, NEW w \in Windows, Reject(e, w) PROVE TypeOK'
  BY <1>13
    DEF Reject, IsNext, At, Goto, Newest, Resolve, Without, TypeOK, RowStatuses, registryVars,
      windowVars, evalVars, starterVars, history
<1>14. ASSUME NEW e \in Evaluators, NEW w \in Windows, Wait(e, w) PROVE TypeOK'
  BY <1>14
    DEF Wait, IsNext, At, Newest, TypeOK, RowStatuses, registryVars, windowVars, evalVars,
      starterVars, history
<1>15. ASSUME NEW e \in Evaluators, NEW w \in Windows, Win(e, w) PROVE TypeOK'
  BY <1>15, PromotionAssumption
    DEF Win, Wins, IsNext, At, Goto, Newest, TypeOK, RowStatuses, registryVars, windowVars, evalVars,
      starterVars, history, Champions, Active
<1>16. ASSUME NEW e \in Evaluators, Retire(e) PROVE TypeOK'
  BY <1>16, SetStatusType
    DEF Retire, At, Goto, TypeOK, RowStatuses, registryVars, windowVars, evalVars, starterVars,
      history, Named
<1>17. ASSUME NEW e \in Evaluators, Activate(e) PROVE TypeOK'
  BY <1>17, SetStatusType
    DEF Activate, At, Goto, TypeOK, RowStatuses, registryVars, windowVars, evalVars,
      starterVars, history, Named
<1>18. ASSUME NEW e \in Evaluators, Demote(e) PROVE TypeOK'
  BY <1>18, SetStatusType
    DEF Demote, At, Goto, TypeOK, RowStatuses, registryVars, windowVars, evalVars, starterVars,
      history
<1>19. ASSUME NEW e \in Evaluators, Promote(e) PROVE TypeOK'
  BY <1>19
    DEF Promote, At, Goto, Resolve, Without, TypeOK, RowStatuses, registryVars, windowVars,
      evalVars, starterVars, history
<1>20. ASSUME NEW e \in Evaluators, EndEvaluation(e) PROVE TypeOK'
  BY <1>20, PromotionAssumption
    DEF EndEvaluation, At, Goto, Ended, TypeOK, RowStatuses, registryVars, windowVars, evalVars,
      starterVars, history
<1>21. ASSUME NEW e \in Evaluators, RetireFails(e) PROVE TypeOK'
  BY <1>21, PromotionAssumption
    DEF RetireFails, At, Goto, Fault, TypeOK, RowStatuses, registryVars, windowVars, evalVars,
      starterVars, history
<1>22. ASSUME NEW e \in Evaluators, ReplaceFails(e) PROVE TypeOK'
  BY <1>22, PromotionAssumption
    DEF ReplaceFails, At, Goto, Fault, TypeOK, RowStatuses, registryVars, windowVars, evalVars,
      starterVars, history
<1>23. ASSUME NEW e \in Evaluators, Crash(e) PROVE TypeOK'
  BY <1>23, PromotionAssumption
    DEF Crash, At, Goto, Ended, Fault, TypeOK, RowStatuses, registryVars, windowVars, evalVars,
      starterVars, history, Named
<1>24. ASSUME NEW w \in Windows, Ripen(w) PROVE TypeOK'
  BY <1>24
    DEF Ripen, Unresolved, In, TypeOK, RowStatuses, registryVars, windowVars, evalVars,
      starterVars, history
<1>25. ASSUME NEW s \in Strategies, NEW new \in {"ACTIVE", "SHADOW", "RETIRED"}, SetByHand(s, new)
     PROVE  TypeOK'
  BY <1>25, PromotionAssumption
    DEF SetByHand, Fault, Touched, Without, TypeOK, RowStatuses, registryVars, windowVars,
      evalVars, starterVars, history, Active
<1>26. ASSUME NextWeek PROVE TypeOK'
  BY <1>26
    DEF NextWeek, At, Unresolved, In, TypeOK, RowStatuses, registryVars, windowVars, evalVars,
      starterVars, history
<1>27. ASSUME UNCHANGED vars PROVE TypeOK'
  BY <1>27 DEF vars, TypeOK, RowStatuses
<1>28. ASSUME NEW e \in Evaluators, NEW w \in Windows, WinUnread(e, w) PROVE TypeOK'
  BY <1>28, PromotionAssumption
    DEF WinUnread, Wins, Fault, IsNext, At, Goto, Newest, TypeOK, RowStatuses, registryVars, windowVars, evalVars,
      starterVars, history, Champions, Active
<1> QED
  BY <1>1, <1>2, <1>3, <1>4, <1>5, <1>6, <1>7, <1>8, <1>9, <1>10, <1>11, <1>12, <1>13,
     <1>14, <1>15, <1>16, <1>17, <1>18, <1>19, <1>20, <1>21, <1>22, <1>23, <1>24, <1>25,
     <1>26, <1>27, <1>28 DEF Next, Starter, Evaluate, Faulty

\* Every variable of the promotion keeps its type, for any strategies, windows,
\* processes and budgets.
THEOREM PromotionTypeCorrect == Spec => []TypeOK
<1>1. Init => TypeOK
  BY PromotionAssumption DEF Init, TypeOK, RowStatuses
<1>2. TypeOK /\ [Next]_vars => TypeOK'
  BY TypeStep
<1> QED
  BY <1>1, <1>2, PTL DEF Spec

-----------------------------------------------------------------------------
(* The quota of the week.                                                  *)

\* There is one evaluation at a time.
Lone == \A e, f \in Evaluators : e = f

Promoting(e) == pc[e] \in {"activate", "demote", "promoted"}

\* What is promoted, what the evaluation is promoting and what it may still
\* promote are within the quota.
QuotaInv ==
  /\ WeeklyBudgetHolds
  /\ \A e \in Evaluators :
       /\ pc[e] \in {"open", "judge", "retire"} => Cardinality(In("PROMOTED")) + left[e] <= MaxPerWeek
       /\ Promoting(e) => Cardinality(In("PROMOTED")) + left[e] + 1 <= MaxPerWeek

\* Only Promote promotes a window.
LEMMA OnlyPromotePromotes ==
  ASSUME TypeOK, [Next]_vars, ~ \E e \in Evaluators : Promote(e)
  PROVE  In("PROMOTED")' \subseteq In("PROMOTED")
<1>1. ASSUME NEW k \in Starters, NEW s \in Strategies, MarkShadow(k, s)
     PROVE  In("PROMOTED")' \subseteq In("PROMOTED")
  BY <1>1
    DEF MarkShadow, Begin, Without, TypeOK, In, registryVars, windowVars, evalVars, starterVars,
      history
<1>2. ASSUME NEW k \in Starters, NEW s \in Strategies, MarkFails(k, s)
     PROVE  In("PROMOTED")' \subseteq In("PROMOTED")
  BY <1>2
    DEF MarkFails, Begin, Fault, TypeOK, In, registryVars, windowVars, evalVars, starterVars,
      history
<1>3. ASSUME NEW k \in Starters, CountOpen(k) PROVE In("PROMOTED")' \subseteq In("PROMOTED")
  BY <1>3
  DEF CountOpen, TypeOK, In, registryVars, windowVars, evalVars, starterVars, history
<1>4. ASSUME NEW k \in Starters, NEW w \in Windows, InsertWindow(k, w)
     PROVE  In("PROMOTED")' \subseteq In("PROMOTED")
  BY <1>4
    DEF InsertWindow, StarterOff, Touched, TypeOK, In, registryVars, windowVars, evalVars,
      starterVars, history
<1>5. ASSUME NEW k \in Starters, StarterEnds(k) PROVE In("PROMOTED")' \subseteq In("PROMOTED")
  BY <1>5
    DEF StarterEnds, StarterOff, TypeOK, In, registryVars, windowVars, evalVars, starterVars,
      history
<1>6. ASSUME NEW e \in Evaluators, BeginEvaluation(e)
     PROVE  In("PROMOTED")' \subseteq In("PROMOTED")
  BY <1>6
    DEF BeginEvaluation, At, Goto, TypeOK, In, registryVars, windowVars, evalVars, starterVars,
      history
<1>7. ASSUME NEW e \in Evaluators, ReadQueued(e) PROVE In("PROMOTED")' \subseteq In("PROMOTED")
  BY <1>7
  DEF ReadQueued, At, Goto, In, TypeOK, registryVars, windowVars, evalVars, starterVars, history
<1>8. ASSUME NEW e \in Evaluators, NEW w \in Windows, ActivateQueued(e, w)
     PROVE  In("PROMOTED")' \subseteq In("PROMOTED")
  BY <1>8
    DEF ActivateQueued, At, Resolve, Touched, Newest, TypeOK, In, registryVars, windowVars,
      evalVars, starterVars, history
<1>9. ASSUME NEW e \in Evaluators, EndActivation(e)
     PROVE  In("PROMOTED")' \subseteq In("PROMOTED")
  BY <1>9
    DEF EndActivation, At, Goto, TypeOK, In, registryVars, windowVars, evalVars, starterVars,
      history
<1>10. ASSUME NEW e \in Evaluators, ReadBudget(e) PROVE In("PROMOTED")' \subseteq In("PROMOTED")
  BY <1>10
  DEF ReadBudget, At, Goto, TypeOK, In, registryVars, windowVars, evalVars, starterVars, history
<1>11. ASSUME NEW e \in Evaluators, ReadOpen(e) PROVE In("PROMOTED")' \subseteq In("PROMOTED")
  BY <1>11
  DEF ReadOpen, At, Goto, In, TypeOK, registryVars, windowVars, evalVars, starterVars, history
<1>12. ASSUME NEW e \in Evaluators, NEW w \in Windows, Extend(e, w)
     PROVE  In("PROMOTED")' \subseteq In("PROMOTED")
  BY <1>12
    DEF Extend, IsNext, At, Newest, TypeOK, In, registryVars, windowVars, evalVars, starterVars,
      history
<1>13. ASSUME NEW e \in Evaluators, NEW w \in Windows, Reject(e, w)
     PROVE  In("PROMOTED")' \subseteq In("PROMOTED")
  BY <1>13
    DEF Reject, IsNext, At, Goto, Newest, Resolve, Without, TypeOK, In, registryVars,
      windowVars, evalVars, starterVars, history
<1>14. ASSUME NEW e \in Evaluators, NEW w \in Windows, Wait(e, w)
     PROVE  In("PROMOTED")' \subseteq In("PROMOTED")
  BY <1>14
    DEF Wait, IsNext, At, Newest, TypeOK, In, registryVars, windowVars, evalVars, starterVars,
      history
<1>15. ASSUME NEW e \in Evaluators, NEW w \in Windows, Win(e, w)
     PROVE  In("PROMOTED")' \subseteq In("PROMOTED")
  BY <1>15
    DEF Win, Wins, IsNext, At, Goto, Newest, TypeOK, In, registryVars, windowVars, evalVars,
      starterVars, history
<1>16. ASSUME NEW e \in Evaluators, Retire(e) PROVE In("PROMOTED")' \subseteq In("PROMOTED")
  BY <1>16
  DEF Retire, At, Goto, TypeOK, In, registryVars, windowVars, evalVars, starterVars, history
<1>17. ASSUME NEW e \in Evaluators, Activate(e) PROVE In("PROMOTED")' \subseteq In("PROMOTED")
  BY <1>17
  DEF Activate, At, Goto, TypeOK, In, registryVars, windowVars, evalVars, starterVars, history
<1>18. ASSUME NEW e \in Evaluators, Demote(e) PROVE In("PROMOTED")' \subseteq In("PROMOTED")
  BY <1>18
  DEF Demote, At, Goto, TypeOK, In, registryVars, windowVars, evalVars, starterVars, history
<1>19. ASSUME NEW e \in Evaluators, Promote(e) PROVE In("PROMOTED")' \subseteq In("PROMOTED")
  BY <1>19
<1>20. ASSUME NEW e \in Evaluators, EndEvaluation(e)
     PROVE  In("PROMOTED")' \subseteq In("PROMOTED")
  BY <1>20
    DEF EndEvaluation, At, Goto, Ended, TypeOK, In, registryVars, windowVars, evalVars,
      starterVars, history
<1>21. ASSUME NEW e \in Evaluators, RetireFails(e)
     PROVE  In("PROMOTED")' \subseteq In("PROMOTED")
  BY <1>21
    DEF RetireFails, At, Goto, Fault, TypeOK, In, registryVars, windowVars, evalVars,
      starterVars, history
<1>22. ASSUME NEW e \in Evaluators, ReplaceFails(e)
     PROVE  In("PROMOTED")' \subseteq In("PROMOTED")
  BY <1>22
    DEF ReplaceFails, At, Goto, Fault, TypeOK, In, registryVars, windowVars, evalVars,
      starterVars, history
<1>23. ASSUME NEW e \in Evaluators, Crash(e) PROVE In("PROMOTED")' \subseteq In("PROMOTED")
  BY <1>23
    DEF Crash, At, Goto, Ended, Fault, TypeOK, In, registryVars, windowVars, evalVars,
      starterVars, history
<1>24. ASSUME NEW w \in Windows, Ripen(w) PROVE In("PROMOTED")' \subseteq In("PROMOTED")
  BY <1>24
  DEF Ripen, Unresolved, In, TypeOK, registryVars, windowVars, evalVars, starterVars, history
<1>25. ASSUME NEW s \in Strategies, NEW new \in {"ACTIVE", "SHADOW", "RETIRED"}, SetByHand(s, new)
     PROVE  In("PROMOTED")' \subseteq In("PROMOTED")
  BY <1>25
    DEF SetByHand, Fault, Touched, Without, TypeOK, In, registryVars, windowVars, evalVars,
      starterVars, history
<1>26. ASSUME NextWeek PROVE In("PROMOTED")' \subseteq In("PROMOTED")
  BY <1>26
    DEF NextWeek, At, Unresolved, In, TypeOK, registryVars, windowVars, evalVars, starterVars,
      history
<1>27. ASSUME UNCHANGED vars PROVE In("PROMOTED")' \subseteq In("PROMOTED")
  BY <1>27 DEF vars, TypeOK, In
<1>28. ASSUME NEW e \in Evaluators, NEW w \in Windows, WinUnread(e, w)
     PROVE  In("PROMOTED")' \subseteq In("PROMOTED")
  BY <1>28
    DEF WinUnread, Wins, Fault, IsNext, At, Goto, Newest, TypeOK, In, registryVars, windowVars, evalVars,
      starterVars, history
<1> QED
  BY <1>1, <1>2, <1>3, <1>4, <1>5, <1>6, <1>7, <1>8, <1>9, <1>10, <1>11, <1>12, <1>13,
     <1>14, <1>15, <1>16, <1>17, <1>18, <1>19, <1>20, <1>21, <1>22, <1>23, <1>24, <1>25,
     <1>26, <1>27, <1>28 DEF Next, Starter, Evaluate, Faulty

\* One element more.
LEMMA OneMore ==
  ASSUME NEW S, NEW x, IsFiniteSet(S)
  PROVE  /\ IsFiniteSet(S \cup {x}) /\ Cardinality(S) \in Nat
         /\ Cardinality(S \cup {x}) \in Nat /\ Cardinality(S \cup {x}) <= Cardinality(S) + 1
<1>1. IsFiniteSet(S \cup {x}) /\ Cardinality(S \cup {x}) \in Nat /\ Cardinality(S) \in Nat
  BY FS_AddElement, FS_CardinalityType
<1>2. Cardinality(S \cup {x}) = IF x \in S THEN Cardinality(S) ELSE Cardinality(S) + 1
  BY FS_AddElement
<1> QED
  BY <1>1, <1>2

\* Fewer windows are not more of them.
LEMMA FewerWindows ==
  ASSUME NEW s, NEW S, IsFiniteSet(S), In(s)' \subseteq S
  PROVE  Cardinality(In(s)') <= Cardinality(S) /\ Cardinality(In(s)') \in Nat
BY FS_Subset, FS_CardinalityType

\* A step of anything but Promote keeps the quota.
LEMMA QuotaStep ==
  ASSUME TypeOK, QuotaInv, Lone, [Next]_vars, ~ \E e \in Evaluators : Promote(e)
  PROVE  QuotaInv'
<1> DEFINE n == Cardinality(In("PROMOTED"))
           m == Cardinality(In("PROMOTED")')
<1>a. n \in Nat /\ m \in Nat /\ m <= n
  BY OnlyPromotePromotes, FewerWindows, InIsFinite
<1>b. n <= MaxPerWeek
  BY DEF QuotaInv, WeeklyBudgetHolds
<1>c. MaxPerWeek \in Nat
  BY PromotionAssumption
<1>d. \A e \in Evaluators : left[e] \in Nat /\ left'[e] \in Nat
  BY TypeStep, PromotionAssumption DEF TypeOK
<1>e. \A e \in Evaluators :
        /\ pc[e] \in {"open", "judge", "retire"} => n + left[e] <= MaxPerWeek
        /\ Promoting(e) => n + left[e] + 1 <= MaxPerWeek
  BY DEF QuotaInv
<1> HIDE DEF n, m
<1> DEFINE Inside(f) ==
             /\ pc'[f] \in {"open", "judge", "retire"} => m + left'[f] <= MaxPerWeek
             /\ pc'[f] \in {"activate", "demote", "promoted"} => m + left'[f] + 1 <= MaxPerWeek
<1>f. SUFFICES ASSUME NEW f \in Evaluators
               PROVE  Inside(f)
  <2>1. m <= MaxPerWeek
    BY <1>a, <1>b, <1>c
  <2> QED
    BY <1>f, <2>1 DEF QuotaInv, WeeklyBudgetHolds, Promoting, m
<1>1. ASSUME NEW k \in Starters, NEW s \in Strategies, MarkShadow(k, s) PROVE Inside(f)
  BY <1>1, <1>a, <1>b, <1>c, <1>d, <1>e
    DEF MarkShadow, Begin, Without, TypeOK, Lone, Promoting, registryVars, windowVars, evalVars,
      starterVars, history
<1>2. ASSUME NEW k \in Starters, NEW s \in Strategies, MarkFails(k, s) PROVE Inside(f)
  BY <1>2, <1>a, <1>b, <1>c, <1>d, <1>e
    DEF MarkFails, Begin, Fault, TypeOK, Lone, Promoting, registryVars, windowVars, evalVars,
      starterVars, history
<1>3. ASSUME NEW k \in Starters, CountOpen(k) PROVE Inside(f)
  BY <1>3, <1>a, <1>b, <1>c, <1>d, <1>e
    DEF CountOpen, TypeOK, Lone, Promoting, registryVars, windowVars, evalVars, starterVars,
      history
<1>4. ASSUME NEW k \in Starters, NEW w \in Windows, InsertWindow(k, w) PROVE Inside(f)
  BY <1>4, <1>a, <1>b, <1>c, <1>d, <1>e
    DEF InsertWindow, StarterOff, Touched, TypeOK, Lone, Promoting, registryVars, windowVars,
      evalVars, starterVars, history
<1>5. ASSUME NEW k \in Starters, StarterEnds(k) PROVE Inside(f)
  BY <1>5, <1>a, <1>b, <1>c, <1>d, <1>e
    DEF StarterEnds, StarterOff, TypeOK, Lone, Promoting, registryVars, windowVars, evalVars,
      starterVars, history
<1>6. ASSUME NEW e \in Evaluators, BeginEvaluation(e) PROVE Inside(f)
  BY <1>6, <1>a, <1>b, <1>c, <1>d, <1>e
    DEF BeginEvaluation, At, Goto, TypeOK, Lone, Promoting, registryVars, windowVars, evalVars,
      starterVars, history
<1>7. ASSUME NEW e \in Evaluators, ReadQueued(e) PROVE Inside(f)
  BY <1>7, <1>a, <1>b, <1>c, <1>d, <1>e
    DEF ReadQueued, At, Goto, In, TypeOK, Lone, Promoting, registryVars, windowVars, evalVars,
      starterVars, history
<1>8. ASSUME NEW e \in Evaluators, NEW w \in Windows, ActivateQueued(e, w) PROVE Inside(f)
  BY <1>8, <1>a, <1>b, <1>c, <1>d, <1>e
    DEF ActivateQueued, At, Resolve, Touched, Newest, TypeOK, Lone, Promoting, registryVars,
      windowVars, evalVars, starterVars, history
<1>9. ASSUME NEW e \in Evaluators, EndActivation(e) PROVE Inside(f)
  BY <1>9, <1>a, <1>b, <1>c, <1>d, <1>e
    DEF EndActivation, At, Goto, TypeOK, Lone, Promoting, registryVars, windowVars, evalVars,
      starterVars, history
<1>10. ASSUME NEW e \in Evaluators, ReadBudget(e) PROVE Inside(f)
  <2>1. left'[f] = IF n >= MaxPerWeek THEN 0 ELSE MaxPerWeek - n
    BY <1>10, <1>f DEF ReadBudget, Lone, TypeOK, n
  <2>2. pc'[f] = "open"
    BY <1>10, <1>f DEF ReadBudget, Goto, Lone, TypeOK
  <2> QED
    BY <2>1, <2>2, <1>a, <1>b, <1>c
<1>11. ASSUME NEW e \in Evaluators, ReadOpen(e) PROVE Inside(f)
  BY <1>11, <1>a, <1>b, <1>c, <1>d, <1>e
    DEF ReadOpen, At, Goto, In, TypeOK, Lone, Promoting, registryVars, windowVars, evalVars,
      starterVars, history
<1>12. ASSUME NEW e \in Evaluators, NEW w \in Windows, Extend(e, w) PROVE Inside(f)
  BY <1>12, <1>a, <1>b, <1>c, <1>d, <1>e
    DEF Extend, IsNext, At, Newest, TypeOK, Lone, Promoting, registryVars, windowVars, evalVars,
      starterVars, history
<1>13. ASSUME NEW e \in Evaluators, NEW w \in Windows, Reject(e, w) PROVE Inside(f)
  BY <1>13, <1>a, <1>b, <1>c, <1>d, <1>e
    DEF Reject, IsNext, At, Goto, Newest, Resolve, Without, TypeOK, Lone, Promoting,
      registryVars, windowVars, evalVars, starterVars, history
<1>14. ASSUME NEW e \in Evaluators, NEW w \in Windows, Wait(e, w) PROVE Inside(f)
  BY <1>14, <1>a, <1>b, <1>c, <1>d, <1>e
    DEF Wait, IsNext, At, Newest, TypeOK, Lone, Promoting, registryVars, windowVars, evalVars,
      starterVars, history
<1>15. ASSUME NEW e \in Evaluators, NEW w \in Windows, Win(e, w) PROVE Inside(f)
  BY <1>15, <1>a, <1>b, <1>c, <1>d, <1>e
    DEF Win, Wins, IsNext, At, Goto, Newest, TypeOK, Lone, Promoting, registryVars, windowVars,
      evalVars, starterVars, history
<1>16. ASSUME NEW e \in Evaluators, Retire(e) PROVE Inside(f)
  BY <1>16, <1>a, <1>b, <1>c, <1>d, <1>e
    DEF Retire, At, Goto, TypeOK, Lone, Promoting, registryVars, windowVars, evalVars,
      starterVars, history
<1>17. ASSUME NEW e \in Evaluators, Activate(e) PROVE Inside(f)
  BY <1>17, <1>a, <1>b, <1>c, <1>d, <1>e
    DEF Activate, At, Goto, TypeOK, Lone, Promoting, registryVars, windowVars, evalVars,
      starterVars, history
<1>18. ASSUME NEW e \in Evaluators, Demote(e) PROVE Inside(f)
  BY <1>18, <1>a, <1>b, <1>c, <1>d, <1>e
    DEF Demote, At, Goto, TypeOK, Lone, Promoting, registryVars, windowVars, evalVars,
      starterVars, history
<1>19. ASSUME NEW e \in Evaluators, Promote(e) PROVE Inside(f)
  BY <1>19
<1>20. ASSUME NEW e \in Evaluators, EndEvaluation(e) PROVE Inside(f)
  BY <1>20, <1>a, <1>b, <1>c, <1>d, <1>e
    DEF EndEvaluation, At, Goto, Ended, TypeOK, Lone, Promoting, registryVars, windowVars,
      evalVars, starterVars, history
<1>21. ASSUME NEW e \in Evaluators, RetireFails(e) PROVE Inside(f)
  BY <1>21, <1>a, <1>b, <1>c, <1>d, <1>e
    DEF RetireFails, At, Goto, Fault, TypeOK, Lone, Promoting, registryVars, windowVars,
      evalVars, starterVars, history
<1>22. ASSUME NEW e \in Evaluators, ReplaceFails(e) PROVE Inside(f)
  BY <1>22, <1>a, <1>b, <1>c, <1>d, <1>e
    DEF ReplaceFails, At, Goto, Fault, TypeOK, Lone, Promoting, registryVars, windowVars,
      evalVars, starterVars, history
<1>23. ASSUME NEW e \in Evaluators, Crash(e) PROVE Inside(f)
  BY <1>23, <1>a, <1>b, <1>c, <1>d, <1>e
    DEF Crash, At, Goto, Ended, Fault, TypeOK, Lone, Promoting, registryVars, windowVars,
      evalVars, starterVars, history
<1>24. ASSUME NEW w \in Windows, Ripen(w) PROVE Inside(f)
  BY <1>24, <1>a, <1>b, <1>c, <1>d, <1>e
    DEF Ripen, Unresolved, In, TypeOK, Lone, Promoting, registryVars, windowVars, evalVars,
      starterVars, history
<1>25. ASSUME NEW s \in Strategies, NEW new \in {"ACTIVE", "SHADOW", "RETIRED"}, SetByHand(s, new)
     PROVE  Inside(f)
  BY <1>25, <1>a, <1>b, <1>c, <1>d, <1>e
    DEF SetByHand, Fault, Touched, Without, TypeOK, Lone, Promoting, registryVars, windowVars,
      evalVars, starterVars, history
<1>26. ASSUME NextWeek PROVE Inside(f)
  BY <1>26, <1>a, <1>b, <1>c, <1>d, <1>e
    DEF NextWeek, At, Unresolved, In, TypeOK, Lone, Promoting, registryVars, windowVars,
      evalVars, starterVars, history
<1>27. ASSUME UNCHANGED vars PROVE Inside(f)
  BY <1>27, <1>a, <1>b, <1>c, <1>d, <1>e DEF vars, TypeOK, Lone, Promoting
<1>28. ASSUME NEW e \in Evaluators, NEW w \in Windows, WinUnread(e, w) PROVE Inside(f)
  BY <1>28, <1>a, <1>b, <1>c, <1>d, <1>e
    DEF WinUnread, Wins, Fault, IsNext, At, Goto, Newest, TypeOK, Lone, Promoting, registryVars, windowVars,
      evalVars, starterVars, history
<1> QED
  BY <1>1, <1>2, <1>3, <1>4, <1>5, <1>6, <1>7, <1>8, <1>9, <1>10, <1>11, <1>12, <1>13,
     <1>14, <1>15, <1>16, <1>17, <1>18, <1>19, <1>20, <1>21, <1>22, <1>23, <1>24, <1>25,
     <1>26, <1>27, <1>28 DEF Next, Starter, Evaluate, Faulty

\* Promote uses up what was taken for it.
LEMMA QuotaPromote ==
  ASSUME TypeOK, QuotaInv, Lone, NEW e \in Evaluators, Promote(e)
  PROVE  QuotaInv'
<1> DEFINE n == Cardinality(In("PROMOTED"))
           m == Cardinality(In("PROMOTED")')
<1>1. PICK w \in cur[e] : In("PROMOTED")' \subseteq In("PROMOTED") \cup {w}
  BY DEF Promote, Resolve, In, TypeOK
<1>2. m <= n + 1 /\ m \in Nat /\ n \in Nat
  <2> DEFINE S == In("PROMOTED") \cup {w}
  <2>1. IsFiniteSet(S) /\ Cardinality(S) <= n + 1 /\ Cardinality(S) \in Nat /\ n \in Nat
    BY InIsFinite, OneMore
  <2>2. m <= Cardinality(S) /\ m \in Nat
    BY <1>1, <2>1, FewerWindows
  <2> HIDE DEF S, n, m
  <2> QED
    BY <2>1, <2>2
<1>3. n + left[e] + 1 <= MaxPerWeek /\ left[e] \in Nat /\ MaxPerWeek \in Nat
  BY PromotionAssumption DEF QuotaInv, Promote, At, Promoting, TypeOK
<1>4. m + left[e] <= MaxPerWeek /\ m <= MaxPerWeek
  <2> HIDE DEF n, m
  <2> QED
    BY <1>2, <1>3
<1>5. \A f \in Evaluators : f = e /\ pc'[f] = "judge" /\ left'[f] = left[e]
  BY DEF Promote, Goto, Lone, TypeOK
<1> QED
  BY <1>4, <1>5 DEF QuotaInv, WeeklyBudgetHolds, Promoting

\* With one evaluation at a time a week never sees more promotions than its
\* quota, through crashes, failed writes and windows that are judged again.
THEOREM WeeklyBudgetIsKept ==
  ASSUME Lone
  PROVE  Spec => []WeeklyBudgetHolds
<1>1. Init => QuotaInv
  <2>1. ASSUME Init PROVE In("PROMOTED") = {} /\ \A e \in Evaluators : pc[e] = "off"
    BY <2>1 DEF Init, In
  <2> QED
    BY <2>1, FS_EmptySet, PromotionAssumption DEF QuotaInv, WeeklyBudgetHolds, Promoting
<1>2. TypeOK /\ QuotaInv /\ [Next]_vars => QuotaInv'
  BY QuotaStep, QuotaPromote
<1>3. QuotaInv => WeeklyBudgetHolds
  BY DEF QuotaInv
<1> QED
  BY <1>1, <1>2, <1>3, PromotionTypeCorrect, PTL DEF Spec

-----------------------------------------------------------------------------
(* The champion that no rejection retires.                                 *)

\* What an evaluation has in hand is what the windows say.
HandInv ==
  \A e \in Evaluators :
    /\ pc[e] = "activate_queued" => todo[e] \subseteq In("QUEUED")
    /\ pc[e] \in {"judge", "retire"} \/ Promoting(e) => todo[e] \subseteq In("OPEN")
    /\ Promoting(e) => cur[e] \subseteq In("OPEN") \ todo[e]
    /\ pc[e] = "retire" => cur[e] \subseteq In("REJECTED_SHADOW")
    /\ \A v, w \in cur[e] : v = w

\* Two windows, or a window and a starter, share a strategy only when it is
\* irregular.
SharedInv ==
  /\ \A v, w \in Unresolved : v # w /\ strategy[v] = strategy[w] => strategy[w] \in irregular
  /\ \A w \in Unresolved, k \in Starters :
       at[k] # "off" /\ name[k] = strategy[w] => strategy[w] \in irregular
  /\ \A j, k \in Starters :
       j # k /\ at[j] # "off" /\ at[k] # "off" /\ name[j] = name[k] => name[k] \in irregular

\* A strategy whose window is open or on its way is not active, unless it is
\* irregular or being promoted.
ActiveInv ==
  /\ \A w \in Unresolved :
       \/ strategy[w] \notin Active \/ strategy[w] \in irregular
       \/ \E e \in Evaluators : w \in cur[e] /\ pc[e] \in {"demote", "promoted"}
  /\ \A k \in Starters : at[k] # "off" => name[k] \notin Active \/ name[k] \in irregular
  /\ ChampionsAreNotRetired

\* A step of the one evaluation or of anything else keeps what is in hand.
LEMMA HandStep ==
  ASSUME TypeOK, HandInv, Lone, [Next]_vars
  PROVE  HandInv'
<1> DEFINE Kept(f) ==
             /\ pc'[f] = "activate_queued" => todo'[f] \subseteq In("QUEUED")'
             /\ pc'[f] \in {"judge", "retire", "activate", "demote", "promoted"} =>
                  todo'[f] \subseteq In("OPEN")'
             /\ pc'[f] \in {"activate", "demote", "promoted"} => cur'[f] \subseteq In("OPEN")' \ todo'[f]
             /\ pc'[f] = "retire" => cur'[f] \subseteq In("REJECTED_SHADOW")'
             /\ \A v, w \in cur'[f] : v = w
<1>f. SUFFICES ASSUME NEW f \in Evaluators PROVE Kept(f)
  BY DEF HandInv, Promoting
<1>1. ASSUME NEW k \in Starters, NEW s \in Strategies, MarkShadow(k, s) PROVE Kept(f)
  BY <1>1
    DEF MarkShadow, Begin, Without, TypeOK, Lone, HandInv, Promoting, In, registryVars,
      windowVars, evalVars, starterVars, history
<1>2. ASSUME NEW k \in Starters, NEW s \in Strategies, MarkFails(k, s) PROVE Kept(f)
  BY <1>2
    DEF MarkFails, Begin, Fault, TypeOK, Lone, HandInv, Promoting, In, registryVars, windowVars,
      evalVars, starterVars, history
<1>3. ASSUME NEW k \in Starters, CountOpen(k) PROVE Kept(f)
  BY <1>3
    DEF CountOpen, TypeOK, Lone, HandInv, Promoting, In, registryVars, windowVars, evalVars,
      starterVars, history
<1>4. ASSUME NEW k \in Starters, NEW w \in Windows, InsertWindow(k, w) PROVE Kept(f)
  BY <1>4
    DEF InsertWindow, StarterOff, Touched, TypeOK, Lone, HandInv, Promoting, In, registryVars,
      windowVars, evalVars, starterVars, history
<1>5. ASSUME NEW k \in Starters, StarterEnds(k) PROVE Kept(f)
  BY <1>5
    DEF StarterEnds, StarterOff, TypeOK, Lone, HandInv, Promoting, In, registryVars, windowVars,
      evalVars, starterVars, history
<1>6. ASSUME NEW e \in Evaluators, BeginEvaluation(e) PROVE Kept(f)
  BY <1>6
    DEF BeginEvaluation, At, Goto, TypeOK, Lone, HandInv, Promoting, In, registryVars,
      windowVars, evalVars, starterVars, history
<1>7. ASSUME NEW e \in Evaluators, ReadQueued(e) PROVE Kept(f)
  BY <1>7
    DEF ReadQueued, At, Goto, In, TypeOK, Lone, HandInv, Promoting, registryVars, windowVars,
      evalVars, starterVars, history
<1>8. ASSUME NEW e \in Evaluators, NEW w \in Windows, ActivateQueued(e, w) PROVE Kept(f)
  BY <1>8
    DEF ActivateQueued, At, Resolve, Touched, Newest, TypeOK, Lone, HandInv, Promoting, In,
      registryVars, windowVars, evalVars, starterVars, history
<1>9. ASSUME NEW e \in Evaluators, EndActivation(e) PROVE Kept(f)
  BY <1>9
    DEF EndActivation, At, Goto, TypeOK, Lone, HandInv, Promoting, In, registryVars, windowVars,
      evalVars, starterVars, history
<1>10. ASSUME NEW e \in Evaluators, ReadBudget(e) PROVE Kept(f)
  BY <1>10
    DEF ReadBudget, At, Goto, TypeOK, Lone, HandInv, Promoting, In, registryVars, windowVars,
      evalVars, starterVars, history
<1>11. ASSUME NEW e \in Evaluators, ReadOpen(e) PROVE Kept(f)
  BY <1>11
    DEF ReadOpen, At, Goto, In, TypeOK, Lone, HandInv, Promoting, registryVars, windowVars,
      evalVars, starterVars, history
<1>12. ASSUME NEW e \in Evaluators, NEW w \in Windows, Extend(e, w) PROVE Kept(f)
  BY <1>12
    DEF Extend, IsNext, At, Newest, TypeOK, Lone, HandInv, Promoting, In, registryVars,
      windowVars, evalVars, starterVars, history
<1>13. ASSUME NEW e \in Evaluators, NEW w \in Windows, Reject(e, w) PROVE Kept(f)
  BY <1>13
    DEF Reject, IsNext, At, Goto, Newest, Resolve, Without, TypeOK, Lone, HandInv, Promoting,
      In, registryVars, windowVars, evalVars, starterVars, history
<1>14. ASSUME NEW e \in Evaluators, NEW w \in Windows, Wait(e, w) PROVE Kept(f)
  BY <1>14
    DEF Wait, IsNext, At, Newest, TypeOK, Lone, HandInv, Promoting, In, registryVars,
      windowVars, evalVars, starterVars, history
<1>15. ASSUME NEW e \in Evaluators, NEW w \in Windows, Win(e, w) PROVE Kept(f)
  BY <1>15
    DEF Win, Wins, IsNext, At, Goto, Newest, TypeOK, Lone, HandInv, Promoting, In, registryVars,
      windowVars, evalVars, starterVars, history
<1>16. ASSUME NEW e \in Evaluators, Retire(e) PROVE Kept(f)
  BY <1>16
    DEF Retire, At, Goto, TypeOK, Lone, HandInv, Promoting, In, registryVars, windowVars,
      evalVars, starterVars, history
<1>17. ASSUME NEW e \in Evaluators, Activate(e) PROVE Kept(f)
  BY <1>17
    DEF Activate, At, Goto, TypeOK, Lone, HandInv, Promoting, In, registryVars, windowVars,
      evalVars, starterVars, history
<1>18. ASSUME NEW e \in Evaluators, Demote(e) PROVE Kept(f)
  BY <1>18
    DEF Demote, At, Goto, TypeOK, Lone, HandInv, Promoting, In, registryVars, windowVars,
      evalVars, starterVars, history
<1>19. ASSUME NEW e \in Evaluators, Promote(e) PROVE Kept(f)
  BY <1>19
    DEF Promote, At, Goto, Resolve, Without, TypeOK, Lone, HandInv, Promoting, In, registryVars,
      windowVars, evalVars, starterVars, history
<1>20. ASSUME NEW e \in Evaluators, EndEvaluation(e) PROVE Kept(f)
  BY <1>20
    DEF EndEvaluation, At, Goto, Ended, TypeOK, Lone, HandInv, Promoting, In, registryVars,
      windowVars, evalVars, starterVars, history
<1>21. ASSUME NEW e \in Evaluators, RetireFails(e) PROVE Kept(f)
  BY <1>21
    DEF RetireFails, At, Goto, Fault, TypeOK, Lone, HandInv, Promoting, In, registryVars,
      windowVars, evalVars, starterVars, history
<1>22. ASSUME NEW e \in Evaluators, ReplaceFails(e) PROVE Kept(f)
  BY <1>22
    DEF ReplaceFails, At, Goto, Fault, TypeOK, Lone, HandInv, Promoting, In, registryVars,
      windowVars, evalVars, starterVars, history
<1>23. ASSUME NEW e \in Evaluators, Crash(e) PROVE Kept(f)
  BY <1>23
    DEF Crash, At, Goto, Ended, Fault, TypeOK, Lone, HandInv, Promoting, In, registryVars,
      windowVars, evalVars, starterVars, history
<1>24. ASSUME NEW w \in Windows, Ripen(w) PROVE Kept(f)
  BY <1>24
    DEF Ripen, Unresolved, In, TypeOK, Lone, HandInv, Promoting, registryVars, windowVars,
      evalVars, starterVars, history
<1>25. ASSUME NEW s \in Strategies, NEW new \in {"ACTIVE", "SHADOW", "RETIRED"}, SetByHand(s, new)
     PROVE  Kept(f)
  BY <1>25
    DEF SetByHand, Fault, Touched, Without, TypeOK, Lone, HandInv, Promoting, In, registryVars,
      windowVars, evalVars, starterVars, history
<1>26. ASSUME NextWeek PROVE Kept(f)
  BY <1>26
    DEF NextWeek, At, Unresolved, In, TypeOK, Lone, HandInv, Promoting, registryVars,
      windowVars, evalVars, starterVars, history
<1>27. ASSUME UNCHANGED vars PROVE Kept(f)
  BY <1>27 DEF vars, TypeOK, Lone, HandInv, Promoting, In
<1>28. ASSUME NEW e \in Evaluators, NEW w \in Windows, WinUnread(e, w) PROVE Kept(f)
  BY <1>28
    DEF WinUnread, Wins, Fault, IsNext, At, Goto, Newest, TypeOK, Lone, HandInv, Promoting, In, registryVars,
      windowVars, evalVars, starterVars, history
<1> QED
  BY <1>1, <1>2, <1>3, <1>4, <1>5, <1>6, <1>7, <1>8, <1>9, <1>10, <1>11, <1>12, <1>13,
     <1>14, <1>15, <1>16, <1>17, <1>18, <1>19, <1>20, <1>21, <1>22, <1>23, <1>24, <1>25,
     <1>26, <1>27, <1>28 DEF Next, Starter, Evaluate, Faulty

\* Whoever opens a second window for a strategy makes it irregular.
LEMMA SharedStep ==
  ASSUME TypeOK, HandInv, SharedInv, [Next]_vars
  PROVE  SharedInv'
<1>1. ASSUME NEW k \in Starters, NEW s \in Strategies, MarkShadow(k, s) PROVE SharedInv'
  BY <1>1
    DEF MarkShadow, Begin, Without, TypeOK, SharedInv, Unresolved, In, registryVars, windowVars,
      evalVars, starterVars, history, Doubled
<1>2. ASSUME NEW k \in Starters, NEW s \in Strategies, MarkFails(k, s) PROVE SharedInv'
  BY <1>2
    DEF MarkFails, Begin, Fault, TypeOK, SharedInv, Unresolved, In, registryVars, windowVars,
      evalVars, starterVars, history
<1>3. ASSUME NEW k \in Starters, CountOpen(k) PROVE SharedInv'
  BY <1>3
    DEF CountOpen, TypeOK, SharedInv, Unresolved, In, registryVars, windowVars, evalVars,
      starterVars, history
<1>4. ASSUME NEW k \in Starters, NEW w \in Windows, InsertWindow(k, w) PROVE SharedInv'
  BY <1>4
    DEF InsertWindow, StarterOff, Touched, TypeOK, SharedInv, Unresolved, In, registryVars,
      windowVars, evalVars, starterVars, history
<1>5. ASSUME NEW k \in Starters, StarterEnds(k) PROVE SharedInv'
  BY <1>5
    DEF StarterEnds, StarterOff, TypeOK, SharedInv, Unresolved, In, registryVars, windowVars,
      evalVars, starterVars, history
<1>6. ASSUME NEW e \in Evaluators, BeginEvaluation(e) PROVE SharedInv'
  BY <1>6
    DEF BeginEvaluation, At, Goto, TypeOK, SharedInv, Unresolved, In, registryVars, windowVars,
      evalVars, starterVars, history
<1>7. ASSUME NEW e \in Evaluators, ReadQueued(e) PROVE SharedInv'
  BY <1>7
    DEF ReadQueued, At, Goto, In, TypeOK, SharedInv, Unresolved, registryVars, windowVars,
      evalVars, starterVars, history
<1>8. ASSUME NEW e \in Evaluators, NEW w \in Windows, ActivateQueued(e, w) PROVE SharedInv'
  BY <1>8
    DEF ActivateQueued, At, Resolve, Touched, Newest, TypeOK, SharedInv, Unresolved, In,
      registryVars, windowVars, evalVars, starterVars, history, HandInv
<1>9. ASSUME NEW e \in Evaluators, EndActivation(e) PROVE SharedInv'
  BY <1>9
    DEF EndActivation, At, Goto, TypeOK, SharedInv, Unresolved, In, registryVars, windowVars,
      evalVars, starterVars, history
<1>10. ASSUME NEW e \in Evaluators, ReadBudget(e) PROVE SharedInv'
  BY <1>10
    DEF ReadBudget, At, Goto, TypeOK, SharedInv, Unresolved, In, registryVars, windowVars,
      evalVars, starterVars, history
<1>11. ASSUME NEW e \in Evaluators, ReadOpen(e) PROVE SharedInv'
  BY <1>11
    DEF ReadOpen, At, Goto, In, TypeOK, SharedInv, Unresolved, registryVars, windowVars,
      evalVars, starterVars, history
<1>12. ASSUME NEW e \in Evaluators, NEW w \in Windows, Extend(e, w) PROVE SharedInv'
  BY <1>12
    DEF Extend, IsNext, At, Newest, TypeOK, SharedInv, Unresolved, In, registryVars, windowVars,
      evalVars, starterVars, history
<1>13. ASSUME NEW e \in Evaluators, NEW w \in Windows, Reject(e, w) PROVE SharedInv'
  BY <1>13
    DEF Reject, IsNext, At, Goto, Newest, Resolve, Without, TypeOK, SharedInv, Unresolved, In,
      registryVars, windowVars, evalVars, starterVars, history
<1>14. ASSUME NEW e \in Evaluators, NEW w \in Windows, Wait(e, w) PROVE SharedInv'
  BY <1>14
    DEF Wait, IsNext, At, Newest, TypeOK, SharedInv, Unresolved, In, registryVars, windowVars,
      evalVars, starterVars, history
<1>15. ASSUME NEW e \in Evaluators, NEW w \in Windows, Win(e, w) PROVE SharedInv'
  BY <1>15
    DEF Win, Wins, IsNext, At, Goto, Newest, TypeOK, SharedInv, Unresolved, In, registryVars,
      windowVars, evalVars, starterVars, history
<1>16. ASSUME NEW e \in Evaluators, Retire(e) PROVE SharedInv'
  BY <1>16
    DEF Retire, At, Goto, TypeOK, SharedInv, Unresolved, In, registryVars, windowVars, evalVars,
      starterVars, history
<1>17. ASSUME NEW e \in Evaluators, Activate(e) PROVE SharedInv'
  BY <1>17
    DEF Activate, At, Goto, TypeOK, SharedInv, Unresolved, In, registryVars, windowVars,
      evalVars, starterVars, history
<1>18. ASSUME NEW e \in Evaluators, Demote(e) PROVE SharedInv'
  BY <1>18
    DEF Demote, At, Goto, TypeOK, SharedInv, Unresolved, In, registryVars, windowVars, evalVars,
      starterVars, history
<1>19. ASSUME NEW e \in Evaluators, Promote(e) PROVE SharedInv'
  BY <1>19
    DEF Promote, At, Goto, Resolve, Without, TypeOK, SharedInv, Unresolved, In, registryVars,
      windowVars, evalVars, starterVars, history
<1>20. ASSUME NEW e \in Evaluators, EndEvaluation(e) PROVE SharedInv'
  BY <1>20
    DEF EndEvaluation, At, Goto, Ended, TypeOK, SharedInv, Unresolved, In, registryVars,
      windowVars, evalVars, starterVars, history
<1>21. ASSUME NEW e \in Evaluators, RetireFails(e) PROVE SharedInv'
  BY <1>21
    DEF RetireFails, At, Goto, Fault, TypeOK, SharedInv, Unresolved, In, registryVars,
      windowVars, evalVars, starterVars, history
<1>22. ASSUME NEW e \in Evaluators, ReplaceFails(e) PROVE SharedInv'
  BY <1>22
    DEF ReplaceFails, At, Goto, Fault, TypeOK, SharedInv, Unresolved, In, registryVars,
      windowVars, evalVars, starterVars, history
<1>23. ASSUME NEW e \in Evaluators, Crash(e) PROVE SharedInv'
  BY <1>23
    DEF Crash, At, Goto, Ended, Fault, TypeOK, SharedInv, Unresolved, In, registryVars,
      windowVars, evalVars, starterVars, history, Named
<1>24. ASSUME NEW w \in Windows, Ripen(w) PROVE SharedInv'
  BY <1>24
    DEF Ripen, Unresolved, In, TypeOK, SharedInv, registryVars, windowVars, evalVars,
      starterVars, history
<1>25. ASSUME NEW s \in Strategies, NEW new \in {"ACTIVE", "SHADOW", "RETIRED"}, SetByHand(s, new)
     PROVE  SharedInv'
  BY <1>25
    DEF SetByHand, Fault, Touched, Without, TypeOK, SharedInv, Unresolved, In, registryVars,
      windowVars, evalVars, starterVars, history
<1>26. ASSUME NextWeek PROVE SharedInv'
  BY <1>26
    DEF NextWeek, At, Unresolved, In, TypeOK, SharedInv, registryVars, windowVars, evalVars,
      starterVars, history
<1>27. ASSUME UNCHANGED vars PROVE SharedInv'
  BY <1>27 DEF vars, TypeOK, SharedInv, Unresolved, In
<1>28. ASSUME NEW e \in Evaluators, NEW w \in Windows, WinUnread(e, w) PROVE SharedInv'
  BY <1>28
    DEF WinUnread, Wins, Fault, IsNext, At, Goto, Newest, TypeOK, SharedInv, Unresolved, In, registryVars,
      windowVars, evalVars, starterVars, history
<1> QED
  BY <1>1, <1>2, <1>3, <1>4, <1>5, <1>6, <1>7, <1>8, <1>9, <1>10, <1>11, <1>12, <1>13,
     <1>14, <1>15, <1>16, <1>17, <1>18, <1>19, <1>20, <1>21, <1>22, <1>23, <1>24, <1>25,
     <1>26, <1>27, <1>28 DEF Next, Starter, Evaluate, Faulty

\* What an update of the status does to the active strategies.
LEMMA SetStatusActive ==
  ASSUME TypeOK, NEW s \in Strategies, NEW new, SetStatus(s, new)
  PROVE  /\ Active' \subseteq Active \cup {s}
         /\ new # "ACTIVE" => Active' = Active \ {s}
BY DEF TypeOK, SetStatus, Active

\* Every step keeps the active strategies apart from the open windows.
LEMMA ActiveStep ==
  ASSUME TypeOK, HandInv, SharedInv, ActiveInv, Lone, [Next]_vars
  PROVE  ActiveInv'
<1>1. ASSUME NEW k \in Starters, NEW s \in Strategies, MarkShadow(k, s) PROVE ActiveInv'
  BY <1>1
    DEF MarkShadow, Begin, Without, TypeOK, Lone, ActiveInv, ChampionsAreNotRetired, HandInv,
      SharedInv, Promoting, Unresolved, In, Named, At, Active, registryVars, windowVars,
      evalVars, starterVars, history, Doubled
<1>2. ASSUME NEW k \in Starters, NEW s \in Strategies, MarkFails(k, s) PROVE ActiveInv'
  BY <1>2
    DEF MarkFails, Begin, Fault, TypeOK, Lone, ActiveInv, ChampionsAreNotRetired, HandInv,
      SharedInv, Promoting, Unresolved, In, Named, At, Active, registryVars, windowVars,
      evalVars, starterVars, history
<1>3. ASSUME NEW k \in Starters, CountOpen(k) PROVE ActiveInv'
  BY <1>3
    DEF CountOpen, TypeOK, Lone, ActiveInv, ChampionsAreNotRetired, HandInv, SharedInv,
      Promoting, Unresolved, In, Named, At, Active, registryVars, windowVars, evalVars,
      starterVars, history
<1>4. ASSUME NEW k \in Starters, NEW w \in Windows, InsertWindow(k, w) PROVE ActiveInv'
  BY <1>4
    DEF InsertWindow, StarterOff, Touched, TypeOK, Lone, ActiveInv, ChampionsAreNotRetired,
      HandInv, SharedInv, Promoting, Unresolved, In, Named, At, Active, registryVars,
      windowVars, evalVars, starterVars, history
<1>5. ASSUME NEW k \in Starters, StarterEnds(k) PROVE ActiveInv'
  BY <1>5
    DEF StarterEnds, StarterOff, TypeOK, Lone, ActiveInv, ChampionsAreNotRetired, HandInv,
      SharedInv, Promoting, Unresolved, In, Named, At, Active, registryVars, windowVars,
      evalVars, starterVars, history
<1>6. ASSUME NEW e \in Evaluators, BeginEvaluation(e) PROVE ActiveInv'
  BY <1>6
    DEF BeginEvaluation, At, Goto, TypeOK, Lone, ActiveInv, ChampionsAreNotRetired, HandInv,
      SharedInv, Promoting, Unresolved, In, Named, Active, registryVars, windowVars, evalVars,
      starterVars, history
<1>7. ASSUME NEW e \in Evaluators, ReadQueued(e) PROVE ActiveInv'
  BY <1>7
    DEF ReadQueued, At, Goto, In, TypeOK, Lone, ActiveInv, ChampionsAreNotRetired, HandInv,
      SharedInv, Promoting, Unresolved, Named, Active, registryVars, windowVars, evalVars,
      starterVars, history
<1>8. ASSUME NEW e \in Evaluators, NEW w \in Windows, ActivateQueued(e, w) PROVE ActiveInv'
  BY <1>8
    DEF ActivateQueued, At, Resolve, Touched, Newest, TypeOK, Lone, ActiveInv,
      ChampionsAreNotRetired, HandInv, SharedInv, Promoting, Unresolved, In, Named, Active,
      registryVars, windowVars, evalVars, starterVars, history
<1>9. ASSUME NEW e \in Evaluators, EndActivation(e) PROVE ActiveInv'
  BY <1>9
    DEF EndActivation, At, Goto, TypeOK, Lone, ActiveInv, ChampionsAreNotRetired, HandInv,
      SharedInv, Promoting, Unresolved, In, Named, Active, registryVars, windowVars, evalVars,
      starterVars, history
<1>10. ASSUME NEW e \in Evaluators, ReadBudget(e) PROVE ActiveInv'
  BY <1>10
    DEF ReadBudget, At, Goto, TypeOK, Lone, ActiveInv, ChampionsAreNotRetired, HandInv,
      SharedInv, Promoting, Unresolved, In, Named, Active, registryVars, windowVars, evalVars,
      starterVars, history
<1>11. ASSUME NEW e \in Evaluators, ReadOpen(e) PROVE ActiveInv'
  BY <1>11
    DEF ReadOpen, At, Goto, In, TypeOK, Lone, ActiveInv, ChampionsAreNotRetired, HandInv,
      SharedInv, Promoting, Unresolved, Named, Active, registryVars, windowVars, evalVars,
      starterVars, history
<1>12. ASSUME NEW e \in Evaluators, NEW w \in Windows, Extend(e, w) PROVE ActiveInv'
  BY <1>12
    DEF Extend, IsNext, At, Newest, TypeOK, Lone, ActiveInv, ChampionsAreNotRetired, HandInv,
      SharedInv, Promoting, Unresolved, In, Named, Active, registryVars, windowVars, evalVars,
      starterVars, history
<1>13. ASSUME NEW e \in Evaluators, NEW w \in Windows, Reject(e, w) PROVE ActiveInv'
  BY <1>13
    DEF Reject, IsNext, At, Goto, Newest, Resolve, Without, TypeOK, Lone, ActiveInv,
      ChampionsAreNotRetired, HandInv, SharedInv, Promoting, Unresolved, In, Named, Active,
      registryVars, windowVars, evalVars, starterVars, history
<1>14. ASSUME NEW e \in Evaluators, NEW w \in Windows, Wait(e, w) PROVE ActiveInv'
  BY <1>14
    DEF Wait, IsNext, At, Newest, TypeOK, Lone, ActiveInv, ChampionsAreNotRetired, HandInv,
      SharedInv, Promoting, Unresolved, In, Named, Active, registryVars, windowVars, evalVars,
      starterVars, history
<1>15. ASSUME NEW e \in Evaluators, NEW w \in Windows, Win(e, w) PROVE ActiveInv'
  BY <1>15
    DEF Win, Wins, IsNext, At, Goto, Newest, TypeOK, Lone, ActiveInv, ChampionsAreNotRetired, HandInv,
      SharedInv, Promoting, Unresolved, In, Named, Active, registryVars, windowVars, evalVars,
      starterVars, history
<1>16. ASSUME NEW e \in Evaluators, Retire(e) PROVE ActiveInv'
  BY <1>16, SetStatusActive
    DEF Retire, At, Goto, TypeOK, Lone, ActiveInv, ChampionsAreNotRetired, HandInv, SharedInv,
      Promoting, Unresolved, In, Named, Active, registryVars, windowVars, evalVars, starterVars,
      history
<1>17. ASSUME NEW e \in Evaluators, Activate(e) PROVE ActiveInv'
  BY <1>17, SetStatusActive
    DEF Activate, At, Goto, TypeOK, Lone, ActiveInv, ChampionsAreNotRetired, HandInv, SharedInv,
      Promoting, Unresolved, In, Named, Active, registryVars, windowVars, evalVars, starterVars,
      history
<1>18. ASSUME NEW e \in Evaluators, Demote(e) PROVE ActiveInv'
  BY <1>18, SetStatusActive
    DEF Demote, At, Goto, TypeOK, Lone, ActiveInv, ChampionsAreNotRetired, HandInv, SharedInv,
      Promoting, Unresolved, In, Named, Active, registryVars, windowVars, evalVars, starterVars,
      history
<1>19. ASSUME NEW e \in Evaluators, Promote(e) PROVE ActiveInv'
  BY <1>19
    DEF Promote, At, Goto, Resolve, Without, TypeOK, Lone, ActiveInv, ChampionsAreNotRetired,
      HandInv, SharedInv, Promoting, Unresolved, In, Named, Active, registryVars, windowVars,
      evalVars, starterVars, history
<1>20. ASSUME NEW e \in Evaluators, EndEvaluation(e) PROVE ActiveInv'
  BY <1>20
    DEF EndEvaluation, At, Goto, Ended, TypeOK, Lone, ActiveInv, ChampionsAreNotRetired,
      HandInv, SharedInv, Promoting, Unresolved, In, Named, Active, registryVars, windowVars,
      evalVars, starterVars, history
<1>21. ASSUME NEW e \in Evaluators, RetireFails(e) PROVE ActiveInv'
  BY <1>21
    DEF RetireFails, At, Goto, Fault, TypeOK, Lone, ActiveInv, ChampionsAreNotRetired, HandInv,
      SharedInv, Promoting, Unresolved, In, Named, Active, registryVars, windowVars, evalVars,
      starterVars, history
<1>22. ASSUME NEW e \in Evaluators, ReplaceFails(e) PROVE ActiveInv'
  BY <1>22
    DEF ReplaceFails, At, Goto, Fault, TypeOK, Lone, ActiveInv, ChampionsAreNotRetired, HandInv,
      SharedInv, Promoting, Unresolved, In, Named, Active, registryVars, windowVars, evalVars,
      starterVars, history
<1>23. ASSUME NEW e \in Evaluators, Crash(e) PROVE ActiveInv'
  BY <1>23
    DEF Crash, At, Goto, Ended, Fault, TypeOK, Lone, ActiveInv, ChampionsAreNotRetired, HandInv,
      SharedInv, Promoting, Unresolved, In, Named, Active, registryVars, windowVars, evalVars,
      starterVars, history
<1>24. ASSUME NEW w \in Windows, Ripen(w) PROVE ActiveInv'
  BY <1>24
    DEF Ripen, Unresolved, In, TypeOK, Lone, ActiveInv, ChampionsAreNotRetired, HandInv,
      SharedInv, Promoting, Named, At, Active, registryVars, windowVars, evalVars, starterVars,
      history
<1>25. ASSUME NEW s \in Strategies, NEW new \in {"ACTIVE", "SHADOW", "RETIRED"}, SetByHand(s, new)
     PROVE  ActiveInv'
  BY <1>25
    DEF SetByHand, Fault, Touched, Without, TypeOK, Lone, ActiveInv, ChampionsAreNotRetired,
      HandInv, SharedInv, Promoting, Unresolved, In, Named, At, Active, registryVars,
      windowVars, evalVars, starterVars, history
<1>26. ASSUME NextWeek PROVE ActiveInv'
  BY <1>26
    DEF NextWeek, At, Unresolved, In, TypeOK, Lone, ActiveInv, ChampionsAreNotRetired, HandInv,
      SharedInv, Promoting, Named, Active, registryVars, windowVars, evalVars, starterVars,
      history
<1>27. ASSUME UNCHANGED vars PROVE ActiveInv'
  BY <1>27
    DEF vars, TypeOK, Lone, ActiveInv, ChampionsAreNotRetired, HandInv, SharedInv, Promoting,
        Unresolved, In, Named, At, Active
<1>28. ASSUME NEW e \in Evaluators, NEW w \in Windows, WinUnread(e, w) PROVE ActiveInv'
  BY <1>28
    DEF WinUnread, Wins, Fault, IsNext, At, Goto, Newest, TypeOK, Lone, ActiveInv, ChampionsAreNotRetired, HandInv,
      SharedInv, Promoting, Unresolved, In, Named, Active, registryVars, windowVars, evalVars,
      starterVars, history
<1> QED
  BY <1>1, <1>2, <1>3, <1>4, <1>5, <1>6, <1>7, <1>8, <1>9, <1>10, <1>11, <1>12, <1>13,
     <1>14, <1>15, <1>16, <1>17, <1>18, <1>19, <1>20, <1>21, <1>22, <1>23, <1>24, <1>25,
     <1>26, <1>27, <1>28 DEF Next, Starter, Evaluate, Faulty

\* The rejection of a window never retires a champion, but for strategies with
\* two windows at once or hit by a fault, with one evaluation at a time.
THEOREM ChampionsStay ==
  ASSUME Lone
  PROVE  Spec => []ChampionsAreNotRetired
<1>1. Init => HandInv /\ SharedInv /\ ActiveInv
  BY
    DEF Init, HandInv, SharedInv, ActiveInv, ChampionsAreNotRetired, Promoting, Unresolved, In,
        At
<1>2. TypeOK /\ HandInv /\ SharedInv /\ ActiveInv /\ [Next]_vars => (HandInv /\ SharedInv /\ ActiveInv)'
  BY HandStep, SharedStep, ActiveStep
<1>3. ActiveInv => ChampionsAreNotRetired
  BY DEF ActiveInv
<1> QED
  BY <1>1, <1>2, <1>3, PromotionTypeCorrect, PTL DEF Spec

-----------------------------------------------------------------------------
(* The one champion.                                                       *)

\* R is a strict total order of the elements of A.
Ordered(R, A) ==
  /\ R \subseteq A \X A
  /\ \A x \in A : <<x, x>> \notin R
  /\ \A x, y \in A : x # y => <<x, y>> \in R \/ <<y, x>> \in R
  /\ \A x, y, z \in A : <<x, y>> \in R /\ <<y, z>> \in R => <<x, z>> \in R

\* A replacement leaves one active strategy for every fault beside the winner
\* and the champion it replaces.
ChampInv ==
  /\ OneChampionPerFault
  /\ \A e \in Evaluators :
       /\ \A c, d \in champ[e] : c = d
       /\ pc[e] \in {"activate", "demote"} => Cardinality(Active \ (Named(e) \cup champ[e])) <= faults

\* A strategy updated last comes first in the order.
LEMMA TouchedIsOrdered ==
  ASSUME NEW R, NEW A, Ordered(R, A), NEW x
  PROVE  Ordered(Touched(R, x, A), A \cup {x})
<1> DEFINE T == Touched(R, x, A)
<1>1. \A y, z : <<y, z>> \in T <=>
        (<<y, z>> \in R /\ y # x /\ z # x) \/ (y = x /\ z \in A /\ z # x)
  BY DEF Touched, Ordered
<1>2. T \subseteq (A \cup {x}) \X (A \cup {x})
  BY DEF Touched, Ordered
<1> HIDE DEF T
<1> QED
  BY <1>1, <1>2 DEF Ordered, T

\* The order without one strategy is an order of the others.
LEMMA WithoutIsOrdered ==
  ASSUME NEW R, NEW A, Ordered(R, A), NEW x
  PROVE  Ordered(Without(R, x), A \ {x})
<1> DEFINE T == Without(R, x)
<1>1. \A y, z : <<y, z>> \in T <=> <<y, z>> \in R /\ y # x /\ z # x
  BY DEF Without
<1>2. T \subseteq (A \ {x}) \X (A \ {x})
  BY DEF Without, Ordered
<1> HIDE DEF T
<1> QED
  BY <1>1, <1>2 DEF Ordered, T

\* An update of a status leaves the active strategies in order.
LEMMA SetStatusIsOrdered ==
  ASSUME TypeOK, Ordered(later, Active), NEW s \in Strategies, NEW new, SetStatus(s, new)
  PROVE  Ordered(later', Active')
<1>1. CASE new = "ACTIVE" /\ status[s] # "none"
  <2>1. later' = Touched(later, s, Active) /\ Active' = Active \cup {s}
    BY <1>1 DEF SetStatus, Active, TypeOK
  <2> QED
    BY <2>1, TouchedIsOrdered
<1>2. CASE ~(new = "ACTIVE" /\ status[s] # "none")
  <2>1. later' = Without(later, s) /\ Active' = Active \ {s}
    BY <1>2 DEF SetStatus, Active, TypeOK
  <2> QED
    BY <2>1, WithoutIsOrdered
<1> QED
  BY <1>1, <1>2

\* Every step leaves the active strategies in order of their updates.
LEMMA OrderStep ==
  ASSUME TypeOK, Ordered(later, Active), [Next]_vars
  PROVE  Ordered(later', Active')
<1>1. ASSUME NEW k \in Starters, NEW s \in Strategies, MarkShadow(k, s)
     PROVE  Ordered(later', Active')
  <2>1. later' = Without(later, s) /\ Active' = Active \ {s}
    BY <1>1 DEF MarkShadow, Active, TypeOK
  <2> QED
    BY <2>1, WithoutIsOrdered
<1>2. ASSUME NEW k \in Starters, NEW s \in Strategies, MarkFails(k, s)
     PROVE  Ordered(later', Active')
  BY <1>2
    DEF MarkFails, Begin, Fault, TypeOK, Active, registryVars, windowVars, evalVars,
      starterVars, history
<1>3. ASSUME NEW k \in Starters, CountOpen(k) PROVE Ordered(later', Active')
  BY <1>3
  DEF CountOpen, TypeOK, Active, registryVars, windowVars, evalVars, starterVars, history
<1>4. ASSUME NEW k \in Starters, NEW w \in Windows, InsertWindow(k, w)
     PROVE  Ordered(later', Active')
  BY <1>4
    DEF InsertWindow, StarterOff, Touched, TypeOK, Active, registryVars, windowVars, evalVars,
      starterVars, history
<1>5. ASSUME NEW k \in Starters, StarterEnds(k) PROVE Ordered(later', Active')
  BY <1>5
    DEF StarterEnds, StarterOff, TypeOK, Active, registryVars, windowVars, evalVars,
      starterVars, history
<1>6. ASSUME NEW e \in Evaluators, BeginEvaluation(e) PROVE Ordered(later', Active')
  BY <1>6
    DEF BeginEvaluation, At, Goto, TypeOK, Active, registryVars, windowVars, evalVars,
      starterVars, history
<1>7. ASSUME NEW e \in Evaluators, ReadQueued(e) PROVE Ordered(later', Active')
  BY <1>7
    DEF ReadQueued, At, Goto, In, TypeOK, Active, registryVars, windowVars, evalVars,
      starterVars, history
<1>8. ASSUME NEW e \in Evaluators, NEW w \in Windows, ActivateQueued(e, w)
     PROVE  Ordered(later', Active')
  BY <1>8
    DEF ActivateQueued, At, Resolve, Touched, Newest, TypeOK, Active, registryVars, windowVars,
      evalVars, starterVars, history
<1>9. ASSUME NEW e \in Evaluators, EndActivation(e) PROVE Ordered(later', Active')
  BY <1>9
    DEF EndActivation, At, Goto, TypeOK, Active, registryVars, windowVars, evalVars,
      starterVars, history
<1>10. ASSUME NEW e \in Evaluators, ReadBudget(e) PROVE Ordered(later', Active')
  BY <1>10
    DEF ReadBudget, At, Goto, TypeOK, Active, registryVars, windowVars, evalVars, starterVars,
      history
<1>11. ASSUME NEW e \in Evaluators, ReadOpen(e) PROVE Ordered(later', Active')
  BY <1>11
    DEF ReadOpen, At, Goto, In, TypeOK, Active, registryVars, windowVars, evalVars, starterVars,
      history
<1>12. ASSUME NEW e \in Evaluators, NEW w \in Windows, Extend(e, w)
     PROVE  Ordered(later', Active')
  BY <1>12
    DEF Extend, IsNext, At, Newest, TypeOK, Active, registryVars, windowVars, evalVars,
      starterVars, history
<1>13. ASSUME NEW e \in Evaluators, NEW w \in Windows, Reject(e, w)
     PROVE  Ordered(later', Active')
  BY <1>13
    DEF Reject, IsNext, At, Goto, Newest, Resolve, Without, TypeOK, Active, registryVars,
      windowVars, evalVars, starterVars, history
<1>14. ASSUME NEW e \in Evaluators, NEW w \in Windows, Wait(e, w) PROVE Ordered(later', Active')
  BY <1>14
    DEF Wait, IsNext, At, Newest, TypeOK, Active, registryVars, windowVars, evalVars,
      starterVars, history
<1>15. ASSUME NEW e \in Evaluators, NEW w \in Windows, Win(e, w) PROVE Ordered(later', Active')
  BY <1>15
    DEF Win, Wins, IsNext, At, Goto, Newest, TypeOK, Active, registryVars, windowVars, evalVars,
      starterVars, history
<1>16. ASSUME NEW e \in Evaluators, Retire(e) PROVE Ordered(later', Active')
  BY <1>16, SetStatusIsOrdered
    DEF Retire, At, Goto, TypeOK, Active, registryVars, windowVars, evalVars, starterVars,
      history, Named
<1>17. ASSUME NEW e \in Evaluators, Activate(e) PROVE Ordered(later', Active')
  BY <1>17, SetStatusIsOrdered
    DEF Activate, At, Goto, TypeOK, Active, registryVars, windowVars, evalVars, starterVars,
      history, Named
<1>18. ASSUME NEW e \in Evaluators, Demote(e) PROVE Ordered(later', Active')
  BY <1>18, SetStatusIsOrdered
  DEF Demote, At, Goto, TypeOK, Active, registryVars, windowVars, evalVars, starterVars, history
<1>19. ASSUME NEW e \in Evaluators, Promote(e) PROVE Ordered(later', Active')
  BY <1>19
    DEF Promote, At, Goto, Resolve, Without, TypeOK, Active, registryVars, windowVars, evalVars,
      starterVars, history
<1>20. ASSUME NEW e \in Evaluators, EndEvaluation(e) PROVE Ordered(later', Active')
  BY <1>20
    DEF EndEvaluation, At, Goto, Ended, TypeOK, Active, registryVars, windowVars, evalVars,
      starterVars, history
<1>21. ASSUME NEW e \in Evaluators, RetireFails(e) PROVE Ordered(later', Active')
  BY <1>21
    DEF RetireFails, At, Goto, Fault, TypeOK, Active, registryVars, windowVars, evalVars,
      starterVars, history
<1>22. ASSUME NEW e \in Evaluators, ReplaceFails(e) PROVE Ordered(later', Active')
  BY <1>22
    DEF ReplaceFails, At, Goto, Fault, TypeOK, Active, registryVars, windowVars, evalVars,
      starterVars, history
<1>23. ASSUME NEW e \in Evaluators, Crash(e) PROVE Ordered(later', Active')
  BY <1>23
    DEF Crash, At, Goto, Ended, Fault, TypeOK, Active, registryVars, windowVars, evalVars,
      starterVars, history
<1>24. ASSUME NEW w \in Windows, Ripen(w) PROVE Ordered(later', Active')
  BY <1>24
    DEF Ripen, Unresolved, In, TypeOK, Active, registryVars, windowVars, evalVars, starterVars,
      history
<1>25. ASSUME NEW s \in Strategies, NEW new \in {"ACTIVE", "SHADOW", "RETIRED"}, SetByHand(s, new)
     PROVE  Ordered(later', Active')
  <2>1. CASE new = "ACTIVE"
    <3>1. later' = Touched(later, s, Active) /\ Active' = Active \cup {s}
      BY <1>25, <2>1 DEF SetByHand, Active, TypeOK
    <3> QED
      BY <3>1, TouchedIsOrdered
  <2>2. CASE new # "ACTIVE"
    <3>1. later' = Without(later, s) /\ Active' = Active \ {s}
      BY <1>25, <2>2 DEF SetByHand, Active, TypeOK
    <3> QED
      BY <3>1, WithoutIsOrdered
  <2> QED
    BY <2>1, <2>2
<1>26. ASSUME NextWeek PROVE Ordered(later', Active')
  BY <1>26
    DEF NextWeek, At, Unresolved, In, TypeOK, Active, registryVars, windowVars, evalVars,
      starterVars, history
<1>27. ASSUME UNCHANGED vars PROVE Ordered(later', Active')
  BY <1>27 DEF vars, TypeOK, Active
<1>28. ASSUME NEW e \in Evaluators, NEW w \in Windows, WinUnread(e, w) PROVE Ordered(later', Active')
  BY <1>28
    DEF WinUnread, Wins, Fault, IsNext, At, Goto, Newest, TypeOK, Active, registryVars, windowVars, evalVars,
      starterVars, history
<1> QED
  BY <1>1, <1>2, <1>3, <1>4, <1>5, <1>6, <1>7, <1>8, <1>9, <1>10, <1>11, <1>12, <1>13,
     <1>14, <1>15, <1>16, <1>17, <1>18, <1>19, <1>20, <1>21, <1>22, <1>23, <1>24, <1>25,
     <1>26, <1>27, <1>28 DEF Next, Starter, Evaluate, Faulty

\* A part of a finite set has no more elements than it.
LEMMA Fewer ==
  ASSUME NEW S, IsFiniteSet(S), NEW T, T \subseteq S
  PROVE  IsFiniteSet(T) /\ Cardinality(T) <= Cardinality(S) /\ Cardinality(T) \in Nat /\ Cardinality(S) \in Nat
BY FS_Subset, FS_CardinalityType

\* Two sets of at most one element hold two elements at most.
LEMMA TwoMore ==
  ASSUME NEW S, IsFiniteSet(S), NEW N, NEW D,
         \A x, y \in N : x = y, \A x, y \in D : x = y
  PROVE  Cardinality(S) <= Cardinality(S \ (N \cup D)) + 2
<1> DEFINE R == S \ (N \cup D)
<1>1. PICK a : N \subseteq {a}
  OBVIOUS
<1>2. PICK b : D \subseteq {b}
  OBVIOUS
<1>3. IsFiniteSet(R) /\ Cardinality(R) \in Nat
  BY Fewer
<1>4. S \subseteq (R \cup {a}) \cup {b}
  BY <1>1, <1>2
<1> HIDE DEF R
<1>5. IsFiniteSet(R \cup {a}) /\ Cardinality(R \cup {a}) \in Nat /\ Cardinality(R \cup {a}) <= Cardinality(R) + 1
  BY <1>3, OneMore
<1>6. /\ IsFiniteSet((R \cup {a}) \cup {b}) /\ Cardinality((R \cup {a}) \cup {b}) \in Nat
      /\ Cardinality((R \cup {a}) \cup {b}) <= Cardinality(R \cup {a}) + 1
  BY <1>5, OneMore
<1>7. Cardinality(S) <= Cardinality((R \cup {a}) \cup {b}) /\ Cardinality(S) \in Nat
  BY <1>4, <1>6, Fewer
<1>8. Cardinality(S) <= Cardinality(R) + 2
  BY <1>3, <1>5, <1>6, <1>7
<1> QED
  BY <1>8 DEF R

\* The active strategies are finitely many.
LEMMA ActiveIsFinite == IsFiniteSet(Active) /\ IsFiniteSet(Active')
BY Fewer, PromotionAssumption DEF Active

\* An evaluation resolves one window at a time.
LEMMA NamedIsOne ==
  ASSUME HandInv, NEW e \in Evaluators
  PROVE  \A s, t \in Named(e) : s = t
BY DEF HandInv, Named

\* A step that begins and ends no replacement and activates nothing.
LEMMA QuietStep ==
  ASSUME TypeOK, TypeOK', ChampInv, Active' \subseteq Active, faults' >= faults,
         \A e \in Evaluators :
           /\ champ'[e] \subseteq champ[e]
           /\ pc[e] = "demote" => pc'[e] = "demote"
           /\ pc'[e] \in {"activate", "demote"} =>
                pc[e] = pc'[e] /\ Named(e)' = Named(e) /\ champ'[e] = champ[e]
  PROVE  ChampInv'
<1>a. faults \in Nat /\ faults' \in Nat
  BY PromotionAssumption DEF TypeOK
<1>1. OneChampionPerFault'
  <2> SUFFICES ASSUME \A e \in Evaluators : pc'[e] # "demote"
               PROVE  Cardinality(Active') <= 1 + faults'
    BY DEF OneChampionPerFault, At
  <2>1. Cardinality(Active) <= 1 + faults
    BY DEF ChampInv, OneChampionPerFault, At
  <2>2. Cardinality(Active') <= Cardinality(Active) /\ Cardinality(Active') \in Nat /\ Cardinality(Active) \in Nat
    BY Fewer, ActiveIsFinite
  <2> QED
    BY <2>1, <2>2, <1>a
<1>2. ASSUME NEW e \in Evaluators, pc'[e] \in {"activate", "demote"}
      PROVE  Cardinality(Active' \ (Named(e)' \cup champ'[e])) <= faults'
  <2> DEFINE S == Active \ (Named(e) \cup champ[e])
             T == Active' \ (Named(e)' \cup champ'[e])
  <2>1. T \subseteq S /\ IsFiniteSet(S)
    BY <1>2, ActiveIsFinite, Fewer
  <2>2. Cardinality(S) <= faults
    BY <1>2 DEF ChampInv
  <2>3. Cardinality(T) <= Cardinality(S) /\ Cardinality(T) \in Nat /\ Cardinality(S) \in Nat
    BY <2>1, Fewer
  <2> HIDE DEF S, T
  <2>4. Cardinality(T) <= faults'
    BY <2>2, <2>3, <1>a
  <2> QED
    BY <2>4 DEF T
<1>3. \A e \in Evaluators : \A c, d \in champ'[e] : c = d
  BY DEF ChampInv
<1> QED
  BY <1>1, <1>2, <1>3 DEF ChampInv

\* A replacement ends: there is a fault for the two, or the champion has left.
LEMMA EndOfReplacement ==
  ASSUME TypeOK, TypeOK', ChampInv,
         \A e \in Evaluators : champ'[e] \subseteq champ[e] /\ pc'[e] \notin {"activate", "demote"},
         Cardinality(Active') <= 1 + faults'
  PROVE  ChampInv'
BY DEF ChampInv, OneChampionPerFault

\* With one evaluation, every step keeps one champion for every fault.
LEMMA ChampStep ==
  ASSUME TypeOK, TypeOK', HandInv, HandInv', Ordered(later, Active), ChampInv, Lone, [Next]_vars
  PROVE  ChampInv'
<1>a. faults \in Nat /\ faults' \in Nat /\ MaxFaults \in Nat
  BY PromotionAssumption DEF TypeOK
<1>b. IsFiniteSet(Active) /\ IsFiniteSet(Active')
  BY ActiveIsFinite
<1>c. Cardinality(Active) \in Nat /\ Cardinality(Active') \in Nat
  BY <1>b, FS_CardinalityType
<1>1. ASSUME NEW k \in Starters, NEW s \in Strategies, MarkShadow(k, s) PROVE ChampInv'
  <2>1. /\ Active' \subseteq Active /\ faults' >= faults
        /\ \A f \in Evaluators :
             /\ champ'[f] \subseteq champ[f]
             /\ pc[f] = "demote" => pc'[f] = "demote"
             /\ pc'[f] \in {"activate", "demote"} =>
                  pc[f] = pc'[f] /\ Named(f)' = Named(f) /\ champ'[f] = champ[f]
    BY <1>1, <1>a
      DEF MarkShadow, Begin, Without, TypeOK, Active, Named, Lone, registryVars, windowVars,
          evalVars, starterVars, history
  <2> QED
    BY <2>1, QuietStep
<1>2. ASSUME NEW k \in Starters, NEW s \in Strategies, MarkFails(k, s) PROVE ChampInv'
  <2>1. /\ Active' \subseteq Active /\ faults' >= faults
        /\ \A f \in Evaluators :
             /\ champ'[f] \subseteq champ[f]
             /\ pc[f] = "demote" => pc'[f] = "demote"
             /\ pc'[f] \in {"activate", "demote"} =>
                  pc[f] = pc'[f] /\ Named(f)' = Named(f) /\ champ'[f] = champ[f]
    BY <1>2, <1>a
      DEF MarkFails, Begin, Fault, TypeOK, Active, Named, Lone, registryVars, windowVars,
          evalVars, starterVars, history
  <2> QED
    BY <2>1, QuietStep
<1>3. ASSUME NEW k \in Starters, CountOpen(k) PROVE ChampInv'
  <2>1. /\ Active' \subseteq Active /\ faults' >= faults
        /\ \A f \in Evaluators :
             /\ champ'[f] \subseteq champ[f]
             /\ pc[f] = "demote" => pc'[f] = "demote"
             /\ pc'[f] \in {"activate", "demote"} =>
                  pc[f] = pc'[f] /\ Named(f)' = Named(f) /\ champ'[f] = champ[f]
    BY <1>3, <1>a
      DEF CountOpen, TypeOK, Active, Named, Lone, registryVars, windowVars, evalVars,
          starterVars, history
  <2> QED
    BY <2>1, QuietStep
<1>4. ASSUME NEW k \in Starters, NEW w \in Windows, InsertWindow(k, w) PROVE ChampInv'
  <2>1. /\ Active' \subseteq Active /\ faults' >= faults
        /\ \A f \in Evaluators :
             /\ champ'[f] \subseteq champ[f]
             /\ pc[f] = "demote" => pc'[f] = "demote"
             /\ pc'[f] \in {"activate", "demote"} =>
                  pc[f] = pc'[f] /\ Named(f)' = Named(f) /\ champ'[f] = champ[f]
    BY <1>4, <1>a
      DEF InsertWindow, StarterOff, Touched, TypeOK, Active, Named, Lone, registryVars,
          windowVars, evalVars, starterVars, history, HandInv, Promoting, In
  <2> QED
    BY <2>1, QuietStep
<1>5. ASSUME NEW k \in Starters, StarterEnds(k) PROVE ChampInv'
  <2>1. /\ Active' \subseteq Active /\ faults' >= faults
        /\ \A f \in Evaluators :
             /\ champ'[f] \subseteq champ[f]
             /\ pc[f] = "demote" => pc'[f] = "demote"
             /\ pc'[f] \in {"activate", "demote"} =>
                  pc[f] = pc'[f] /\ Named(f)' = Named(f) /\ champ'[f] = champ[f]
    BY <1>5, <1>a
      DEF StarterEnds, StarterOff, TypeOK, Active, Named, Lone, registryVars, windowVars,
          evalVars, starterVars, history
  <2> QED
    BY <2>1, QuietStep
<1>6. ASSUME NEW e \in Evaluators, BeginEvaluation(e) PROVE ChampInv'
  <2>1. /\ Active' \subseteq Active /\ faults' >= faults
        /\ \A f \in Evaluators :
             /\ champ'[f] \subseteq champ[f]
             /\ pc[f] = "demote" => pc'[f] = "demote"
             /\ pc'[f] \in {"activate", "demote"} =>
                  pc[f] = pc'[f] /\ Named(f)' = Named(f) /\ champ'[f] = champ[f]
    BY <1>6, <1>a
      DEF BeginEvaluation, At, Goto, TypeOK, Active, Named, Lone, registryVars, windowVars,
          evalVars, starterVars, history
  <2> QED
    BY <2>1, QuietStep
<1>7. ASSUME NEW e \in Evaluators, ReadQueued(e) PROVE ChampInv'
  <2>1. /\ Active' \subseteq Active /\ faults' >= faults
        /\ \A f \in Evaluators :
             /\ champ'[f] \subseteq champ[f]
             /\ pc[f] = "demote" => pc'[f] = "demote"
             /\ pc'[f] \in {"activate", "demote"} =>
                  pc[f] = pc'[f] /\ Named(f)' = Named(f) /\ champ'[f] = champ[f]
    BY <1>7, <1>a
      DEF ReadQueued, At, Goto, In, TypeOK, Active, Named, Lone, registryVars, windowVars,
          evalVars, starterVars, history
  <2> QED
    BY <2>1, QuietStep
<1>8. ASSUME NEW e \in Evaluators, NEW w \in Windows, ActivateQueued(e, w) PROVE ChampInv'
  <2>1. /\ Active' \subseteq Active /\ faults' >= faults
        /\ \A f \in Evaluators :
             /\ champ'[f] \subseteq champ[f]
             /\ pc[f] = "demote" => pc'[f] = "demote"
             /\ pc'[f] \in {"activate", "demote"} =>
                  pc[f] = pc'[f] /\ Named(f)' = Named(f) /\ champ'[f] = champ[f]
    BY <1>8, <1>a
      DEF ActivateQueued, At, Resolve, Touched, Newest, TypeOK, Active, Named, Lone,
          registryVars, windowVars, evalVars, starterVars, history
  <2> QED
    BY <2>1, QuietStep
<1>9. ASSUME NEW e \in Evaluators, EndActivation(e) PROVE ChampInv'
  <2>1. /\ Active' \subseteq Active /\ faults' >= faults
        /\ \A f \in Evaluators :
             /\ champ'[f] \subseteq champ[f]
             /\ pc[f] = "demote" => pc'[f] = "demote"
             /\ pc'[f] \in {"activate", "demote"} =>
                  pc[f] = pc'[f] /\ Named(f)' = Named(f) /\ champ'[f] = champ[f]
    BY <1>9, <1>a
      DEF EndActivation, At, Goto, TypeOK, Active, Named, Lone, registryVars, windowVars,
          evalVars, starterVars, history
  <2> QED
    BY <2>1, QuietStep
<1>10. ASSUME NEW e \in Evaluators, ReadBudget(e) PROVE ChampInv'
  <2>1. /\ Active' \subseteq Active /\ faults' >= faults
        /\ \A f \in Evaluators :
             /\ champ'[f] \subseteq champ[f]
             /\ pc[f] = "demote" => pc'[f] = "demote"
             /\ pc'[f] \in {"activate", "demote"} =>
                  pc[f] = pc'[f] /\ Named(f)' = Named(f) /\ champ'[f] = champ[f]
    BY <1>10, <1>a
      DEF ReadBudget, At, Goto, TypeOK, Active, Named, Lone, registryVars, windowVars, evalVars,
          starterVars, history
  <2> QED
    BY <2>1, QuietStep
<1>11. ASSUME NEW e \in Evaluators, ReadOpen(e) PROVE ChampInv'
  <2>1. /\ Active' \subseteq Active /\ faults' >= faults
        /\ \A f \in Evaluators :
             /\ champ'[f] \subseteq champ[f]
             /\ pc[f] = "demote" => pc'[f] = "demote"
             /\ pc'[f] \in {"activate", "demote"} =>
                  pc[f] = pc'[f] /\ Named(f)' = Named(f) /\ champ'[f] = champ[f]
    BY <1>11, <1>a
      DEF ReadOpen, At, Goto, In, TypeOK, Active, Named, Lone, registryVars, windowVars,
          evalVars, starterVars, history
  <2> QED
    BY <2>1, QuietStep
<1>12. ASSUME NEW e \in Evaluators, NEW w \in Windows, Extend(e, w) PROVE ChampInv'
  <2>1. /\ Active' \subseteq Active /\ faults' >= faults
        /\ \A f \in Evaluators :
             /\ champ'[f] \subseteq champ[f]
             /\ pc[f] = "demote" => pc'[f] = "demote"
             /\ pc'[f] \in {"activate", "demote"} =>
                  pc[f] = pc'[f] /\ Named(f)' = Named(f) /\ champ'[f] = champ[f]
    BY <1>12, <1>a
      DEF Extend, IsNext, At, Newest, TypeOK, Active, Named, Lone, registryVars, windowVars,
          evalVars, starterVars, history
  <2> QED
    BY <2>1, QuietStep
<1>13. ASSUME NEW e \in Evaluators, NEW w \in Windows, Reject(e, w) PROVE ChampInv'
  <2>1. /\ Active' \subseteq Active /\ faults' >= faults
        /\ \A f \in Evaluators :
             /\ champ'[f] \subseteq champ[f]
             /\ pc[f] = "demote" => pc'[f] = "demote"
             /\ pc'[f] \in {"activate", "demote"} =>
                  pc[f] = pc'[f] /\ Named(f)' = Named(f) /\ champ'[f] = champ[f]
    BY <1>13, <1>a
      DEF Reject, IsNext, At, Goto, Newest, Resolve, Without, TypeOK, Active, Named, Lone,
          registryVars, windowVars, evalVars, starterVars, history
  <2> QED
    BY <2>1, QuietStep
<1>14. ASSUME NEW e \in Evaluators, NEW w \in Windows, Wait(e, w) PROVE ChampInv'
  <2>1. /\ Active' \subseteq Active /\ faults' >= faults
        /\ \A f \in Evaluators :
             /\ champ'[f] \subseteq champ[f]
             /\ pc[f] = "demote" => pc'[f] = "demote"
             /\ pc'[f] \in {"activate", "demote"} =>
                  pc[f] = pc'[f] /\ Named(f)' = Named(f) /\ champ'[f] = champ[f]
    BY <1>14, <1>a
      DEF Wait, IsNext, At, Newest, TypeOK, Active, Named, Lone, registryVars, windowVars,
          evalVars, starterVars, history
  <2> QED
    BY <2>1, QuietStep
<1>15. ASSUME NEW e \in Evaluators, NEW w \in Windows, Win(e, w) PROVE ChampInv'
  <2> DEFINE s == strategy[w]
             A == Active \ {s}
  <2>1. /\ Active' = Active /\ faults' = faults /\ Named(e)' = {s} /\ champ'[e] = Champions(s, Active)
        /\ pc[e] = "judge" /\ pc'[e] = "activate" /\ \A f \in Evaluators : f = e
    BY <1>15
      DEF Win, Wins, IsNext, At, Goto, TypeOK, Lone, Named, Active, Champions, registryVars,
          windowVars, starterVars, history
  <2>2. Cardinality(Active) <= 1 + faults
    BY <2>1 DEF ChampInv, OneChampionPerFault, At
  <2>3. CASE A = {}
    <3>1. Champions(s, Active) \subseteq {Builtin}
      BY <2>3 DEF Champions
    <3>2. Active' \ (Named(e)' \cup champ'[e]) = {}
      BY <2>1, <2>3
    <3>3. Cardinality(Active' \ (Named(e)' \cup champ'[e])) <= faults'
      BY <3>2, <1>a, FS_EmptySet
    <3> HIDE DEF s
    <3> QED
      BY <2>1, <2>2, <3>1, <3>3 DEF ChampInv, OneChampionPerFault, At
  <2>4. CASE A # {}
    <3>1. Champions(s, Active) = {c \in Strategies : Newest(c, A, later)}
      BY <2>4 DEF Champions
    <3>2. PICK x \in A : \A y \in A : <<y, x>> \notin later
      <4>1. IsFiniteSet(A)
        BY <1>b, Fewer
      <4>2. /\ \A y \in A : <<y, y>> \notin later
            /\ \A y, z, u \in A : <<y, z>> \in later /\ <<z, u>> \in later => <<y, u>> \in later
        BY DEF Ordered
      <4> HIDE DEF A
      <4> QED
        BY <4>1, <4>2, <2>4, MaximalElement
    <3>3. x \in Champions(s, Active) /\ \A c, d \in Champions(s, Active) : c = d
      BY <3>1, <3>2 DEF Newest, Ordered, Active
    <3> DEFINE T == Active' \ (Named(e)' \cup champ'[e])
    <3>4. T \subseteq Active \ {x} /\ x \in Active
      BY <2>1, <3>2, <3>3
    <3>5. Cardinality(Active \ {x}) = Cardinality(Active) - 1 /\ IsFiniteSet(Active \ {x})
      BY <1>b, <3>4, FS_RemoveElement
    <3>6. Cardinality(T) <= Cardinality(Active \ {x}) /\ Cardinality(T) \in Nat
      BY <3>4, <3>5, Fewer
    <3> HIDE DEF T
    <3>7. Cardinality(T) <= faults
      BY <2>2, <3>5, <3>6, <1>a, <1>c
    <3>8. Cardinality(Active' \ (Named(e)' \cup champ'[e])) <= faults'
      BY <3>7, <2>1 DEF T
    <3> HIDE DEF s
    <3> QED
      BY <2>1, <2>2, <3>3, <3>8 DEF ChampInv, OneChampionPerFault, At
  <2> QED
    BY <2>3, <2>4
<1>16. ASSUME NEW e \in Evaluators, Retire(e) PROVE ChampInv'
  <2>1. /\ Active' \subseteq Active /\ faults' >= faults
        /\ \A f \in Evaluators :
             /\ champ'[f] \subseteq champ[f]
             /\ pc[f] = "demote" => pc'[f] = "demote"
             /\ pc'[f] \in {"activate", "demote"} =>
                  pc[f] = pc'[f] /\ Named(f)' = Named(f) /\ champ'[f] = champ[f]
    BY <1>16, <1>a
      DEF Retire, At, Goto, TypeOK, Active, Named, Lone, registryVars, windowVars, evalVars,
          starterVars, history, SetStatus
  <2> QED
    BY <2>1, QuietStep
<1>17. ASSUME NEW e \in Evaluators, Activate(e) PROVE ChampInv'
  <2>1. /\ pc[e] = "activate" /\ pc'[e] = "demote" /\ Named(e)' = Named(e) /\ champ' = champ
        /\ faults' = faults /\ \A f \in Evaluators : f = e
    BY <1>17 DEF Activate, At, Goto, TypeOK, Lone, Named, windowVars, history
  <2>2. Active' \subseteq Active \cup Named(e)
    BY <1>17, SetStatusActive DEF Activate, Named, TypeOK
  <2> DEFINE S == Active \ (Named(e) \cup champ[e])
             T == Active' \ (Named(e)' \cup champ'[e])
  <2>3. T \subseteq S
    BY <2>1, <2>2
  <2>4. IsFiniteSet(S)
    BY <1>b, Fewer
  <2>5. Cardinality(S) <= faults
    BY <2>1 DEF ChampInv
  <2>6. Cardinality(T) <= Cardinality(S) /\ Cardinality(T) \in Nat /\ Cardinality(S) \in Nat
    BY <2>3, <2>4, Fewer
  <2> HIDE DEF S, T
  <2>7. Cardinality(T) <= faults'
    BY <2>1, <2>5, <2>6, <1>a
  <2> QED
    BY <2>1, <2>7 DEF ChampInv, OneChampionPerFault, At, T
<1>18. ASSUME NEW e \in Evaluators, Demote(e) PROVE ChampInv'
  <2>1. /\ pc[e] = "demote" /\ pc'[e] = "promoted" /\ champ' = champ
        /\ faults' = faults /\ \A f \in Evaluators : f = e
    BY <1>18 DEF Demote, At, Goto, TypeOK, Lone, history
  <2>2. Active' \subseteq Active \ champ[e]
    <3>1. CASE champ[e] = {} /\ UNCHANGED registryVars
      BY <3>1 DEF registryVars, Active
    <3>2. ASSUME NEW c \in champ[e], SetStatus(c, "SHADOW") PROVE Active' \subseteq Active \ champ[e]
      <4>1. c \in Strategies /\ champ[e] = {c}
        <5>1. \A d \in champ[e] : d = c
          BY <3>2 DEF ChampInv
        <5>2. champ[e] = {c}
          BY <3>2, <5>1
        <5>3. champ[e] \subseteq Strategies
          BY DEF TypeOK
        <5> QED
          BY <5>2, <5>3
      <4>2. Active' = Active \ {c}
        BY <3>2, <4>1, SetStatusActive
      <4> QED
        BY <4>1, <4>2
    <3> QED
      BY <1>18, <3>1, <3>2 DEF Demote
  <2> DEFINE S == Active \ (Named(e) \cup champ[e])
  <2>3. PICK a : Named(e) \subseteq {a}
    BY NamedIsOne
  <2>4. Active' \subseteq S \cup {a}
    BY <2>2, <2>3
  <2>5. IsFiniteSet(S)
    BY <1>b, Fewer
  <2>6. Cardinality(S) <= faults
    BY <2>1 DEF ChampInv
  <2> HIDE DEF S
  <2>7. /\ IsFiniteSet(S \cup {a}) /\ Cardinality(S) \in Nat /\ Cardinality(S \cup {a}) \in Nat
        /\ Cardinality(S \cup {a}) <= Cardinality(S) + 1
    BY <2>5, OneMore
  <2>8. Cardinality(Active') <= Cardinality(S \cup {a})
    BY <2>4, <2>7, Fewer
  <2>9. Cardinality(Active') <= 1 + faults'
    BY <2>1, <2>6, <2>7, <2>8, <1>a, <1>c
  <2> QED
    BY <2>1, <2>9, EndOfReplacement
<1>19. ASSUME NEW e \in Evaluators, Promote(e) PROVE ChampInv'
  <2>1. /\ Active' \subseteq Active /\ faults' >= faults
        /\ \A f \in Evaluators :
             /\ champ'[f] \subseteq champ[f]
             /\ pc[f] = "demote" => pc'[f] = "demote"
             /\ pc'[f] \in {"activate", "demote"} =>
                  pc[f] = pc'[f] /\ Named(f)' = Named(f) /\ champ'[f] = champ[f]
    BY <1>19, <1>a
      DEF Promote, At, Goto, Resolve, Without, TypeOK, Active, Named, Lone, registryVars,
          windowVars, evalVars, starterVars, history
  <2> QED
    BY <2>1, QuietStep
<1>20. ASSUME NEW e \in Evaluators, EndEvaluation(e) PROVE ChampInv'
  <2>1. /\ Active' \subseteq Active /\ faults' >= faults
        /\ \A f \in Evaluators :
             /\ champ'[f] \subseteq champ[f]
             /\ pc[f] = "demote" => pc'[f] = "demote"
             /\ pc'[f] \in {"activate", "demote"} =>
                  pc[f] = pc'[f] /\ Named(f)' = Named(f) /\ champ'[f] = champ[f]
    BY <1>20, <1>a
      DEF EndEvaluation, At, Goto, Ended, TypeOK, Active, Named, Lone, registryVars, windowVars,
          evalVars, starterVars, history
  <2> QED
    BY <2>1, QuietStep
<1>21. ASSUME NEW e \in Evaluators, RetireFails(e) PROVE ChampInv'
  <2>1. /\ Active' \subseteq Active /\ faults' >= faults
        /\ \A f \in Evaluators :
             /\ champ'[f] \subseteq champ[f]
             /\ pc[f] = "demote" => pc'[f] = "demote"
             /\ pc'[f] \in {"activate", "demote"} =>
                  pc[f] = pc'[f] /\ Named(f)' = Named(f) /\ champ'[f] = champ[f]
    BY <1>21, <1>a
      DEF RetireFails, At, Goto, Fault, TypeOK, Active, Named, Lone, registryVars, windowVars,
          evalVars, starterVars, history
  <2> QED
    BY <2>1, QuietStep
<1>22. ASSUME NEW e \in Evaluators, ReplaceFails(e) PROVE ChampInv'
  <2>1. faults' = faults + 1 /\ UNCHANGED status /\ \A f \in Evaluators : f = e
    BY <1>22 DEF ReplaceFails, Fault, Lone, registryVars
  <2>2. Active' = Active
    BY <2>1 DEF Active
  <2>3. \A f \in Evaluators : champ'[f] \subseteq champ[f] /\ pc'[f] \notin {"activate", "demote"}
    BY <2>1, <1>22 DEF ReplaceFails, TypeOK, Goto, evalVars
  <2>4. CASE pc[e] # "demote"
    <3>1. Cardinality(Active) <= 1 + faults
      BY <2>1, <2>4 DEF ChampInv, OneChampionPerFault, At
    <3>2. Cardinality(Active') <= 1 + faults'
      BY <2>1, <2>2, <3>1, <1>a, <1>c
    <3> QED
      BY <2>3, <2>1, <3>2, EndOfReplacement
  <2>5. CASE pc[e] = "demote"
    <3> DEFINE S == Active \ (Named(e) \cup champ[e])
    <3>1. \A s, t \in Named(e) : s = t
      BY NamedIsOne
    <3>2. Cardinality(Active) <= Cardinality(S) + 2
      BY <3>1, <1>b, TwoMore DEF ChampInv
    <3>3. Cardinality(S) <= faults /\ IsFiniteSet(S)
      BY <2>5, <1>b, Fewer DEF ChampInv
    <3>4. Cardinality(S) \in Nat
      BY <3>3, FS_CardinalityType
    <3> HIDE DEF S
    <3> QED
      <4>1. Cardinality(Active') <= 1 + faults'
        BY <3>2, <3>3, <3>4, <2>1, <2>2, <1>a, <1>c
      <4> QED
        BY <2>1, <2>3, <4>1, EndOfReplacement
  <2> QED
    BY <2>4, <2>5
<1>23. ASSUME NEW e \in Evaluators, Crash(e) PROVE ChampInv'
  <2>1. faults' = faults + 1 /\ UNCHANGED status /\ \A f \in Evaluators : f = e
    BY <1>23 DEF Crash, Fault, Lone, Ended, registryVars
  <2>2. Active' = Active
    BY <2>1 DEF Active
  <2>3. \A f \in Evaluators : champ'[f] \subseteq champ[f] /\ pc'[f] \notin {"activate", "demote"}
    BY <2>1, <1>23 DEF Crash, TypeOK, Goto, Ended
  <2>4. CASE pc[e] # "demote"
    <3>1. /\ Active' \subseteq Active /\ faults' >= faults
          /\ \A f \in Evaluators :
               /\ champ'[f] \subseteq champ[f]
               /\ pc[f] = "demote" => pc'[f] = "demote"
               /\ pc'[f] \in {"activate", "demote"} =>
                    pc[f] = pc'[f] /\ Named(f)' = Named(f) /\ champ'[f] = champ[f]
      BY <1>23, <2>4, <1>a
        DEF Crash, At, Goto, Ended, Fault, TypeOK, Active, Named, Lone, registryVars,
            windowVars, evalVars, starterVars, history
    <3> QED
      BY <3>1, QuietStep
  <2>5. CASE pc[e] = "demote"
    <3> DEFINE S == Active \ (Named(e) \cup champ[e])
    <3>1. \A s, t \in Named(e) : s = t
      BY NamedIsOne
    <3>2. Cardinality(Active) <= Cardinality(S) + 2
      BY <3>1, <1>b, TwoMore DEF ChampInv
    <3>3. Cardinality(S) <= faults /\ IsFiniteSet(S)
      BY <2>5, <1>b, Fewer DEF ChampInv
    <3>4. Cardinality(S) \in Nat
      BY <3>3, FS_CardinalityType
    <3> HIDE DEF S
    <3> QED
      <4>1. Cardinality(Active') <= 1 + faults'
        BY <3>2, <3>3, <3>4, <2>1, <2>2, <1>a, <1>c
      <4> QED
        BY <2>1, <2>3, <4>1, EndOfReplacement
  <2> QED
    BY <2>4, <2>5
<1>24. ASSUME NEW w \in Windows, Ripen(w) PROVE ChampInv'
  <2>1. /\ Active' \subseteq Active /\ faults' >= faults
        /\ \A f \in Evaluators :
             /\ champ'[f] \subseteq champ[f]
             /\ pc[f] = "demote" => pc'[f] = "demote"
             /\ pc'[f] \in {"activate", "demote"} =>
                  pc[f] = pc'[f] /\ Named(f)' = Named(f) /\ champ'[f] = champ[f]
    BY <1>24, <1>a
      DEF Ripen, Unresolved, In, TypeOK, Active, Named, Lone, registryVars, windowVars,
          evalVars, starterVars, history
  <2> QED
    BY <2>1, QuietStep
<1>25. ASSUME NEW s \in Strategies, NEW new \in {"ACTIVE", "SHADOW", "RETIRED"}, SetByHand(s, new)
     PROVE  ChampInv'
  <2>1. /\ Active' \subseteq Active \cup {s} /\ faults' = faults + 1
        /\ UNCHANGED <<pc, champ, cur, strategy>>
    BY <1>25 DEF SetByHand, Fault, TypeOK, Active, windowVars, evalVars
  <2>2. ASSUME NEW S, IsFiniteSet(S), NEW T, T \subseteq S \cup {s}, NEW n \in Nat, Cardinality(S) <= n
        PROVE  Cardinality(T) <= n + 1
    <3>1. /\ IsFiniteSet(S \cup {s}) /\ Cardinality(S \cup {s}) <= Cardinality(S) + 1
          /\ Cardinality(S) \in Nat /\ Cardinality(S \cup {s}) \in Nat
      BY <2>2, OneMore
    <3>2. Cardinality(T) <= Cardinality(S \cup {s}) /\ Cardinality(T) \in Nat
      BY <2>2, <3>1, Fewer
    <3> QED
      BY <2>2, <3>1, <3>2
  <2>3. OneChampionPerFault'
    <3> SUFFICES ASSUME \A e \in Evaluators : pc'[e] # "demote"
                 PROVE  Cardinality(Active') <= 1 + faults'
      BY DEF OneChampionPerFault, At
    <3>1. Cardinality(Active) <= 1 + faults
      BY <2>1 DEF ChampInv, OneChampionPerFault, At
    <3>2. Cardinality(Active') <= (1 + faults) + 1
      BY <2>1, <2>2, <3>1, <1>a, <1>b
    <3> QED
      BY <2>1, <3>2, <1>a, <1>c
  <2>4. ASSUME NEW e \in Evaluators, pc'[e] \in {"activate", "demote"}
        PROVE  Cardinality(Active' \ (Named(e)' \cup champ'[e])) <= faults'
    <3> DEFINE S == Active \ (Named(e) \cup champ[e])
               T == Active' \ (Named(e)' \cup champ'[e])
    <3>1. Named(e)' = Named(e)
      BY <2>1 DEF Named
    <3>2. T \subseteq S \cup {s}
      BY <2>1, <3>1
    <3>3. Cardinality(S) <= faults /\ IsFiniteSet(S)
      BY <2>1, <2>4, <1>b, Fewer DEF ChampInv
    <3> HIDE DEF S, T
    <3>4. Cardinality(T) <= faults + 1
      BY <3>2, <3>3, <2>2, <1>a
    <3> QED
      BY <2>1, <3>4 DEF T
  <2> QED
    BY <2>1, <2>3, <2>4 DEF ChampInv
<1>26. ASSUME NextWeek PROVE ChampInv'
  <2>1. /\ Active' \subseteq Active /\ faults' >= faults
        /\ \A f \in Evaluators :
             /\ champ'[f] \subseteq champ[f]
             /\ pc[f] = "demote" => pc'[f] = "demote"
             /\ pc'[f] \in {"activate", "demote"} =>
                  pc[f] = pc'[f] /\ Named(f)' = Named(f) /\ champ'[f] = champ[f]
    BY <1>26, <1>a
      DEF NextWeek, At, Unresolved, In, TypeOK, Active, Named, Lone, registryVars, windowVars,
          evalVars, starterVars, history
  <2> QED
    BY <2>1, QuietStep
<1>27. ASSUME UNCHANGED vars PROVE ChampInv'
  BY <1>27 DEF vars, ChampInv, OneChampionPerFault, At, Named, Active
\* Nobody has left, and the faults are one more.
<1>28. ASSUME NEW e \in Evaluators, NEW w \in Windows, WinUnread(e, w) PROVE ChampInv'
  <2> DEFINE s == strategy[w]
             T == Active' \ (Named(e)' \cup champ'[e])
  <2>1. /\ Active' = Active /\ faults' = faults + 1 /\ champ'[e] = Champions(s, {})
        /\ pc[e] = "judge" /\ pc'[e] = "activate" /\ \A f \in Evaluators : f = e
    BY <1>28
      DEF WinUnread, Wins, IsNext, At, Goto, Fault, TypeOK, Lone, Active, registryVars
  <2>2. Cardinality(Active) <= 1 + faults
    BY <2>1 DEF ChampInv, OneChampionPerFault, At
  <2>3. \A c, d \in champ'[e] : c = d
    BY <2>1 DEF Champions
  <2>4. T \subseteq Active
    BY <2>1
  <2> HIDE DEF T
  <2>5. Cardinality(T) <= faults'
    BY <1>a, <1>b, <1>c, <2>1, <2>2, <2>4, Fewer
  <2>6. Cardinality(Active' \ (Named(e)' \cup champ'[e])) <= faults'
    BY <2>5 DEF T
  <2>7. Cardinality(Active') <= 1 + faults'
    BY <1>a, <1>c, <2>1, <2>2
  <2> QED
    BY <2>1, <2>3, <2>6, <2>7 DEF ChampInv, OneChampionPerFault, At
<1> QED
  BY <1>1, <1>2, <1>3, <1>4, <1>5, <1>6, <1>7, <1>8, <1>9, <1>10, <1>11, <1>12, <1>13,
     <1>14, <1>15, <1>16, <1>17, <1>18, <1>19, <1>20, <1>21, <1>22, <1>23, <1>24, <1>25,
     <1>26, <1>27, <1>28 DEF Next, Starter, Evaluate, Faulty

\* With one evaluation at a time there is one champion, and one more for every
\* crash, failed write or command by hand.
THEOREM OneChampionIsKept ==
  ASSUME Lone
  PROVE  Spec => []OneChampionPerFault
<1>1. Init => HandInv /\ Ordered(later, Active) /\ ChampInv
  <2> SUFFICES ASSUME Init PROVE HandInv /\ Ordered(later, Active) /\ ChampInv
    OBVIOUS
  <2>1. Active \subseteq {Builtin} /\ later = {} /\ faults = 0
    BY PromotionAssumption DEF Init, Active
  <2>2. Cardinality(Active) <= 1
    <3>1. IsFiniteSet({Builtin}) /\ Cardinality({Builtin}) = 1
      BY FS_Singleton
    <3> QED
      BY <2>1, <3>1, Fewer
  <2> QED
    BY <2>1, <2>2
      DEF Init, HandInv, Promoting, ChampInv, OneChampionPerFault, At, Ordered
<1>2. /\ TypeOK /\ TypeOK' /\ HandInv /\ Ordered(later, Active) /\ ChampInv /\ [Next]_vars
      => (HandInv /\ Ordered(later, Active) /\ ChampInv)'
  BY HandStep, OrderStep, ChampStep
<1>3. ChampInv => OneChampionPerFault
  BY DEF ChampInv
<1> QED
  BY <1>1, <1>2, <1>3, PromotionTypeCorrect, PTL DEF Spec

=============================================================================
