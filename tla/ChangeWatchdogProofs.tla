------------------------ MODULE ChangeWatchdogProofs ------------------------
(***************************************************************************)
(* Proofs about ChangeWatchdog, for any changes, any commands, any window  *)
(* and any number of crashes and exceptions.                               *)
(***************************************************************************)
EXTENDS ChangeWatchdog, TLAPS

LEMMA NightRuns == Night \in Processes /\ Operators \subseteq Processes
BY DEF Processes

-----------------------------------------------------------------------------
(* Types.                                                                  *)

\* The row that a writer leaves, from the one it has read.
LEMMA RowUpdates ==
  ASSUME NEW row \in Rows
  PROVE  /\ \A s \in Statuses : [row EXCEPT !.status = s] \in Rows
         /\ \A i \in Impacts : [row EXCEPT !.impact = i] \in Rows
         /\ \A p \in Processes :
              [row EXCEPT !.status = "ROLLED_BACK", !.by = p] \in Rows
BY DEF Rows, Statuses

LEMMA NoRowTyped == NoRow \in Rows /\ NoRows \in [Changes -> Rows]
BY DEF NoRow, NoRows, Rows, Statuses, Impacts

\* What a process has read are rows.
LEMMA ReadTyped ==
  ASSUME TypeOK, NEW p \in Processes, NEW S, Reads(p, S)
  PROVE  read' \in [Processes -> [Changes -> Rows]]
<1>1. [c \in Changes |-> IF c \in S THEN rows[c] ELSE NoRow] \in [Changes -> Rows]
  BY NoRowTyped DEF TypeOK
<1> QED
  BY <1>1 DEF Reads, TypeOK

LEMMA ReplaceTyped ==
  ASSUME TypeOK, NEW p \in Processes, NEW c \in Changes, NEW row \in Rows,
         Replace(p, c, row)
  PROVE  rows' \in [Changes -> Rows] /\ crossed' \in SUBSET Changes
BY DEF Replace, TypeOK

LEMMA HandledTyped ==
  ASSUME TypeOK, NEW c \in Changes, Handled(c)
  PROVE  /\ todo' \in [Processes -> SUBSET Changes]
         /\ read' \in [Processes -> [Changes -> Rows]]
<1>1. [read[Night] EXCEPT ![c] = NoRow] \in [Changes -> Rows]
  BY NightRuns, NoRowTyped DEF TypeOK
<1>2. read' = [read EXCEPT ![Night] = [read[Night] EXCEPT ![c] = NoRow]]
  BY DEF Handled
<1>3. todo' = [todo EXCEPT ![Night] = todo[Night] \ {c}]
  BY DEF Handled
<1> QED
  BY <1>1, <1>2, <1>3, NightRuns DEF TypeOK

\* A saved row ends the application of its change.
LEMMA SavedTyped ==
  ASSUME TypeOK, NEW c \in Changes, NEW s \in Statuses, Saved(c, s),
         code' = code, mixed' = mixed, merging' \in BOOLEAN
  PROVE  TypeOK'
<1>1. [status |-> s, by |-> "none", impact |-> IF c \in Human THEN "PENDING" ELSE "none"]
        \in Rows
  BY DEF Rows, Impacts
<1>2. rows' \in [Changes -> Rows]
  BY <1>1 DEF Saved, TypeOK
<1>3. younger' \subseteq Changes \X Changes
  BY DEF Saved, TypeOK
<1>4. today' \subseteq Changes
  BY DEF Saved, TypeOK
<1> QED
  BY <1>2, <1>3, <1>4 DEF Saved, TypeOK, processVars

\* Whatever a rollback leaves behind.
LEMMA LeftTyped ==
  ASSUME TypeOK, NEW p \in Processes, Left(p),
         rows' \in [Changes -> Rows], crossed' \subseteq Changes,
         since' \in [Changes -> 0 .. DemoteSessions], faults' \in 0 .. MaxFaults
  PROVE  TypeOK'
<1>1. pc' \in [Processes -> {"off", "evaluate", "list", "rollback", "find", "revert", "suite",
                             "failed", "autonomy", "impacts", "resolve", "ended"}]
  BY DEF Left, Goto, TypeOK
<1>2. /\ todo' \in [Processes -> SUBSET Changes]
      /\ cur' \in [Processes -> SUBSET Changes]
      /\ read' \in [Processes -> [Changes -> Rows]]
  BY NoRowTyped DEF Left, TypeOK
<1> QED
  BY <1>1, <1>2 DEF Left, TypeOK, treeVars, applyVars, timeVars

\* Every row, set and place keeps its shape; the level of autonomy never
\* leaves 1 .. 3 (a demotion at the lowest level is none).
LEMMA TypeStep ==
  ASSUME TypeOK, [Next]_vars
  PROVE  TypeOK'
<1> USE WatchdogAssumption, NightRuns
      DEF TypeOK, treeVars, applyVars, timeVars, processVars, At, Goto, Statuses, Impacts
<1>1. ASSUME NEW c \in Changes, Open(c) PROVE TypeOK'
  <2>1. InMain \in SUBSET Changes
    BY DEF InMain
  <2> QED
    BY <1>1, <2>1 DEF Open
<1>2. ASSUME NEW c \in Changes, Validate(c) PROVE TypeOK'
  BY <1>2 DEF Validate
<1>3. ASSUME NEW c \in Changes, Refuse(c) PROVE TypeOK'
  BY <1>3, SavedTyped DEF Refuse
<1>4. ASSUME NEW c \in Changes, Merge(c) PROVE TypeOK'
  BY <1>4 DEF Merge
<1>5. ASSUME NEW c \in Changes, MergeFails(c) PROVE TypeOK'
  BY <1>5, SavedTyped DEF MergeFails
<1>6. ASSUME NEW c \in Changes, CommitHuman(c) PROVE TypeOK'
  BY <1>6 DEF CommitHuman
<1>7. ASSUME NEW c \in Changes, SaveApplied(c) PROVE TypeOK'
  BY <1>7, SavedTyped DEF SaveApplied
<1>8. ASSUME NEW c \in Changes, ApplyCrashes(c) PROVE TypeOK'
  <2>1. faults' \in 0 .. MaxFaults
    BY <1>8 DEF ApplyCrashes, Fault
  <2> QED
    BY <1>8, <2>1 DEF ApplyCrashes
<1>9. ASSUME NEW o \in Operators, NEW c \in Changes, Command(o, c) PROVE TypeOK'
  BY <1>9 DEF Command
<1>10. ASSUME NEW p \in Processes, Find(p) PROVE TypeOK'
  <2>1. read' \in [Processes -> [Changes -> Rows]]
    BY <1>10, ReadTyped DEF Find
  <2> QED
    BY <1>10, <2>1 DEF Find
<1>11. ASSUME NEW p \in Processes, Revert(p) PROVE TypeOK'
  BY <1>11 DEF Revert
<1>12. ASSUME NEW p \in Processes, RevertFails(p) PROVE TypeOK'
  BY <1>12 DEF RevertFails
<1>13. ASSUME NEW p \in Processes, SaveRolledBack(p) PROVE TypeOK'
  <2>1. PICK c \in cur[p] : Replace(p, c, [read[p][c] EXCEPT !.status = "ROLLED_BACK", !.by = p])
    BY <1>13 DEF SaveRolledBack
  <2>2. c \in Changes /\ read[p][c] \in Rows
    OBVIOUS
  <2>3. rows' \in [Changes -> Rows] /\ crossed' \in SUBSET Changes
    BY <2>1, <2>2, RowUpdates, ReplaceTyped DEF Statuses
  <2>4. since' \in [Changes -> 0 .. DemoteSessions]
    BY <1>13 DEF SaveRolledBack
  <2> QED
    BY <1>13, <2>3, <2>4, LeftTyped DEF SaveRolledBack
<1>14. ASSUME NEW p \in Processes, SaveRollbackFailed(p) PROVE TypeOK'
  <2>1. PICK c \in cur[p] : Replace(p, c, [read[p][c] EXCEPT !.status = "ROLLBACK_FAILED"])
    BY <1>14 DEF SaveRollbackFailed
  <2>2. c \in Changes /\ read[p][c] \in Rows
    OBVIOUS
  <2>3. rows' \in [Changes -> Rows] /\ crossed' \in SUBSET Changes
    BY <2>1, <2>2, RowUpdates, ReplaceTyped DEF Statuses
  <2>4. since' \in [Changes -> 0 .. DemoteSessions]
    BY <1>14 DEF SaveRollbackFailed
  <2> QED
    BY <1>14, <2>3, <2>4, LeftTyped DEF SaveRollbackFailed
<1>15. ASSUME NEW p \in Processes, RollbackRaises(p) PROVE TypeOK'
  <2>1. faults' \in 0 .. MaxFaults /\ crossed' \in SUBSET Changes
    BY <1>15 DEF RollbackRaises, Fault
  <2> QED
    BY <1>15, <2>1, LeftTyped DEF RollbackRaises
<1>16. CASE BeginNight
  <2>1. age' \in [Changes -> 0 .. Window + 1]
    BY <1>16 DEF BeginNight
  <2>2. since' \in [Changes -> 0 .. DemoteSessions]
    <3>1. ASSUME NEW c \in Changes, since[c] # DemoteSessions
          PROVE  since[c] + 1 \in 0 .. DemoteSessions
      <4>1. since[c] \in 0 .. DemoteSessions /\ DemoteSessions \in Nat
        OBVIOUS
      <4> HIDE DEF TypeOK
      <4> QED
        BY <3>1, <4>1
    <3>2. since' = [c \in Changes |->
                      IF done \/ rows[c].by # Night \/ since[c] = DemoteSessions
                      THEN since[c] ELSE since[c] + 1]
      BY <1>16 DEF BeginNight
    <3> QED
      BY <3>1, <3>2
  <2>3. todo' \in [Processes -> SUBSET Changes]
    BY <1>16 DEF BeginNight, WithStatus
  <2>4. read' \in [Processes -> [Changes -> Rows]]
    BY <1>16, ReadTyped DEF BeginNight
  <2> QED
    BY <1>16, <2>1, <2>2, <2>3, <2>4 DEF BeginNight
<1>17. ASSUME NEW c \in Changes, RecordClass(c) PROVE TypeOK'
  <2>0. read[Night][c] \in Rows
    OBVIOUS
  <2>1. \E i \in Impacts : Replace(Night, c, [read[Night][c] EXCEPT !.impact = i])
    BY <1>17 DEF RecordClass, Judged, Impacts
  <2>2. rows' \in [Changes -> Rows] /\ crossed' \in SUBSET Changes
    BY <2>0, <2>1, RowUpdates, ReplaceTyped DEF Statuses
  <2>3. todo' \in [Processes -> SUBSET Changes] /\ read' \in [Processes -> [Changes -> Rows]]
    BY <1>17, HandledTyped DEF RecordClass, Judged
  <2> QED
    BY <1>17, <2>2, <2>3 DEF RecordClass, Judged
<1>18. ASSUME NEW c \in Changes, WaitOrGraduate(c) PROVE TypeOK'
  <2>1. todo' \in [Processes -> SUBSET Changes] /\ read' \in [Processes -> [Changes -> Rows]]
    BY <1>18, HandledTyped DEF WaitOrGraduate, Judged
  <2> QED
    BY <1>18, <2>1 DEF WaitOrGraduate, Judged
<1>19. ASSUME NEW c \in Changes, RequestRollback(c) PROVE TypeOK'
  <2>0. read[Night][c] \in Rows
    OBVIOUS
  <2>1. Replace(Night, c, [read[Night][c] EXCEPT !.status = "ROLLBACK_REQUESTED"])
    BY <1>19 DEF RequestRollback, Watched, Judged, Impacts
  <2>2. rows' \in [Changes -> Rows] /\ crossed' \in SUBSET Changes
    BY <2>0, <2>1, RowUpdates, ReplaceTyped DEF Statuses
  <2>3. todo' \in [Processes -> SUBSET Changes] /\ read' \in [Processes -> [Changes -> Rows]]
    BY <1>19, HandledTyped DEF RequestRollback, Watched, Judged
  <2> QED
    BY <1>19, <2>2, <2>3 DEF RequestRollback, Watched, Judged
<1>20. ASSUME NEW c \in Changes, Hold(c) PROVE TypeOK'
  <2>0. read[Night][c] \in Rows
    OBVIOUS
  <2>1. \E i \in Impacts : Replace(Night, c, [read[Night][c] EXCEPT !.impact = i])
    BY <1>20 DEF Hold, Watched, Judged, Impacts
  <2>2. rows' \in [Changes -> Rows] /\ crossed' \in SUBSET Changes
    BY <2>0, <2>1, RowUpdates, ReplaceTyped DEF Statuses
  <2>3. todo' \in [Processes -> SUBSET Changes] /\ read' \in [Processes -> [Changes -> Rows]]
    BY <1>20, HandledTyped DEF Hold, Watched, Judged
  <2> QED
    BY <1>20, <2>2, <2>3 DEF Hold, Watched, Judged
<1>21. CASE EndEvaluation
  BY <1>21 DEF EndEvaluation
<1>22. CASE ListRequested
  BY <1>22 DEF ListRequested, WithStatus
<1>23. ASSUME NEW c \in Changes, NextRollback(c) PROVE TypeOK'
  BY <1>23 DEF NextRollback
<1>24. CASE EndRollbacks
  BY <1>24 DEF EndRollbacks
<1>25. CASE CheckAutonomy
  <2>1. level' \in 1 .. 3
    BY <1>25 DEF CheckAutonomy
  <2> QED
    BY <1>25, <2>1 DEF CheckAutonomy
<1>26. CASE ReadImpacts
  <2>1. todo' \in [Processes -> SUBSET Changes]
    BY <1>26 DEF ReadImpacts, WithStatus
  <2>2. read' \in [Processes -> [Changes -> Rows]]
    BY <1>26, ReadTyped DEF ReadImpacts
  <2> QED
    BY <1>26, <2>1, <2>2 DEF ReadImpacts
<1>27. ASSUME NEW c \in Changes, ResolveImpact(c) PROVE TypeOK'
  <2>0. read[Night][c] \in Rows
    OBVIOUS
  <2>1. \E i \in Impacts : Replace(Night, c, [read[Night][c] EXCEPT !.impact = i])
    BY <1>27 DEF ResolveImpact, Impacts
  <2>2. rows' \in [Changes -> Rows] /\ crossed' \in SUBSET Changes
    BY <2>0, <2>1, RowUpdates, ReplaceTyped DEF Statuses
  <2>3. todo' \in [Processes -> SUBSET Changes] /\ read' \in [Processes -> [Changes -> Rows]]
    BY <1>27, HandledTyped DEF ResolveImpact
  <2> QED
    BY <1>27, <2>2, <2>3 DEF ResolveImpact
<1>28. CASE EndNight
  BY <1>28, NoRowTyped DEF EndNight, NightOff
<1>29. CASE NightCrashes
  <2>1. faults' \in 0 .. MaxFaults /\ crossed' \in SUBSET Changes
    BY <1>29 DEF NightCrashes, Fault
  <2> QED
    BY <1>29, <2>1, NoRowTyped DEF NightCrashes, NightOff
<1>30. CASE NextDay
  BY <1>30 DEF NextDay
<1>31. ASSUME NEW c \in Changes, Mature(c) PROVE TypeOK'
  BY <1>31 DEF Mature
<1>32. CASE AbortMerge
  BY <1>32 DEF AbortMerge
<1>33. CASE UNCHANGED vars
  BY <1>33 DEF vars
<1>34. CASE WatchdogRaises
  <2>1. faults' \in 0 .. MaxFaults
    BY <1>34 DEF WatchdogRaises, Fault
  <2> QED
    BY <1>34, <2>1, NoRowTyped, NightRuns DEF WatchdogRaises
<1> QED
  BY <1>1, <1>2, <1>3, <1>4, <1>5, <1>6, <1>7, <1>8, <1>9, <1>10, <1>11, <1>12,
     <1>13, <1>14, <1>15, <1>16, <1>17, <1>18, <1>19, <1>20, <1>21, <1>22,
     <1>23, <1>24, <1>25, <1>26, <1>27, <1>28, <1>29, <1>30, <1>31, <1>32,
     <1>33, <1>34, NightRuns
     DEF Next, ApplyChange, RollBack, Review

-----------------------------------------------------------------------------
(* What stands in the main branch.  The rows are written over blindly, so  *)
(* the two invariants rest on where the code is, and not on the rows that  *)
(* were there before.                                                      *)

\* The application of a change has ended when it has a row, and before any
\* process takes the change up.
SavedIsDone ==
  /\ \A c \in Changes : rows[c] # NoRow => at[c] = "done"
  /\ \A p \in Processes : \A c \in todo[p] \cup cur[p] : at[c] = "done"

\* The code of a change that is being applied is where the application is.
CodeFollows ==
  \A c \in Changes :
    /\ at[c] \in {"new", "open", "green"} => code[c] = "out"
    /\ at[c] = "merged" => code[c] = "in"

\* A process rolls one change back at a time, and runs the suite after its
\* revert only.
RevertPrecedesSuite ==
  \A p \in Processes :
    /\ \A c, d \in cur[p] : c = d
    /\ At(p, "suite") => \A c \in cur[p] : code[c] = "reverted"

\* The evaluation and the verdicts handle rows that were APPLIED when read.
HandlesApplied ==
  pc[Night] \in {"evaluate", "resolve"} =>
    \A c \in todo[Night] : read[Night][c].status = "APPLIED"

WatchdogInv ==
  /\ TypeOK
  /\ SavedIsDone /\ CodeFollows /\ RevertPrecedesSuite /\ HandlesApplied
  /\ RolledBackIsOut /\ AppliedIsIn

\* The application hands a change over when its row is saved, or when it
\* breaks off; nothing that takes it up before changes where its code is.
LEMMA PlacesStep ==
  ASSUME TypeOK, SavedIsDone, CodeFollows, [Next]_vars
  PROVE  SavedIsDone' /\ CodeFollows'
<1> USE NightRuns DEF TypeOK, treeVars, applyVars, timeVars, processVars, At, Goto, SavedIsDone, CodeFollows, NoRow
<1>1. ASSUME NEW c \in Changes, Open(c) PROVE SavedIsDone' /\ CodeFollows'
  BY <1>1 DEF Open
<1>2. ASSUME NEW c \in Changes, Validate(c) PROVE SavedIsDone' /\ CodeFollows'
  BY <1>2 DEF Validate
<1>3. ASSUME NEW c \in Changes, Refuse(c) PROVE SavedIsDone' /\ CodeFollows'
  BY <1>3 DEF Refuse, Saved
<1>4. ASSUME NEW c \in Changes, Merge(c) PROVE SavedIsDone' /\ CodeFollows'
  BY <1>4 DEF Merge
<1>5. ASSUME NEW c \in Changes, MergeFails(c) PROVE SavedIsDone' /\ CodeFollows'
  BY <1>5 DEF MergeFails, Saved
<1>6. ASSUME NEW c \in Changes, CommitHuman(c) PROVE SavedIsDone' /\ CodeFollows'
  BY <1>6 DEF CommitHuman
<1>7. ASSUME NEW c \in Changes, SaveApplied(c) PROVE SavedIsDone' /\ CodeFollows'
  BY <1>7 DEF SaveApplied, Saved
<1>8. ASSUME NEW c \in Changes, ApplyCrashes(c) PROVE SavedIsDone' /\ CodeFollows'
  BY <1>8 DEF ApplyCrashes, Fault
<1>9. ASSUME NEW o \in Operators, NEW c \in Changes, Command(o, c) PROVE SavedIsDone' /\ CodeFollows'
  BY <1>9 DEF Command
<1>10. ASSUME NEW p \in Processes, Find(p) PROVE SavedIsDone' /\ CodeFollows'
  BY <1>10 DEF Find, Reads
<1>11. ASSUME NEW p \in Processes, Revert(p) PROVE SavedIsDone' /\ CodeFollows'
  BY <1>11 DEF Revert
<1>12. ASSUME NEW p \in Processes, RevertFails(p) PROVE SavedIsDone' /\ CodeFollows'
  BY <1>12 DEF RevertFails
<1>13. ASSUME NEW p \in Processes, SaveRolledBack(p) PROVE SavedIsDone' /\ CodeFollows'
  BY <1>13 DEF SaveRolledBack, Replace, Left
<1>14. ASSUME NEW p \in Processes, SaveRollbackFailed(p) PROVE SavedIsDone' /\ CodeFollows'
  BY <1>14 DEF SaveRollbackFailed, Replace, Left
<1>15. ASSUME NEW p \in Processes, RollbackRaises(p) PROVE SavedIsDone' /\ CodeFollows'
  BY <1>15 DEF RollbackRaises, Fault, Left
<1>16. CASE BeginNight
  BY <1>16 DEF BeginNight, Reads, WithStatus
<1>17. ASSUME NEW c \in Changes, RecordClass(c) PROVE SavedIsDone' /\ CodeFollows'
  BY <1>17 DEF RecordClass, Judged, Replace, Handled
<1>18. ASSUME NEW c \in Changes, WaitOrGraduate(c) PROVE SavedIsDone' /\ CodeFollows'
  BY <1>18 DEF WaitOrGraduate, Judged, Handled
<1>19. ASSUME NEW c \in Changes, RequestRollback(c) PROVE SavedIsDone' /\ CodeFollows'
  BY <1>19 DEF RequestRollback, Watched, Judged, Replace, Handled
<1>20. ASSUME NEW c \in Changes, Hold(c) PROVE SavedIsDone' /\ CodeFollows'
  BY <1>20 DEF Hold, Watched, Judged, Replace, Handled
<1>21. CASE EndEvaluation
  BY <1>21 DEF EndEvaluation
<1>22. CASE ListRequested
  BY <1>22 DEF ListRequested, WithStatus
<1>23. ASSUME NEW c \in Changes, NextRollback(c) PROVE SavedIsDone' /\ CodeFollows'
  BY <1>23 DEF NextRollback
<1>24. CASE EndRollbacks
  BY <1>24 DEF EndRollbacks
<1>25. CASE CheckAutonomy
  BY <1>25 DEF CheckAutonomy
<1>26. CASE ReadImpacts
  BY <1>26 DEF ReadImpacts, Reads, WithStatus
<1>27. ASSUME NEW c \in Changes, ResolveImpact(c) PROVE SavedIsDone' /\ CodeFollows'
  BY <1>27 DEF ResolveImpact, Replace, Handled
<1>28. CASE EndNight
  BY <1>28 DEF EndNight, NightOff
<1>29. CASE NightCrashes
  BY <1>29 DEF NightCrashes, NightOff, Fault
<1>30. CASE NextDay
  BY <1>30 DEF NextDay
<1>31. ASSUME NEW c \in Changes, Mature(c) PROVE SavedIsDone' /\ CodeFollows'
  BY <1>31 DEF Mature
<1>32. CASE AbortMerge
  BY <1>32 DEF AbortMerge
<1>33. CASE UNCHANGED vars
  BY <1>33 DEF vars
<1>34. CASE WatchdogRaises
  BY <1>34, NightRuns DEF WatchdogRaises, Fault
<1> QED
  BY <1>1, <1>2, <1>3, <1>4, <1>5, <1>6, <1>7, <1>8, <1>9, <1>10, <1>11, <1>12,
     <1>13, <1>14, <1>15, <1>16, <1>17, <1>18, <1>19, <1>20, <1>21, <1>22,
     <1>23, <1>24, <1>25, <1>26, <1>27, <1>28, <1>29, <1>30, <1>31, <1>32,
     <1>33, <1>34, NightRuns
     DEF Next, ApplyChange, RollBack, Review

\* A verdict leaves the status of the row that it read.
LEMMA ImpactKeepsStatus ==
  ASSUME TypeOK, NEW c \in Changes, NEW i
  PROVE  [read[Night][c] EXCEPT !.impact = i].status = read[Night][c].status
BY NightRuns DEF TypeOK, Rows

LEMMA StatusIsWritten ==
  ASSUME TypeOK, NEW p \in Processes, NEW c \in Changes, NEW s, NEW q
  PROVE  /\ [read[p][c] EXCEPT !.status = s].status = s
         /\ [read[p][c] EXCEPT !.status = s, !.by = q].status = s
BY DEF TypeOK, Rows

\* What the evaluation and the verdicts have still to handle was APPLIED when
\* it was read: they read once, and drop a row when they have handled it.
LEMMA HandlesStep ==
  ASSUME TypeOK, HandlesApplied, [Next]_vars
  PROVE  HandlesApplied'
<1> USE NightRuns DEF TypeOK, treeVars, applyVars, timeVars, processVars, At, Goto, HandlesApplied, WithStatus
<1>1. ASSUME NEW c \in Changes, Open(c) PROVE HandlesApplied'
  BY <1>1 DEF Open
<1>2. ASSUME NEW c \in Changes, Validate(c) PROVE HandlesApplied'
  BY <1>2 DEF Validate
<1>3. ASSUME NEW c \in Changes, Refuse(c) PROVE HandlesApplied'
  BY <1>3 DEF Refuse, Saved
<1>4. ASSUME NEW c \in Changes, Merge(c) PROVE HandlesApplied'
  BY <1>4 DEF Merge
<1>5. ASSUME NEW c \in Changes, MergeFails(c) PROVE HandlesApplied'
  BY <1>5 DEF MergeFails, Saved
<1>6. ASSUME NEW c \in Changes, CommitHuman(c) PROVE HandlesApplied'
  BY <1>6 DEF CommitHuman
<1>7. ASSUME NEW c \in Changes, SaveApplied(c) PROVE HandlesApplied'
  BY <1>7 DEF SaveApplied, Saved
<1>8. ASSUME NEW c \in Changes, ApplyCrashes(c) PROVE HandlesApplied'
  BY <1>8 DEF ApplyCrashes, Fault
<1>9. ASSUME NEW o \in Operators, NEW c \in Changes, Command(o, c) PROVE HandlesApplied'
  BY <1>9 DEF Command
<1>10. ASSUME NEW p \in Processes, Find(p) PROVE HandlesApplied'
  BY <1>10 DEF Find, Reads
<1>11. ASSUME NEW p \in Processes, Revert(p) PROVE HandlesApplied'
  BY <1>11 DEF Revert
<1>12. ASSUME NEW p \in Processes, RevertFails(p) PROVE HandlesApplied'
  BY <1>12 DEF RevertFails
<1>13. ASSUME NEW p \in Processes, SaveRolledBack(p) PROVE HandlesApplied'
  BY <1>13 DEF SaveRolledBack, Replace, Left
<1>14. ASSUME NEW p \in Processes, SaveRollbackFailed(p) PROVE HandlesApplied'
  BY <1>14 DEF SaveRollbackFailed, Replace, Left
<1>15. ASSUME NEW p \in Processes, RollbackRaises(p) PROVE HandlesApplied'
  BY <1>15 DEF RollbackRaises, Fault, Left
<1>16. CASE BeginNight
  BY <1>16 DEF BeginNight, Reads, WithStatus
<1>17. ASSUME NEW c \in Changes, RecordClass(c) PROVE HandlesApplied'
  BY <1>17 DEF RecordClass, Judged, Replace, Handled
<1>18. ASSUME NEW c \in Changes, WaitOrGraduate(c) PROVE HandlesApplied'
  BY <1>18 DEF WaitOrGraduate, Judged, Handled
<1>19. ASSUME NEW c \in Changes, RequestRollback(c) PROVE HandlesApplied'
  BY <1>19 DEF RequestRollback, Watched, Judged, Replace, Handled
<1>20. ASSUME NEW c \in Changes, Hold(c) PROVE HandlesApplied'
  BY <1>20 DEF Hold, Watched, Judged, Replace, Handled
<1>21. CASE EndEvaluation
  BY <1>21 DEF EndEvaluation
<1>22. CASE ListRequested
  BY <1>22 DEF ListRequested, WithStatus
<1>23. ASSUME NEW c \in Changes, NextRollback(c) PROVE HandlesApplied'
  BY <1>23 DEF NextRollback
<1>24. CASE EndRollbacks
  BY <1>24 DEF EndRollbacks
<1>25. CASE CheckAutonomy
  BY <1>25 DEF CheckAutonomy
<1>26. CASE ReadImpacts
  BY <1>26 DEF ReadImpacts, Reads, WithStatus
<1>27. ASSUME NEW c \in Changes, ResolveImpact(c) PROVE HandlesApplied'
  BY <1>27 DEF ResolveImpact, Replace, Handled
<1>28. CASE EndNight
  BY <1>28 DEF EndNight, NightOff
<1>29. CASE NightCrashes
  BY <1>29 DEF NightCrashes, NightOff, Fault
<1>30. CASE NextDay
  BY <1>30 DEF NextDay
<1>31. ASSUME NEW c \in Changes, Mature(c) PROVE HandlesApplied'
  BY <1>31 DEF Mature
<1>32. CASE AbortMerge
  BY <1>32 DEF AbortMerge
<1>33. CASE UNCHANGED vars
  BY <1>33 DEF vars
<1>34. CASE WatchdogRaises
  BY <1>34, NightRuns DEF WatchdogRaises, Fault
<1> QED
  BY <1>1, <1>2, <1>3, <1>4, <1>5, <1>6, <1>7, <1>8, <1>9, <1>10, <1>11, <1>12,
     <1>13, <1>14, <1>15, <1>16, <1>17, <1>18, <1>19, <1>20, <1>21, <1>22,
     <1>23, <1>24, <1>25, <1>26, <1>27, <1>28, <1>29, <1>30, <1>31, <1>32,
     <1>33, <1>34, NightRuns
     DEF Next, ApplyChange, RollBack, Review

\* A change that is out of the main branch by a revert stays out, and the
\* row says so only after the revert.
LEMMA SuiteStep ==
  ASSUME TypeOK, SavedIsDone, CodeFollows, RevertPrecedesSuite, HandlesApplied,
         RolledBackIsOut, [Next]_vars
  PROVE  RevertPrecedesSuite' /\ RolledBackIsOut'
<1> USE NightRuns DEF TypeOK, treeVars, applyVars, timeVars, processVars, At, Goto, SavedIsDone, CodeFollows, RevertPrecedesSuite,
      HandlesApplied, RolledBackIsOut, WithStatus, NoRow
<1>1. ASSUME NEW c \in Changes, Open(c) PROVE RevertPrecedesSuite' /\ RolledBackIsOut'
  BY <1>1 DEF Open
<1>2. ASSUME NEW c \in Changes, Validate(c) PROVE RevertPrecedesSuite' /\ RolledBackIsOut'
  BY <1>2 DEF Validate
<1>3. ASSUME NEW c \in Changes, Refuse(c) PROVE RevertPrecedesSuite' /\ RolledBackIsOut'
  BY <1>3 DEF Refuse, Saved
<1>4. ASSUME NEW c \in Changes, Merge(c) PROVE RevertPrecedesSuite' /\ RolledBackIsOut'
  BY <1>4 DEF Merge
<1>5. ASSUME NEW c \in Changes, MergeFails(c) PROVE RevertPrecedesSuite' /\ RolledBackIsOut'
  BY <1>5 DEF MergeFails, Saved
<1>6. ASSUME NEW c \in Changes, CommitHuman(c) PROVE RevertPrecedesSuite' /\ RolledBackIsOut'
  BY <1>6 DEF CommitHuman
<1>7. ASSUME NEW c \in Changes, SaveApplied(c) PROVE RevertPrecedesSuite' /\ RolledBackIsOut'
  BY <1>7 DEF SaveApplied, Saved
<1>8. ASSUME NEW c \in Changes, ApplyCrashes(c) PROVE RevertPrecedesSuite' /\ RolledBackIsOut'
  BY <1>8 DEF ApplyCrashes, Fault
<1>9. ASSUME NEW o \in Operators, NEW c \in Changes, Command(o, c) PROVE RevertPrecedesSuite' /\ RolledBackIsOut'
  BY <1>9 DEF Command
<1>10. ASSUME NEW p \in Processes, Find(p) PROVE RevertPrecedesSuite' /\ RolledBackIsOut'
  BY <1>10 DEF Find, Reads
<1>11. ASSUME NEW p \in Processes, Revert(p) PROVE RevertPrecedesSuite' /\ RolledBackIsOut'
  BY <1>11 DEF Revert
<1>12. ASSUME NEW p \in Processes, RevertFails(p) PROVE RevertPrecedesSuite' /\ RolledBackIsOut'
  BY <1>12 DEF RevertFails
<1>13. ASSUME NEW p \in Processes, SaveRolledBack(p) PROVE RevertPrecedesSuite' /\ RolledBackIsOut'
  BY <1>13 DEF SaveRolledBack, Replace, Left
<1>14. ASSUME NEW p \in Processes, SaveRollbackFailed(p) PROVE RevertPrecedesSuite' /\ RolledBackIsOut'
  BY <1>14 DEF SaveRollbackFailed, Replace, Left
<1>15. ASSUME NEW p \in Processes, RollbackRaises(p) PROVE RevertPrecedesSuite' /\ RolledBackIsOut'
  BY <1>15 DEF RollbackRaises, Fault, Left
<1>16. CASE BeginNight
  BY <1>16 DEF BeginNight, Reads, WithStatus
<1>17. ASSUME NEW c \in Changes, RecordClass(c) PROVE RevertPrecedesSuite' /\ RolledBackIsOut'
  <2>1. PICK i : Replace(Night, c, [read[Night][c] EXCEPT !.impact = i])
    BY <1>17 DEF RecordClass, Judged
  <2>2. read[Night][c].status = "APPLIED"
    BY <1>17 DEF RecordClass, Judged
  <2>3. rows'[c].status = "APPLIED" /\ \A d \in Changes \ {c} : rows'[d] = rows[d]
    BY <2>1, <2>2, ImpactKeepsStatus DEF Replace
  <2> QED
    BY <1>17, <2>3 DEF RecordClass, Judged, Handled
<1>18. ASSUME NEW c \in Changes, WaitOrGraduate(c) PROVE RevertPrecedesSuite' /\ RolledBackIsOut'
  BY <1>18 DEF WaitOrGraduate, Judged, Handled
<1>19. ASSUME NEW c \in Changes, RequestRollback(c) PROVE RevertPrecedesSuite' /\ RolledBackIsOut'
  BY <1>19 DEF RequestRollback, Watched, Judged, Replace, Handled
<1>20. ASSUME NEW c \in Changes, Hold(c) PROVE RevertPrecedesSuite' /\ RolledBackIsOut'
  <2>1. PICK i : Replace(Night, c, [read[Night][c] EXCEPT !.impact = i])
    BY <1>20 DEF Hold, Watched, Judged
  <2>2. read[Night][c].status = "APPLIED"
    BY <1>20 DEF Hold, Watched, Judged
  <2>3. rows'[c].status = "APPLIED" /\ \A d \in Changes \ {c} : rows'[d] = rows[d]
    BY <2>1, <2>2, ImpactKeepsStatus DEF Replace
  <2>4. UNCHANGED <<code, pc, cur>>
    BY <1>20 DEF Hold, Watched, Judged
  <2> QED
    BY <2>3, <2>4
<1>21. CASE EndEvaluation
  BY <1>21 DEF EndEvaluation
<1>22. CASE ListRequested
  BY <1>22 DEF ListRequested, WithStatus
<1>23. ASSUME NEW c \in Changes, NextRollback(c) PROVE RevertPrecedesSuite' /\ RolledBackIsOut'
  BY <1>23 DEF NextRollback
<1>24. CASE EndRollbacks
  BY <1>24 DEF EndRollbacks
<1>25. CASE CheckAutonomy
  BY <1>25 DEF CheckAutonomy
<1>26. CASE ReadImpacts
  BY <1>26 DEF ReadImpacts, Reads, WithStatus
<1>27. ASSUME NEW c \in Changes, ResolveImpact(c) PROVE RevertPrecedesSuite' /\ RolledBackIsOut'
  <2>1. PICK i : Replace(Night, c, [read[Night][c] EXCEPT !.impact = i])
    BY <1>27 DEF ResolveImpact
  <2>2. read[Night][c].status = "APPLIED"
    BY <1>27 DEF ResolveImpact
  <2>3. rows'[c].status = "APPLIED" /\ \A d \in Changes \ {c} : rows'[d] = rows[d]
    BY <2>1, <2>2, ImpactKeepsStatus DEF Replace
  <2> QED
    BY <1>27, <2>3 DEF ResolveImpact, Handled
<1>28. CASE EndNight
  BY <1>28 DEF EndNight, NightOff
<1>29. CASE NightCrashes
  BY <1>29 DEF NightCrashes, NightOff, Fault
<1>30. CASE NextDay
  BY <1>30 DEF NextDay
<1>31. ASSUME NEW c \in Changes, Mature(c) PROVE RevertPrecedesSuite' /\ RolledBackIsOut'
  BY <1>31 DEF Mature
<1>32. CASE AbortMerge
  BY <1>32 DEF AbortMerge
<1>33. CASE UNCHANGED vars
  BY <1>33 DEF vars
<1>34. CASE WatchdogRaises
  BY <1>34, NightRuns DEF WatchdogRaises, Fault
<1> QED
  BY <1>1, <1>2, <1>3, <1>4, <1>5, <1>6, <1>7, <1>8, <1>9, <1>10, <1>11, <1>12,
     <1>13, <1>14, <1>15, <1>16, <1>17, <1>18, <1>19, <1>20, <1>21, <1>22,
     <1>23, <1>24, <1>25, <1>26, <1>27, <1>28, <1>29, <1>30, <1>31, <1>32,
     <1>33, <1>34, NightRuns
     DEF Next, ApplyChange, RollBack, Review

\* A row that asks for a change in the main branch, and is not written blindly,
\* is of a change that was there before.
LEMMA AppliedStep ==
  ASSUME TypeOK, SavedIsDone, CodeFollows, RevertPrecedesSuite, HandlesApplied,
         AppliedIsIn, [Next]_vars
  PROVE  AppliedIsIn'
<1> USE NightRuns DEF TypeOK, treeVars, applyVars, timeVars, processVars, At, Goto, SavedIsDone, CodeFollows, RevertPrecedesSuite,
      HandlesApplied, AppliedIsIn, WithStatus, NoRow
<1>1. ASSUME NEW c \in Changes, Open(c) PROVE AppliedIsIn'
  BY <1>1 DEF Open
<1>2. ASSUME NEW c \in Changes, Validate(c) PROVE AppliedIsIn'
  BY <1>2 DEF Validate
<1>3. ASSUME NEW c \in Changes, Refuse(c) PROVE AppliedIsIn'
  BY <1>3 DEF Refuse, Saved
<1>4. ASSUME NEW c \in Changes, Merge(c) PROVE AppliedIsIn'
  BY <1>4 DEF Merge
<1>5. ASSUME NEW c \in Changes, MergeFails(c) PROVE AppliedIsIn'
  BY <1>5 DEF MergeFails, Saved
<1>6. ASSUME NEW c \in Changes, CommitHuman(c) PROVE AppliedIsIn'
  BY <1>6 DEF CommitHuman
<1>7. ASSUME NEW c \in Changes, SaveApplied(c) PROVE AppliedIsIn'
  BY <1>7 DEF SaveApplied, Saved
<1>8. ASSUME NEW c \in Changes, ApplyCrashes(c) PROVE AppliedIsIn'
  BY <1>8 DEF ApplyCrashes, Fault
<1>9. ASSUME NEW o \in Operators, NEW c \in Changes, Command(o, c) PROVE AppliedIsIn'
  BY <1>9 DEF Command
<1>10. ASSUME NEW p \in Processes, Find(p) PROVE AppliedIsIn'
  BY <1>10 DEF Find, Reads
<1>11. ASSUME NEW p \in Processes, Revert(p) PROVE AppliedIsIn'
  BY <1>11 DEF Revert
<1>12. ASSUME NEW p \in Processes, RevertFails(p) PROVE AppliedIsIn'
  BY <1>12 DEF RevertFails
<1>13. ASSUME NEW p \in Processes, SaveRolledBack(p) PROVE AppliedIsIn'
  BY <1>13 DEF SaveRolledBack, Replace, Left
<1>14. ASSUME NEW p \in Processes, SaveRollbackFailed(p) PROVE AppliedIsIn'
  BY <1>14 DEF SaveRollbackFailed, Replace, Left
<1>15. ASSUME NEW p \in Processes, RollbackRaises(p) PROVE AppliedIsIn'
  BY <1>15 DEF RollbackRaises, Fault, Left
<1>16. CASE BeginNight
  BY <1>16 DEF BeginNight, Reads, WithStatus
<1>17. ASSUME NEW c \in Changes, RecordClass(c) PROVE AppliedIsIn'
  BY <1>17 DEF RecordClass, Judged, Replace, Handled
<1>18. ASSUME NEW c \in Changes, WaitOrGraduate(c) PROVE AppliedIsIn'
  BY <1>18 DEF WaitOrGraduate, Judged, Handled
<1>19. ASSUME NEW c \in Changes, RequestRollback(c) PROVE AppliedIsIn'
  BY <1>19 DEF RequestRollback, Watched, Judged, Replace, Handled
<1>20. ASSUME NEW c \in Changes, Hold(c) PROVE AppliedIsIn'
  BY <1>20 DEF Hold, Watched, Judged, Replace, Handled
<1>21. CASE EndEvaluation
  BY <1>21 DEF EndEvaluation
<1>22. CASE ListRequested
  BY <1>22 DEF ListRequested, WithStatus
<1>23. ASSUME NEW c \in Changes, NextRollback(c) PROVE AppliedIsIn'
  BY <1>23 DEF NextRollback
<1>24. CASE EndRollbacks
  BY <1>24 DEF EndRollbacks
<1>25. CASE CheckAutonomy
  BY <1>25 DEF CheckAutonomy
<1>26. CASE ReadImpacts
  BY <1>26 DEF ReadImpacts, Reads, WithStatus
<1>27. ASSUME NEW c \in Changes, ResolveImpact(c) PROVE AppliedIsIn'
  BY <1>27 DEF ResolveImpact, Replace, Handled
<1>28. CASE EndNight
  BY <1>28 DEF EndNight, NightOff
<1>29. CASE NightCrashes
  BY <1>29 DEF NightCrashes, NightOff, Fault
<1>30. CASE NextDay
  BY <1>30 DEF NextDay
<1>31. ASSUME NEW c \in Changes, Mature(c) PROVE AppliedIsIn'
  BY <1>31 DEF Mature
<1>32. CASE AbortMerge
  BY <1>32 DEF AbortMerge
<1>33. CASE UNCHANGED vars
  BY <1>33 DEF vars
<1>34. CASE WatchdogRaises
  BY <1>34, NightRuns DEF WatchdogRaises, Fault
<1> QED
  BY <1>1, <1>2, <1>3, <1>4, <1>5, <1>6, <1>7, <1>8, <1>9, <1>10, <1>11, <1>12,
     <1>13, <1>14, <1>15, <1>16, <1>17, <1>18, <1>19, <1>20, <1>21, <1>22,
     <1>23, <1>24, <1>25, <1>26, <1>27, <1>28, <1>29, <1>30, <1>31, <1>32,
     <1>33, <1>34, NightRuns
     DEF Next, ApplyChange, RollBack, Review

-----------------------------------------------------------------------------
(* The theorems.                                                           *)

LEMMA WatchdogInitially == Init => WatchdogInv
<1> SUFFICES ASSUME Init PROVE WatchdogInv
  OBVIOUS
<1>1. TypeOK
  <2>1. /\ 0 \in 0 .. Window + 1 /\ 0 \in 0 .. DemoteSessions /\ 0 \in 0 .. MaxFaults
        /\ StartLevel \in 1 .. 3
    BY WatchdogAssumption
  <2>2. /\ age \in [Changes -> 0 .. Window + 1] /\ since \in [Changes -> 0 .. DemoteSessions]
        /\ faults \in 0 .. MaxFaults /\ level \in 1 .. 3
    BY <2>1 DEF Init
  <2>3. rows \in [Changes -> Rows] /\ read \in [Processes -> [Changes -> Rows]]
    BY NoRowTyped DEF Init
  <2> QED
    BY <2>2, <2>3 DEF Init, TypeOK
<1>2. SavedIsDone /\ CodeFollows
  BY DEF Init, SavedIsDone, CodeFollows, NoRows
<1>3. RevertPrecedesSuite
  BY DEF Init, RevertPrecedesSuite, At
<1>4. HandlesApplied
  BY NightRuns DEF Init, HandlesApplied
<1>5. RolledBackIsOut /\ AppliedIsIn
  BY DEF Init, RolledBackIsOut, AppliedIsIn, WithStatus, NoRows, NoRow
<1> QED
  BY <1>1, <1>2, <1>3, <1>4, <1>5 DEF WatchdogInv

LEMMA WatchdogKept ==
  ASSUME WatchdogInv, [Next]_vars
  PROVE  WatchdogInv'
BY TypeStep, PlacesStep, HandlesStep, SuiteStep, AppliedStep DEF WatchdogInv

LEMMA WatchdogAlways == Spec => []WatchdogInv
BY WatchdogInitially, WatchdogKept, PTL DEF Spec

\* The rows, the places and the level of autonomy keep their types, whatever
\* crashes: a level is never lowered below the first.
THEOREM WatchdogTypeCorrect == Spec => []TypeOK
<1>1. WatchdogInv => TypeOK
  BY DEF WatchdogInv
<1> QED
  BY <1>1, WatchdogAlways, PTL

\* A row says ROLLED_BACK only of a change that is out of the main branch,
\* however many commands and reviews revert it and write over each other.
THEOREM RolledBackIsOutHolds == Spec => []RolledBackIsOut
<1>1. WatchdogInv => RolledBackIsOut
  BY DEF WatchdogInv
<1> QED
  BY <1>1, WatchdogAlways, PTL

\* A row that says APPLIED, or that its rollback is asked for, is of a change
\* in the main branch, except while it is rolled back, or when a writer has
\* written over what it had not read or has broken off after the revert.
THEOREM AppliedIsInHolds == Spec => []AppliedIsIn
<1>1. WatchdogInv => AppliedIsIn
  BY DEF WatchdogInv
<1> QED
  BY <1>1, WatchdogAlways, PTL

=============================================================================
