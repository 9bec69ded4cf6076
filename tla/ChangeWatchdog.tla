--------------------------- MODULE ChangeWatchdog ---------------------------
(***************************************************************************)
(* The life of a code change that is in the repository.  The laboratory    *)
(* validates a change in a worktree of its own and merges it (sandbox.py,  *)
(* AutoApplyCodeAgent in experiments.py), or a person's approval commits   *)
(* it (human_apply.py, module HumanApply).  Every night the watchdog       *)
(* compares the sessions after a change with those before it, asks for the *)
(* rollback of the harmful ones and reverts them (change_watchdog.py),     *)
(* moves the level of autonomy (autonomy.py) and gives the survivors their *)
(* verdict (promotion_loop.py); commands revert a change by hand at any    *)
(* time.  A row of applied changes is always written whole, from what its  *)
(* writer has read.                                                        *)
(*                                                                         *)
(* What the metrics say is a choice.  Every change is of a proposal of its *)
(* own.                                                                    *)
(***************************************************************************)
EXTENDS Naturals, FiniteSets

CONSTANTS
  Lab,             \* changes that the laboratory applies
  Human,           \* changes that a person approves
  Trading,         \* the changes of the class of trading: its metrics judge them
  Night,           \* the nightly review
  Operators,       \* the commands that roll a change back, one process each
  Window,          \* CHANGE_WATCHDOG_WINDOW_SESSIONS
  StartLevel,      \* CODE_AUTONOMY_LEVEL
  MinApplied,      \* AUTONOMY_PROMOTION_MIN_APPLIED
  DemoteRollbacks, \* AUTONOMY_DEMOTE_ROLLBACKS
  DemoteSessions,  \* AUTONOMY_DEMOTE_SESSIONS
  MaxFaults        \* bound on the crashes and the exceptions

Changes == Lab \cup Human
Processes == {Night} \cup Operators

ASSUME WatchdogAssumption ==
  /\ Lab \cap Human = {} /\ Lab \subseteq Trading /\ Trading \subseteq Changes
  /\ Night \notin Operators
  /\ StartLevel \in 1 .. 3 /\ Window \in Nat /\ MinApplied \in Nat /\ MaxFaults \in Nat
  /\ DemoteRollbacks \in Nat \ {0} /\ DemoteSessions \in Nat \ {0}

VARIABLES
  code,    \* change -> whether the main branch has it
  merging, \* a conflict has left the main tree in the middle of a merge
  mixed,   \* history: a change of the laboratory was merged into another tree
           \* than the one that the suite has seen it in
  rows,    \* change -> its row of applied changes
  younger, \* pairs of changes with a row, the one created later first
  at,      \* where the application of a change is
  base,    \* the changes in the tree from which its worktree was opened
  age,     \* the sessions of performance_daily after a change of trading, up to Window + 1
  today,   \* the changes created today
  done,    \* the session of today is in performance_daily
  mature,  \* the changes of more than clean_days
  level,   \* code_autonomy_level
  pc, todo, \* where a process is and the changes it has still to handle
  cur,     \* the change it rolls back, in a set of its own
  read,    \* the rows it has read, until it handles their changes
  since,   \* history: the sessions since the watchdog rolled a change back
  crossed, \* history: changes whose row was written over what was not read,
           \* or whose rollback broke off after the revert
  faults   \* history: the crashes and the exceptions

treeVars == <<code, merging, mixed>>
applyVars == <<at, base>>
timeVars == <<age, today, done, mature>>
processVars == <<pc, todo, cur, read>>
vars == <<code, merging, mixed, rows, younger, at, base, age, today, done, mature,
          level, pc, todo, cur, read, since, crossed, faults>>

Statuses == {"none", "APPLIED", "FAILED", "ROLLBACK_REQUESTED", "ROLLED_BACK", "ROLLBACK_FAILED"}
Impacts == {"none", "PENDING", "NON_QUALIFYING", "PASSED"}
Rows == [status : Statuses, impact : Impacts, by : Processes \cup {"none"}]

NoRow == [status |-> "none", impact |-> "none", by |-> "none"]
NoRows == [c \in Changes |-> NoRow]

TypeOK ==
  /\ code \in [Changes -> {"out", "in", "reverted"}]
  /\ merging \in BOOLEAN /\ mixed \in BOOLEAN
  /\ rows \in [Changes -> Rows] /\ younger \subseteq Changes \X Changes
  /\ at \in [Changes -> {"new", "open", "green", "merged", "done"}]
  /\ base \in [Changes -> SUBSET Changes]
  /\ age \in [Changes -> 0 .. Window + 1]
  /\ today \subseteq Changes /\ done \in BOOLEAN /\ mature \subseteq Changes
  /\ level \in 1 .. 3
  /\ pc \in [Processes -> {"off", "evaluate", "list", "rollback", "find", "revert", "suite",
                           "failed", "autonomy", "impacts", "resolve", "ended"}]
  /\ todo \in [Processes -> SUBSET Changes] /\ cur \in [Processes -> SUBSET Changes]
  /\ read \in [Processes -> [Changes -> Rows]]
  /\ since \in [Changes -> 0 .. DemoteSessions]
  /\ crossed \subseteq Changes /\ faults \in 0 .. MaxFaults

-----------------------------------------------------------------------------

InMain == {c \in Changes : code[c] = "in"}

WithStatus(s) == {c \in Changes : rows[c].status = s}

At(p, place) == pc[p] = place

Goto(p, place) == pc' = [pc EXCEPT ![p] = place]

Reads(p, S) == read' = [read EXCEPT ![p] = [c \in Changes |-> IF c \in S THEN rows[c] ELSE NoRow]]

\* INSERT OR REPLACE of the row of c, which p has read as it was.
Replace(p, c, row) ==
  /\ rows' = [rows EXCEPT ![c] = row]
  /\ crossed' = IF rows[c] # read[p][c] THEN crossed \cup {c} ELSE crossed

Handled(c) ==
  /\ todo' = [todo EXCEPT ![Night] = @ \ {c}]
  /\ read' = [read EXCEPT ![Night][c] = NoRow]

Fault == faults < MaxFaults /\ faults' = faults + 1

-----------------------------------------------------------------------------
(* The application of a change.                                            *)

Saved(c, s) ==
  /\ rows' = [rows EXCEPT ![c] = [status |-> s, by |-> "none",
                                  impact |-> IF c \in Human THEN "PENDING" ELSE "none"]]
  /\ younger' = younger \cup {<<c, d>> : d \in {d \in Changes : rows[d] # NoRow}}
  /\ today' = today \cup {c}
  /\ at' = [at EXCEPT ![c] = "done"]
  /\ base' = [base EXCEPT ![c] = {}]
  /\ UNCHANGED <<age, done, mature, level, processVars, since, crossed, faults>>

\* GitSandbox.open: a worktree of the last commit.
Open(c) ==
  /\ c \in Lab /\ at[c] = "new"
  /\ base' = [base EXCEPT ![c] = InMain]
  /\ at' = [at EXCEPT ![c] = "open"]
  /\ UNCHANGED <<treeVars, rows, younger, timeVars, level, processVars, since, crossed, faults>>

Validate(c) ==
  /\ at[c] = "open"
  /\ at' = [at EXCEPT ![c] = "green"]
  /\ UNCHANGED <<treeVars, rows, younger, base, timeVars, level, processVars, since,
                 crossed, faults>>

\* It is blocked, it cannot be applied, or the suite fails.
Refuse(c) ==
  /\ c \in Lab /\ at[c] \in {"new", "open"}
  /\ Saved(c, "FAILED")
  /\ UNCHANGED treeVars

Merge(c) ==
  /\ at[c] = "green" /\ ~merging
  /\ code' = [code EXCEPT ![c] = "in"]
  /\ mixed' = (mixed \/ base[c] # InMain)
  /\ at' = [at EXCEPT ![c] = "merged"]
  /\ UNCHANGED <<merging, rows, younger, base, timeVars, level, processVars, since,
                 crossed, faults>>

\* A conflict: the worktree goes, the merge in the main tree stays.
MergeFails(c) ==
  /\ at[c] = "green"
  /\ Saved(c, "FAILED")
  /\ merging' = TRUE
  /\ UNCHANGED <<code, mixed>>

\* approve_and_apply_code_diff, on a clean tree that passes the suite.
CommitHuman(c) ==
  /\ c \in Human /\ at[c] = "new" /\ ~merging
  /\ code' = [code EXCEPT ![c] = "in"]
  /\ at' = [at EXCEPT ![c] = "merged"]
  /\ UNCHANGED <<merging, mixed, rows, younger, base, timeVars, level, processVars, since,
                 crossed, faults>>

SaveApplied(c) ==
  /\ at[c] = "merged"
  /\ Saved(c, "APPLIED")
  /\ UNCHANGED treeVars

ApplyCrashes(c) ==
  /\ at[c] \notin {"new", "done"}
  /\ Fault
  /\ at' = [at EXCEPT ![c] = "done"] /\ base' = [base EXCEPT ![c] = {}]
  /\ UNCHANGED <<treeVars, rows, younger, timeVars, level, processVars, since, crossed>>

-----------------------------------------------------------------------------
(* rollback, by the watchdog or by a command.                              *)

Command(o, c) ==
  /\ o \in Operators /\ At(o, "off") /\ rows[c] # NoRow
  /\ cur' = [cur EXCEPT ![o] = {c}]
  /\ Goto(o, "find")
  /\ UNCHANGED <<treeVars, rows, younger, applyVars, timeVars, level, todo, read, since, crossed, faults>>

\* The row, whatever its status; one that names no commit cannot be reverted.
Find(p) ==
  /\ At(p, "find")
  /\ Reads(p, cur[p])
  /\ Goto(p, IF \E c \in cur[p] : code[c] = "out" THEN "failed" ELSE "revert")
  /\ UNCHANGED <<treeVars, rows, younger, applyVars, timeVars, level, todo, cur, since, crossed, faults>>

\* Mutant: the result of git revert is not looked at.
RevertUnchecked(p) ==
  /\ At(p, "revert")
  /\ Goto(p, "suite")
  /\ UNCHANGED <<treeVars, rows, younger, applyVars, timeVars, level, todo, cur, read, since,
                 crossed, faults>>

Revert(p) ==
  /\ At(p, "revert") /\ ~merging
  /\ \E c \in cur[p] : code[c] = "in" /\ code' = [code EXCEPT ![c] = "reverted"]
  /\ Goto(p, "suite")
  /\ UNCHANGED <<merging, mixed, rows, younger, applyVars, timeVars, level, todo, cur, read,
                 since, crossed, faults>>

\* It conflicts, it has been reverted before, or a merge is under way.
RevertFails(p) ==
  /\ At(p, "revert")
  /\ Goto(p, "failed")
  /\ UNCHANGED <<treeVars, rows, younger, applyVars, timeVars, level, todo, cur, read, since,
                 crossed, faults>>

\* The review goes on after a rollback; a command ends.
Left(p) ==
  /\ Goto(p, IF p = Night THEN "rollback" ELSE "ended")
  /\ todo' = [todo EXCEPT ![p] = @ \ cur[p]]
  /\ cur' = [cur EXCEPT ![p] = {}] /\ read' = [read EXCEPT ![p] = NoRows]
  /\ UNCHANGED <<treeVars, younger, applyVars, timeVars, level>>

\* Mutant: only when the suite is green after the revert.
SaveIfGreen(p) ==
  /\ At(p, "suite")
  /\ \E c \in cur[p] :
       /\ \/ Replace(p, c, [read[p][c] EXCEPT !.status = "ROLLED_BACK", !.by = p])
          \/ Replace(p, c, read[p][c])
       /\ since' = IF p = Night THEN [since EXCEPT ![c] = 0] ELSE since
  /\ Left(p)
  /\ UNCHANGED faults

\* Whatever the suite says.
SaveRolledBack(p) ==
  /\ At(p, "suite")
  /\ \E c \in cur[p] :
       /\ Replace(p, c, [read[p][c] EXCEPT !.status = "ROLLED_BACK", !.by = p])
       /\ since' = IF p = Night THEN [since EXCEPT ![c] = 0] ELSE since
  /\ Left(p)
  /\ UNCHANGED faults

SaveRollbackFailed(p) ==
  /\ At(p, "failed")
  /\ \E c \in cur[p] : Replace(p, c, [read[p][c] EXCEPT !.status = "ROLLBACK_FAILED"])
  /\ Left(p)
  /\ UNCHANGED <<since, faults>>

\* git times out, or the store raises.
RollbackRaises(p) ==
  /\ pc[p] \in {"find", "revert", "suite", "failed"}
  /\ Fault
  /\ crossed' = IF At(p, "suite") THEN crossed \cup cur[p] ELSE crossed
  /\ Left(p)
  /\ UNCHANGED <<rows, since>>

-----------------------------------------------------------------------------
(* The nightly review.                                                     *)

\* The session of the day is recorded, once, and the rows are read.
BeginNight ==
  /\ At(Night, "off")
  /\ age' = [c \in Changes |-> IF done \/ rows[c] = NoRow \/ c \notin Trading \ today \/ age[c] > Window
                               THEN age[c] ELSE age[c] + 1]
  /\ since' = [c \in Changes |-> IF done \/ rows[c].by # Night \/ since[c] = DemoteSessions
                                 THEN since[c] ELSE since[c] + 1]
  /\ done' = TRUE
  /\ todo' = [todo EXCEPT ![Night] = WithStatus("APPLIED")]
  /\ Reads(Night, todo'[Night])
  /\ Goto(Night, "evaluate")
  /\ UNCHANGED <<treeVars, rows, younger, applyVars, today, mature, level, cur, crossed, faults>>

Judged(c) ==
  /\ At(Night, "evaluate") /\ c \in todo[Night]
  /\ Handled(c)
  /\ UNCHANGED <<treeVars, younger, applyVars, timeVars, level, pc, cur, since, faults>>

\* A change of documents, or of reliability: nobody measures the latter.
RecordClass(c) ==
  /\ c \notin Trading /\ Judged(c)
  /\ \E i \in {"PENDING", "NON_QUALIFYING"} : Replace(Night, c, [read[Night][c] EXCEPT !.impact = i])

Watched(c) == c \in Trading /\ Judged(c) /\ age[c] \in 2 .. Window

\* Too young, too old, too little before it, or another market regime.
WaitOrGraduate(c) ==
  /\ c \in Trading /\ Judged(c)
  /\ UNCHANGED <<rows, crossed>>

RequestRollback(c) ==
  /\ Watched(c)
  /\ Replace(Night, c, [read[Night][c] EXCEPT !.status = "ROLLBACK_REQUESTED"])

Hold(c) ==
  /\ Watched(c)
  /\ \E i \in {"PENDING", "PASSED"} : Replace(Night, c, [read[Night][c] EXCEPT !.impact = i])

EndEvaluation ==
  /\ At(Night, "evaluate") /\ todo[Night] = {}
  /\ Goto(Night, "list")
  /\ UNCHANGED <<treeVars, rows, younger, applyVars, timeVars, level, todo, cur, read, since, crossed, faults>>

\* Mutant: what was asked for today.
ListNew ==
  /\ At(Night, "list")
  /\ todo' = [todo EXCEPT ![Night] = {c \in WithStatus("ROLLBACK_REQUESTED") : age[c] <= Window /\ ~done}]
  /\ Goto(Night, "rollback")
  /\ UNCHANGED <<treeVars, rows, younger, applyVars, timeVars, level, cur, read, since, crossed, faults>>

ListRequested ==
  /\ At(Night, "list")
  /\ todo' = [todo EXCEPT ![Night] = WithStatus("ROLLBACK_REQUESTED")]
  /\ Goto(Night, "rollback")
  /\ UNCHANGED <<treeVars, rows, younger, applyVars, timeVars, level, cur, read, since, crossed, faults>>

\* The last one created first.
NextRollback(c) ==
  /\ At(Night, "rollback") /\ c \in todo[Night]
  /\ \A d \in todo[Night] : <<d, c>> \notin younger
  /\ cur' = [cur EXCEPT ![Night] = {c}]
  /\ Goto(Night, "find")
  /\ UNCHANGED <<treeVars, rows, younger, applyVars, timeVars, level, todo, read, since, crossed, faults>>

EndRollbacks ==
  /\ At(Night, "rollback") /\ todo[Night] = {}
  /\ Goto(Night, "autonomy")
  /\ UNCHANGED <<treeVars, rows, younger, applyVars, timeVars, level, todo, cur, read, since,
                 crossed, faults>>

\* _applied_in_level and _impact_qualified: only the rows of a person's
\* approvals carry a contract, and they count for the first level.
Qualified == {c \in Human : rows[c].status = "APPLIED" /\ rows[c].impact = "PASSED"}

\* _recent_watchdog_rollbacks: the last rows, however old.
Rollbacks == {c \in WithStatus("ROLLED_BACK") : rows[c].by = Night}

\* autonomy_promotion_check; the trend of the score is a choice.
CheckAutonomy ==
  /\ At(Night, "autonomy")
  /\ \/ /\ level > 1 /\ Cardinality(Rollbacks) >= DemoteRollbacks
        /\ level' = level - 1
     \/ /\ level = 1 /\ Cardinality(Qualified) >= MinApplied /\ Rollbacks = {}
        /\ level' = 2
     \/ /\ ~(level > 1 /\ Cardinality(Rollbacks) >= DemoteRollbacks)
        /\ UNCHANGED level
  /\ Goto(Night, "impacts")
  /\ UNCHANGED <<treeVars, rows, younger, applyVars, timeVars, todo, cur, read, since, crossed, faults>>

\* resolve_applied_impacts.
ReadImpacts ==
  /\ At(Night, "impacts")
  /\ todo' = [todo EXCEPT ![Night] = {c \in WithStatus("APPLIED") \cap mature : rows[c].impact # "PASSED"}]
  /\ Reads(Night, todo'[Night])
  /\ Goto(Night, "resolve")
  /\ UNCHANGED <<treeVars, rows, younger, applyVars, timeVars, level, cur, since, crossed, faults>>

ResolveImpact(c) ==
  /\ At(Night, "resolve") /\ c \in todo[Night]
  /\ Replace(Night, c, [read[Night][c] EXCEPT !.impact = "PASSED"])
  /\ Handled(c)
  /\ UNCHANGED <<treeVars, younger, applyVars, timeVars, level, pc, cur, since, faults>>

NightOff ==
  /\ Goto(Night, "off")
  /\ todo' = [todo EXCEPT ![Night] = {}] /\ cur' = [cur EXCEPT ![Night] = {}]
  /\ read' = [read EXCEPT ![Night] = NoRows]
  /\ UNCHANGED <<treeVars, rows, younger, applyVars, timeVars, level, since>>

EndNight ==
  /\ At(Night, "resolve") /\ todo[Night] = {}
  /\ NightOff
  /\ UNCHANGED <<crossed, faults>>

NightCrashes ==
  /\ ~At(Night, "off")
  /\ Fault
  /\ crossed' = IF At(Night, "suite") THEN crossed \cup cur[Night] ELSE crossed
  /\ NightOff

\* The watchdog or the autonomy check raises: the rest of them is left out and
\* the impacts are resolved all the same.
WatchdogRaises ==
  /\ pc[Night] \in {"evaluate", "list", "rollback", "autonomy"}
  /\ Fault
  /\ Goto(Night, "impacts")
  /\ todo' = [todo EXCEPT ![Night] = {}] /\ read' = [read EXCEPT ![Night] = NoRows]
  /\ UNCHANGED <<treeVars, rows, younger, applyVars, timeVars, level, cur, since, crossed>>

-----------------------------------------------------------------------------
(* The environment.                                                        *)

NextDay ==
  /\ done /\ At(Night, "off")
  /\ done' = FALSE /\ today' = {}
  /\ UNCHANGED <<treeVars, rows, younger, applyVars, age, mature, level, processVars, since,
                 crossed, faults>>

\* Only the age of an applied change is ever asked.
Mature(c) ==
  /\ rows[c].status = "APPLIED" /\ c \notin mature \cup today
  /\ mature' = mature \cup {c}
  /\ UNCHANGED <<treeVars, rows, younger, applyVars, age, today, done, level, processVars, since,
                 crossed, faults>>

\* A person gives the merge up.
AbortMerge ==
  /\ merging
  /\ merging' = FALSE
  /\ UNCHANGED <<code, mixed, rows, younger, applyVars, timeVars, level, processVars,
                 since, crossed, faults>>

-----------------------------------------------------------------------------

Init ==
  /\ code = [c \in Changes |-> "out"] /\ merging = FALSE /\ mixed = FALSE
  /\ rows = NoRows /\ younger = {}
  /\ at = [c \in Changes |-> "new"] /\ base = [c \in Changes |-> {}]
  /\ age = [c \in Changes |-> 0] /\ today = {} /\ done = FALSE /\ mature = {}
  /\ level = StartLevel
  /\ pc = [p \in Processes |-> "off"]
  /\ todo = [p \in Processes |-> {}] /\ cur = [p \in Processes |-> {}]
  /\ read = [p \in Processes |-> NoRows]
  /\ since = [c \in Changes |-> 0] /\ crossed = {} /\ faults = 0

ApplyChange(c) ==
  \/ Open(c)
  \/ Validate(c)
  \/ Refuse(c)
  \/ Merge(c)
  \/ MergeFails(c)
  \/ CommitHuman(c)
  \/ SaveApplied(c)
  \/ ApplyCrashes(c)

RollBack(p) ==
  \/ Find(p)
  \/ Revert(p)
  \/ RevertFails(p)
  \/ SaveRolledBack(p)
  \/ SaveRollbackFailed(p)

Review ==
  \/ BeginNight
  \/ \E c \in Changes : RecordClass(c) \/ WaitOrGraduate(c) \/ RequestRollback(c) \/ Hold(c)
  \/ EndEvaluation
  \/ ListRequested
  \/ \E c \in Changes : NextRollback(c)
  \/ RollBack(Night)
  \/ EndRollbacks
  \/ CheckAutonomy
  \/ ReadImpacts
  \/ \E c \in Changes : ResolveImpact(c)
  \/ EndNight

Next ==
  \/ \E c \in Changes : ApplyChange(c)
  \/ \E o \in Operators, c \in Changes : Command(o, c)
  \/ \E o \in Operators : RollBack(o)
  \/ \E p \in Processes : RollbackRaises(p)
  \/ Review
  \/ NightCrashes
  \/ WatchdogRaises
  \/ NextDay
  \/ \E c \in Changes : Mature(c)
  \/ AbortMerge

Spec == Init /\ [][Next]_vars

\* The review runs every night.
LiveSpec == Spec /\ WF_vars(Review)

-----------------------------------------------------------------------------
(* Properties.                                                             *)

\* A row says ROLLED_BACK only when the change is out of the main branch,
\* whoever reverts it, however the rows are written over (_git_revert).
RolledBackIsOut ==
  \A c \in WithStatus("ROLLED_BACK") : code[c] = "reverted"

\* A row that says APPLIED, or that its rollback is asked for, is of a change
\* in the main branch, except while its rollback is under way or when the
\* row was written over one that the writer had not read, or the rollback
\* broke off (save_continuous_improvement_applied_change writes whole rows).
AppliedIsIn ==
  \A c \in WithStatus("APPLIED") \cup WithStatus("ROLLBACK_REQUESTED") :
    code[c] = "in" \/ c \in crossed \/ \E p \in Processes : At(p, "suite") /\ c \in cur[p]

\* A rollback that is asked for is made or fails, whatever crashes: some
\* night takes it up again (execute_rollbacks lists every request).
RequestIsSettled ==
  \A c \in Changes :
    rows[c].status = "ROLLBACK_REQUESTED" ~> rows[c].status # "ROLLBACK_REQUESTED"

\* The level goes down only for rollbacks of the last sessions
\* (autonomy.py:233, autonomy_promotion_check).
DemotionIsRecent ==
  [][level' < level =>
       Cardinality({c \in Rollbacks : since[c] < DemoteSessions}) >= DemoteRollbacks]_vars

\* The verdict that a change of another class has earned by surviving stands
\* while the change does (promotion_loop.py:7, resolve_applied_impacts).
VerdictStands ==
  [][\A c \in mature \ Trading : rows[c].status = "APPLIED" /\ rows[c].impact = "PASSED"
       /\ rows'[c].status = "APPLIED" => rows'[c].impact = "PASSED"]_vars

\* The suite has passed on what an autonomous change makes of the main branch
\* (sandbox.py:7).
MergedTreeWasGreen == ~mixed

=============================================================================
