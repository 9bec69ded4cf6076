----------------------- MODULE PostmarketLeaseProofs -----------------------
(***************************************************************************)
(* Proofs about PostmarketLease, for any number of runs, processes, pids   *)
(* and sessions.                                                           *)
(***************************************************************************)
EXTENDS PostmarketLease, TLAPS

\* Two live processes have different pids: the operating system's promise.
PidsDistinct == \A p, q \in up : pid[p] = pid[q] => p = q

\* A run that left its idle state, and the owner of the active row, have a home.
HomesStarted ==
  /\ \A r \in Runs : pc[r] # "idle" => home[r] \in started
  /\ active # None => pc[active] # "idle"

\* The row that speaks for a working run is its own.
BusyHoldsItsRow ==
  /\ \A r \in PmrRuns : Busy(r) => active = r
  /\ \A r \in ReconRuns : Busy(r) => recon = r

\* If the owner of the active row lives, nobody but it is working.
ActiveRowIsTheWorker ==
  \A r \in Runs : Busy(r) /\ active # None /\ IsUp(active) => active = r

LeaseInv ==
  /\ TypeOK
  /\ PidsDistinct
  /\ HomesStarted
  /\ BusyHoldsItsRow
  /\ ActiveRowIsTheWorker

-----------------------------------------------------------------------------

\* The tests of _owner_is_live never take a live run of another process, or of
\* the asking one, for a dead one.
LEMMA LiveRunsAreSeen ==
  ASSUME TypeOK, PidsDistinct,
         NEW r \in Runs, IsUp(r),
         NEW q \in Runs, IsUp(q)
  PROVE  OwnerIsLive(q, home[r])
<1>1. q # None
  BY RunsAssumption
<1>2. PidAlive(pid[home[q]])
  BY DEF PidAlive, IsUp
<1>3. pid[home[q]] = pid[home[r]] => home[q] = home[r]
  BY DEF PidsDistinct, IsUp
<1> QED
  BY <1>1, <1>2, <1>3 DEF OwnerIsLive

\* A run that is granted a lease finds nobody working, and no live owner in
\* the active row.
LEMMA GrantedAlone ==
  ASSUME LeaseInv,
         NEW r \in Runs, At(r, "begun"), MayRun(r)
  PROVE  /\ \A q \in Runs : ~Busy(q)
         /\ active # None => ~IsUp(active)
<1>0. IsUp(r) /\ TypeOK /\ PidsDistinct /\ BusyHoldsItsRow
  BY DEF At, LeaseInv
<1>1. ~OwnerIsLive(active, home[r]) \/ active = None
  BY DEF MayRun, PmrMayRun, ReconMayRun
<1>2. ~OwnerIsLive(recon, home[r])
  BY DEF MayRun, PmrMayRun, ReconMayRun
<1>3. active # None => ~IsUp(active)
  <2> SUFFICES ASSUME active # None, IsUp(active) PROVE FALSE
    OBVIOUS
  <2>1. active \in Runs
    BY <1>0 DEF TypeOK
  <2> QED
    BY <1>0, <1>1, <2>1, LiveRunsAreSeen
<1>4. ASSUME NEW q \in Runs, Busy(q) PROVE FALSE
  <2>1. IsUp(q)
    BY <1>4 DEF Busy
  <2>2. OwnerIsLive(q, home[r])
    BY <1>0, <2>1, LiveRunsAreSeen
  <2>3. CASE q \in PmrRuns
    <3>1. active = q
      BY <1>0, <1>4, <2>3 DEF BusyHoldsItsRow
    <3> QED
      BY <1>3, <2>1, <3>1, RunsAssumption
  <2>4. CASE q \in ReconRuns
    <3>1. recon = q
      BY <1>0, <1>4, <2>4 DEF BusyHoldsItsRow
    <3> QED
      BY <1>2, <2>2, <3>1
  <2> QED
    BY <2>3, <2>4 DEF Runs
<1> QED
  BY <1>3, <1>4

LEMMA MutexFromInv == LeaseInv => MutualExclusion
<1> SUFFICES ASSUME LeaseInv, NEW q \in Runs, NEW r \in Runs, Busy(q), Busy(r)
             PROVE  q = r
  BY DEF MutualExclusion
<1> USE DEF LeaseInv
<1>1. IsUp(q) /\ IsUp(r)
  BY DEF Busy
<1>2. CASE q \in PmrRuns
  BY <1>1, <1>2, RunsAssumption DEF BusyHoldsItsRow, ActiveRowIsTheWorker
<1>3. CASE r \in PmrRuns
  BY <1>1, <1>3, RunsAssumption DEF BusyHoldsItsRow, ActiveRowIsTheWorker
<1>4. CASE q \in ReconRuns /\ r \in ReconRuns
  BY <1>4 DEF BusyHoldsItsRow
<1> QED
  BY <1>2, <1>3, <1>4 DEF Runs

\* The session rows stay session rows when an old view is dropped.
LEMMA WithoutViewType ==
  ASSUME TypeOK, NEW o \in Runs \cup {None}
  PROVE  WithoutView(o) \in [Sessions -> [run : Runs \cup {None},
                                          status : Statuses \cup {"active", "none"}]]
BY DEF TypeOK, WithoutView, NoView

-----------------------------------------------------------------------------

\* Every row, run and process keeps its shape whatever fails, crashes or is
\* reused.
THEOREM TypeCorrect == Spec => []TypeOK
<1>1. Init => TypeOK
  BY RunsAssumption DEF Init, TypeOK, Sessions, PCs, Statuses, NoView
<1>2. TypeOK /\ [Next]_vars => TypeOK'
  <2> SUFFICES ASSUME TypeOK, [Next]_vars PROVE TypeOK'
    OBVIOUS
  <2> USE DEF TypeOK, procVars, runVars, rowVars
  <2>1. ASSUME NEW p \in Procs, NEW n \in Pids, Boot(p, n) PROVE TypeOK'
    BY <2>1 DEF Boot
  <2>2. ASSUME NEW p \in Procs, Crash(p) PROVE TypeOK'
    BY <2>2 DEF Crash
  <2>3. CASE NextSession
    BY <2>3, RunsAssumption DEF NextSession, Sessions
  <2>4. ASSUME NEW r \in Runs, NEW p \in Procs, Begin(r, p) PROVE TypeOK'
    BY <2>4 DEF Begin, Goto, PCs
  <2>5. ASSUME NEW r \in Runs, Stage(r) PROVE TypeOK'
    BY <2>5 DEF Stage
  <2>6. ASSUME NEW r \in Runs, AcquirePmr(r) PROVE TypeOK'
    <3>1. view' \in [Sessions -> [run : Runs \cup {None},
                                  status : Statuses \cup {"active", "none"}]]
      BY <2>6, WithoutViewType DEF AcquirePmr
    <3> QED
      BY <2>6, <3>1 DEF AcquirePmr, TakeOver, Goto, PCs
  <2>7. ASSUME NEW r \in Runs, AcquireRecon(r) PROVE TypeOK'
    <3>1. view' \in [Sessions -> [run : Runs \cup {None},
                                  status : Statuses \cup {"active", "none"}]]
      BY <2>7, WithoutViewType DEF AcquireRecon
    <3> QED
      BY <2>7, <3>1 DEF AcquireRecon, TakeOver, Goto, PCs
  <2>8. ASSUME NEW r \in Runs, Refuse(r) PROVE TypeOK'
    BY <2>8 DEF Refuse, Goto, PCs
  <2>9. ASSUME NEW r \in Runs, AcquireRaises(r) PROVE TypeOK'
    BY <2>9 DEF AcquireRaises, Goto, PCs
  <2>10. ASSUME NEW r \in Runs, PersistRecovered(r) PROVE TypeOK'
    <3>1. replaced[r] \in Runs
      BY <2>10 DEF PersistRecovered, At
    <3> QED
      BY <2>10, <3>1 DEF PersistRecovered, Record, Goto, PCs, Statuses
  <2>11. ASSUME NEW r \in Runs, PersistRefusal(r) PROVE TypeOK'
    BY <2>11 DEF PersistRefusal, Record, Goto, PCs, Statuses
  <2>12. ASSUME NEW r \in Runs, StageFailed(r) PROVE TypeOK'
    BY <2>12 DEF StageFailed, Goto, PCs
  <2>13. ASSUME NEW r \in Runs, NEW s \in Statuses, WriteTerminal(r, s) PROVE TypeOK'
    BY <2>13 DEF WriteTerminal, Record, Goto, PCs
  <2>14. ASSUME NEW r \in Runs, CloseView(r) PROVE TypeOK'
    BY <2>14 DEF CloseView, Goto, PCs
  <2>15. ASSUME NEW r \in Runs, Release(r) PROVE TypeOK'
    BY <2>15 DEF Release, Goto, PCs, AfterTerminal
  <2>16. ASSUME NEW r \in Runs, ReleaseRaises(r) PROVE TypeOK'
    BY <2>16 DEF ReleaseRaises, Goto, PCs, AfterTerminal
  <2>17. ASSUME NEW r \in Runs, AdvanceLastSession(r) PROVE TypeOK'
    BY <2>17 DEF AdvanceLastSession, Goto, PCs, Sessions
  <2>18. ASSUME NEW r \in Runs, Finish(r) PROVE TypeOK'
    BY <2>18 DEF Finish, Goto, PCs
  <2>19. CASE UNCHANGED vars
    BY <2>19 DEF vars
  <2> QED
    BY <2>1, <2>2, <2>3, <2>4, <2>5, <2>6, <2>7, <2>8, <2>9, <2>10, <2>11,
       <2>12, <2>13, <2>14, <2>15, <2>16, <2>17, <2>18, <2>19
       DEF Next, Progress, Succeed
<1> QED
  BY <1>1, <1>2, PTL DEF Spec

-----------------------------------------------------------------------------

\* The invariant is inductive as long as nothing raises after the completed
\* terminal of a review: the except branch would then write the active row of a
\* lease that was given back.
THEOREM LeaseInvHolds ==
  ASSUME LateFailure = FALSE
  PROVE  Spec => []LeaseInv
<1>1. Init => LeaseInv
  <2> SUFFICES ASSUME Init PROVE LeaseInv
    OBVIOUS
  <2>1. TypeOK
    BY RunsAssumption DEF Init, TypeOK, Sessions, PCs, Statuses, NoView
  <2> QED
    BY <2>1, RunsAssumption
       DEF Init, LeaseInv, PidsDistinct, HomesStarted, BusyHoldsItsRow,
           ActiveRowIsTheWorker, Busy, Runs
<1>2. LeaseInv /\ TypeOK' /\ [Next]_vars => LeaseInv'
  <2> SUFFICES ASSUME LeaseInv, TypeOK', [Next]_vars
               PROVE  (PidsDistinct /\ HomesStarted /\ BusyHoldsItsRow
                         /\ ActiveRowIsTheWorker)'
    BY DEF LeaseInv
  <2> DEFINE Goal == (PidsDistinct /\ HomesStarted /\ BusyHoldsItsRow
                        /\ ActiveRowIsTheWorker)'
  <2> USE RunsAssumption
      DEF LeaseInv, TypeOK, procVars, runVars, rowVars, PidsDistinct,
          HomesStarted, BusyHoldsItsRow, ActiveRowIsTheWorker, Busy, IsUp
  <2>1. ASSUME NEW p \in Procs, NEW n \in Pids, Boot(p, n) PROVE Goal
    BY <2>1 DEF Boot, PidAlive, Runs
  <2>2. ASSUME NEW p \in Procs, Crash(p) PROVE Goal
    BY <2>2 DEF Crash, Runs
  <2>3. CASE NextSession
    BY <2>3 DEF NextSession, Runs
  <2>4. ASSUME NEW r \in Runs, NEW p \in Procs, Begin(r, p) PROVE Goal
    BY <2>4 DEF Begin, Goto, Runs
  <2>5. ASSUME NEW r \in Runs, Stage(r) PROVE Goal
    BY <2>5 DEF Stage, At, Runs
  <2>6. ASSUME NEW r \in Runs, AcquirePmr(r) PROVE Goal
    <3>1. /\ \A q \in Runs : ~Busy(q)
          /\ active # None => ~IsUp(active)
      BY <2>6, GrantedAlone DEF AcquirePmr, MayRun
    <3> QED
      BY <2>6, <3>1 DEF AcquirePmr, TakeOver, Goto, At, Runs
  <2>7. ASSUME NEW r \in Runs, AcquireRecon(r) PROVE Goal
    <3>1. /\ \A q \in Runs : ~Busy(q)
          /\ active # None => ~IsUp(active)
      BY <2>7, GrantedAlone DEF AcquireRecon, MayRun
    <3> QED
      BY <2>7, <3>1 DEF AcquireRecon, TakeOver, Goto, At, Runs
  <2>8. ASSUME NEW r \in Runs, Refuse(r) PROVE Goal
    BY <2>8 DEF Refuse, Goto, At, Runs
  <2>9. ASSUME NEW r \in Runs, AcquireRaises(r) PROVE Goal
    BY <2>9 DEF AcquireRaises, Goto, At, Runs
  <2>10. ASSUME NEW r \in Runs, PersistRecovered(r) PROVE Goal
    BY <2>10 DEF PersistRecovered, Goto, At, Runs
  <2>11. ASSUME NEW r \in Runs, PersistRefusal(r) PROVE Goal
    BY <2>11 DEF PersistRefusal, Goto, At, Runs
  <2>12. ASSUME NEW r \in Runs, StageFailed(r) PROVE Goal
    BY <2>12 DEF StageFailed, Goto, At, Runs
  <2>13. ASSUME NEW r \in Runs, NEW s \in Statuses, WriteTerminal(r, s) PROVE Goal
    BY <2>13 DEF WriteTerminal, Goto, At, Runs
  <2>14. ASSUME NEW r \in Runs, CloseView(r) PROVE Goal
    BY <2>14 DEF CloseView, Goto, At, Runs
  <2>15. ASSUME NEW r \in Runs, Release(r) PROVE Goal
    BY <2>15 DEF Release, Goto, AfterTerminal, At, Runs
  <2>16. ASSUME NEW r \in Runs, ReleaseRaises(r) PROVE Goal
    BY <2>16 DEF ReleaseRaises, Goto, AfterTerminal, At, Runs
  <2>17. ASSUME NEW r \in Runs, AdvanceLastSession(r) PROVE Goal
    BY <2>17 DEF AdvanceLastSession, Goto, At, Runs
  <2>18. ASSUME NEW r \in Runs, Finish(r) PROVE Goal
    BY <2>18 DEF Finish, Goto, At, Runs
  <2>19. CASE UNCHANGED vars
    BY <2>19 DEF vars, Runs
  <2> QED
    BY <2>1, <2>2, <2>3, <2>4, <2>5, <2>6, <2>7, <2>8, <2>9, <2>10, <2>11,
       <2>12, <2>13, <2>14, <2>15, <2>16, <2>17, <2>18, <2>19
       DEF Next, Progress, Succeed
<1> QED
  BY <1>1, <1>2, TypeCorrect, PTL DEF Spec

\* Two jobs of the post-market never work at once.
THEOREM MutualExclusionHolds ==
  ASSUME LateFailure = FALSE
  PROVE  Spec => []MutualExclusion
BY LeaseInvHolds, MutexFromInv, PTL

\* A live owner loses the active row only by its own release.
THEOREM LiveOwnerIsNeverStolen ==
  ASSUME LateFailure = FALSE
  PROVE  Spec => LiveOwnerNeverStolen
<1> DEFINE Kept == \A r \in Runs :
                     active = r /\ IsUp(r) /\ active' # r
                       => pc[r] = "releasing" /\ pc'[r] = AfterTerminal(r)
<1>1. LeaseInv /\ [Next]_vars => [Kept]_vars
  <2> SUFFICES ASSUME LeaseInv, Next, NEW q \in Runs,
                      active = q, IsUp(q), active' # q
               PROVE  pc[q] = "releasing" /\ pc'[q] = AfterTerminal(q)
    OBVIOUS
  <2>0. active # None /\ TypeOK /\ ActiveRowIsTheWorker
    BY RunsAssumption DEF LeaseInv
  <2>1. ASSUME NEW r \in Runs, At(r, "begun"), MayRun(r) PROVE FALSE
    BY <2>0, <2>1, GrantedAlone
  <2>2. ASSUME NEW r \in Runs, Busy(r), active' = r PROVE FALSE
    BY <2>0, <2>2 DEF ActiveRowIsTheWorker
  <2>3. PICK r \in Runs : \/ AcquirePmr(r) \/ AcquireRecon(r)
                          \/ Stage(r) \/ StageFailed(r) \/ Release(r)
    BY DEF Next, Progress, Succeed, Boot, Crash, NextSession, Begin, Refuse,
           AcquireRaises, PersistRecovered, PersistRefusal, WriteTerminal,
           CloseView, ReleaseRaises, AdvanceLastSession, Finish, rowVars
  <2>4. ~AcquirePmr(r) /\ ~AcquireRecon(r)
    BY <2>1, RunsAssumption DEF AcquirePmr, AcquireRecon, MayRun, Runs
  <2>5. ~Stage(r) /\ ~StageFailed(r)
    BY <2>2 DEF Stage, StageFailed, Busy, At
  <2>6. Release(r)
    BY <2>3, <2>4, <2>5
  <2> QED
    BY <2>0, <2>6 DEF Release, At, Goto, TypeOK
<1> QED
  BY <1>1, LeaseInvHolds, PTL DEF Spec, LiveOwnerNeverStolen

-----------------------------------------------------------------------------
(* The places of the runs.                                                 *)

\* Reconciliations have no session row to close.
NoReconCloses == \A r \in ReconRuns : pc[r] # "closing"

\* Only a completed review advances the last session.
AdvancingIsCompleted ==
  \A r \in Runs : pc[r] = "advancing" => r \in PmrRuns /\ outcome[r] = "completed"

LEMMA PlacesHold == Spec => [](NoReconCloses /\ AdvancingIsCompleted)
<1>1. Init => NoReconCloses /\ AdvancingIsCompleted
  BY RunsAssumption DEF Init, NoReconCloses, AdvancingIsCompleted, Runs
<1>2. NoReconCloses /\ AdvancingIsCompleted /\ TypeOK /\ [Next]_vars
        => NoReconCloses' /\ AdvancingIsCompleted'
  <2> SUFFICES ASSUME NoReconCloses, AdvancingIsCompleted, TypeOK, [Next]_vars
               PROVE  NoReconCloses' /\ AdvancingIsCompleted'
    OBVIOUS
  <2> USE RunsAssumption
      DEF NoReconCloses, AdvancingIsCompleted, TypeOK, Goto, At, runVars, Runs
  <2>1. CASE UNCHANGED <<pc, outcome>>
    BY <2>1
  <2>2. ASSUME NEW r \in Runs, \/ AcquirePmr(r) \/ AcquireRecon(r) \/ Refuse(r)
                               \/ AcquireRaises(r) \/ PersistRecovered(r)
                               \/ PersistRefusal(r) \/ StageFailed(r) \/ Finish(r)
                               \/ AdvanceLastSession(r) \/ \E p \in Procs : Begin(r, p)
        PROVE  NoReconCloses' /\ AdvancingIsCompleted'
    <3>1. PICK place \in PCs \ {"closing", "advancing"} :
            pc' = [pc EXCEPT ![r] = place] /\ UNCHANGED outcome
      BY <2>2
         DEF AcquirePmr, AcquireRecon, TakeOver, Refuse, AcquireRaises, Begin,
             PersistRecovered, PersistRefusal, StageFailed, Finish,
             AdvanceLastSession, PCs
    <3> QED
      BY <3>1
  <2>3. ASSUME NEW r \in Runs, NEW s \in Statuses, WriteTerminal(r, s)
        PROVE  NoReconCloses' /\ AdvancingIsCompleted'
    BY <2>3 DEF WriteTerminal
  <2>4. ASSUME NEW r \in Runs, CloseView(r)
        PROVE  NoReconCloses' /\ AdvancingIsCompleted'
    BY <2>4 DEF CloseView
  <2>5. ASSUME NEW r \in Runs, Release(r) \/ ReleaseRaises(r)
        PROVE  NoReconCloses' /\ AdvancingIsCompleted'
    BY <2>5 DEF Release, ReleaseRaises, AfterTerminal
  <2>6. \/ UNCHANGED <<pc, outcome>>
        \/ \E r \in Runs : \/ \E p \in Procs : Begin(r, p)
                           \/ Progress(r)
    BY DEF Next, Boot, Crash, NextSession, Stage, vars
  <2> QED
    BY <2>1, <2>2, <2>3, <2>4, <2>5, <2>6 DEF Progress, Succeed
<1> QED
  BY <1>1, <1>2, TypeCorrect, PTL DEF Spec

-----------------------------------------------------------------------------
(* The session rows: a processed session stays processed.                  *)

\* The session row of a live review is its own until it closes it, whatever
\* the store does.
ViewIsHeld ==
  \A r \in PmrRuns :
    IsUp(r) /\ pc[r] \in {"recovering", "working", "failing", "closing"}
      => view[sess[r]] = [run |-> r, status |-> "active"]

RowsInv == LeaseInv /\ NoReconCloses /\ AdvancingIsCompleted /\ ViewIsHeld

\* Dropping an active view processes nothing and forgets nothing.
LEMMA WithoutViewKeeps ==
  ASSUME NEW o, NEW s \in Sessions
  PROVE  /\ (WithoutView(o)[s].status = "completed") <=> (view[s].status = "completed")
         /\ ~(view[s] = [run |-> o, status |-> "active"]) => WithoutView(o)[s] = view[s]
<1>1. WithoutView(o)[s] = IF /\ o # None
                              /\ s = sess[o]
                              /\ view[s] = [run |-> o, status |-> "active"]
                           THEN NoView ELSE view[s]
  BY DEF WithoutView
<1> QED
  BY <1>1 DEF NoView

LEMMA ViewIsHeldStep ==
  ASSUME LateFailure = FALSE, RowsInv, [Next]_vars
  PROVE  ViewIsHeld'
<1> USE RunsAssumption
    DEF RowsInv, LeaseInv, TypeOK, procVars, runVars, rowVars, HomesStarted,
        ViewIsHeld, IsUp
<1>1. ASSUME NEW p \in Procs, NEW n \in Pids, Boot(p, n) PROVE ViewIsHeld'
  BY <1>1 DEF Boot, Runs
<1>2. ASSUME NEW p \in Procs, Crash(p) PROVE ViewIsHeld'
  BY <1>2 DEF Crash, Runs
<1>3. CASE NextSession
  BY <1>3 DEF NextSession, Runs
<1>4. ASSUME NEW r \in Runs, NEW p \in Procs, Begin(r, p) PROVE ViewIsHeld'
  BY <1>4 DEF Begin, Goto, Runs
<1>5. ASSUME NEW r \in Runs, Stage(r) PROVE ViewIsHeld'
  BY <1>5 DEF Stage, At, Runs
<1>6. ASSUME NEW r \in Runs, AcquirePmr(r) PROVE ViewIsHeld'
  <2>1. \A q \in Runs : ~Busy(q)
    BY <1>6, GrantedAlone DEF AcquirePmr, MayRun
  <2>2. view'[sess[r]] = [run |-> r, status |-> "active"]
    BY <1>6, WithoutViewType DEF AcquirePmr
  <2>3. \A q \in Runs : q # r => pc'[q] = pc[q]
    BY <1>6 DEF AcquirePmr, TakeOver, Goto
  <2> QED
    BY <1>6, <2>1, <2>2, <2>3 DEF AcquirePmr, Busy, Runs
<1>7. ASSUME NEW r \in Runs, AcquireRecon(r) PROVE ViewIsHeld'
  <2>1. \A q \in Runs : ~Busy(q)
    BY <1>7, GrantedAlone DEF AcquireRecon, MayRun
  <2>2. r \notin PmrRuns /\ \A q \in Runs : q # r => pc'[q] = pc[q]
    BY <1>7 DEF AcquireRecon, TakeOver, Goto
  <2> QED
    BY <1>7, <2>1, <2>2 DEF AcquireRecon, Busy, Runs
<1>8. ASSUME NEW r \in Runs, Refuse(r) \/ AcquireRaises(r) PROVE ViewIsHeld'
  BY <1>8 DEF Refuse, AcquireRaises, Goto, At, Runs
<1>9. ASSUME NEW r \in Runs, PersistRecovered(r) PROVE ViewIsHeld'
  BY <1>9 DEF PersistRecovered, Goto, At, Runs
<1>10. ASSUME NEW r \in Runs, PersistRefusal(r) PROVE ViewIsHeld'
  BY <1>10 DEF PersistRefusal, Goto, At, Runs
<1>11. ASSUME NEW r \in Runs, StageFailed(r) PROVE ViewIsHeld'
  BY <1>11 DEF StageFailed, Goto, At, Runs
<1>12. ASSUME NEW r \in Runs, NEW s \in Statuses, WriteTerminal(r, s) PROVE ViewIsHeld'
  BY <1>12 DEF WriteTerminal, Goto, At, Runs
<1>13. ASSUME NEW r \in Runs, CloseView(r) PROVE ViewIsHeld'
  <2>1. \A q \in Runs : q # r => ~Busy(q) /\ pc'[q] = pc[q]
    BY <1>13, MutexFromInv DEF CloseView, Goto, At, Busy, MutualExclusion
  <2>2. pc'[r] = "releasing"
    BY <1>13 DEF CloseView, Goto
  <2> QED
    BY <1>13, <2>1, <2>2 DEF CloseView, Busy, Runs
<1>14. ASSUME NEW r \in Runs, Release(r) \/ ReleaseRaises(r) PROVE ViewIsHeld'
  BY <1>14 DEF Release, ReleaseRaises, Goto, AfterTerminal, At, Runs
<1>15. ASSUME NEW r \in Runs, AdvanceLastSession(r) \/ Finish(r) PROVE ViewIsHeld'
  BY <1>15 DEF AdvanceLastSession, Finish, Goto, At, Runs
<1>16. CASE UNCHANGED vars
  BY <1>16 DEF vars, Runs
<1> QED
  BY <1>1, <1>2, <1>3, <1>4, <1>5, <1>6, <1>7, <1>8, <1>9, <1>10, <1>11,
     <1>12, <1>13, <1>14, <1>15, <1>16
     DEF Next, Progress, Succeed

LEMMA RowsInvHolds ==
  ASSUME LateFailure = FALSE
  PROVE  Spec => []RowsInv
<1>1. Init => ViewIsHeld
  BY RunsAssumption DEF Init, ViewIsHeld, Runs
<1>2. RowsInv /\ [Next]_vars => ViewIsHeld'
  BY ViewIsHeldStep
<1> QED
  BY <1>1, <1>2, LeaseInvHolds, PlacesHold, PTL DEF Spec, RowsInv

\* What each step does to a processed session.
LEMMA ProcessedKept ==
  ASSUME RowsInv, [Next]_vars, NEW s \in Sessions, Processed(s)
  PROVE  Processed(s)'
<1> USE RunsAssumption DEF RowsInv, LeaseInv, TypeOK, rowVars, Processed
<1>1. CASE UNCHANGED <<view, last>>
  BY <1>1
<1>2. ASSUME NEW r \in Runs, AcquirePmr(r) PROVE Processed(s)'
  <2>1. s # sess[r] /\ last' = last
    BY <1>2 DEF AcquirePmr, PmrMayRun
  <2>2. view'[s] = WithoutView(active)[s]
    BY <1>2, <2>1, WithoutViewType DEF AcquirePmr
  <2> QED
    BY <2>1, <2>2, WithoutViewKeeps
<1>3. ASSUME NEW r \in Runs, AcquireRecon(r) PROVE Processed(s)'
  <2>1. PICK o \in Runs \cup {None} : view' = WithoutView(o)
    BY <1>3 DEF AcquireRecon
  <2> QED
    BY <1>3, <2>1, WithoutViewKeeps DEF AcquireRecon
<1>4. ASSUME NEW r \in Runs, CloseView(r) PROVE Processed(s)'
  <2>1. r \in PmrRuns
    BY <1>4 DEF CloseView, At, NoReconCloses, Runs
  <2>2. view[sess[r]] = [run |-> r, status |-> "active"]
    BY <1>4, <2>1 DEF CloseView, At, ViewIsHeld
  <2>3. view[sess[r]].status # "completed"
    BY <2>2
  <2>4. \A t \in Sessions : t # sess[r] => view'[t] = view[t]
    BY <1>4 DEF CloseView
  <2> QED
    BY <1>4, <2>3, <2>4 DEF CloseView
<1>5. ASSUME NEW r \in Runs, AdvanceLastSession(r) PROVE Processed(s)'
  BY <1>5 DEF AdvanceLastSession, Sessions
<1>6. \/ UNCHANGED <<view, last>>
      \/ \E r \in Runs : \/ AcquirePmr(r) \/ AcquireRecon(r) \/ CloseView(r)
                         \/ AdvanceLastSession(r)
  BY DEF Next, Progress, Succeed, vars, Boot, Crash, NextSession, Begin, Stage,
         Refuse, AcquireRaises, PersistRecovered, PersistRefusal, StageFailed,
         WriteTerminal, Release, ReleaseRaises, Finish
<1> QED
  BY <1>1, <1>2, <1>3, <1>4, <1>5, <1>6

\* Nothing makes a processed session eligible again, whatever the store loses.
THEOREM ProcessedStaysHolds ==
  ASSUME LateFailure = FALSE
  PROVE  Spec => ProcessedStays
<1> DEFINE Kept == \A s \in Sessions : Processed(s) => Processed(s)'
<1>1. RowsInv /\ [Next]_vars => Kept
  BY ProcessedKept
<1>2. RowsInv /\ [Next]_vars => [Kept]_vars
  BY <1>1
<1> QED
  BY <1>2, RowsInvHolds, PTL DEF Spec, ProcessedStays

-----------------------------------------------------------------------------
(* The coordinator implements its contract when the store does not fail.   *)

\* From its release on a completed review finds its session processed.
CompletedIsMarked ==
  \A r \in PmrRuns :
    IsUp(r) /\ pc[r] \in {"releasing", "advancing"} /\ outcome[r] = "completed"
      => Processed(sess[r])

\* A run that was not admitted yet has no ending.
UnadmittedIsUnended == \A r \in Runs : ~Entered(r) => outcome[r] # "completed"

ContractInv == RowsInv /\ CompletedIsMarked /\ UnadmittedIsUnended

LEMMA UnadmittedHolds == Spec => []UnadmittedIsUnended
<1>1. Init => UnadmittedIsUnended
  BY DEF Init, UnadmittedIsUnended
<1>2. TypeOK /\ UnadmittedIsUnended /\ [Next]_vars => UnadmittedIsUnended'
  <2> SUFFICES ASSUME TypeOK, UnadmittedIsUnended, [Next]_vars
               PROVE  UnadmittedIsUnended'
    OBVIOUS
  <2> USE DEF TypeOK, UnadmittedIsUnended, Entered, runVars, Goto, At
  <2>1. ASSUME NEW p \in Procs, NEW n \in Pids, Boot(p, n) PROVE UnadmittedIsUnended'
    BY <2>1 DEF Boot
  <2>2. ASSUME NEW p \in Procs, Crash(p) PROVE UnadmittedIsUnended'
    BY <2>2 DEF Crash
  <2>3. CASE NextSession
    BY <2>3 DEF NextSession
  <2>4. ASSUME NEW r \in Runs, NEW p \in Procs, Begin(r, p) PROVE UnadmittedIsUnended'
    BY <2>4 DEF Begin
  <2>5. ASSUME NEW r \in Runs, Stage(r) PROVE UnadmittedIsUnended'
    BY <2>5 DEF Stage
  <2>6. ASSUME NEW r \in Runs, Progress(r) PROVE UnadmittedIsUnended'
    BY <2>6
       DEF Progress, Succeed, AcquirePmr, AcquireRecon, TakeOver, Refuse, AcquireRaises,
           PersistRecovered, PersistRefusal, StageFailed, WriteTerminal, CloseView,
           Release, ReleaseRaises, AfterTerminal, AdvanceLastSession, Finish
  <2>7. CASE UNCHANGED vars
    BY <2>7 DEF vars
  <2> QED
    BY <2>1, <2>2, <2>3, <2>4, <2>5, <2>6, <2>7 DEF Next
<1> QED
  BY <1>1, <1>2, TypeCorrect, PTL DEF Spec

LEMMA CompletedIsMarkedStep ==
  ASSUME StoreMayFail = FALSE, ContractInv, [Next]_vars
  PROVE  CompletedIsMarked'
<1> USE RunsAssumption
    DEF ContractInv, RowsInv, LeaseInv, TypeOK, CompletedIsMarked, HomesStarted, IsUp,
        procVars, runVars
<1> SUFFICES ASSUME NEW q \in PmrRuns, home'[q] \in up',
                    pc'[q] \in {"releasing", "advancing"}, outcome'[q] = "completed"
             PROVE  Processed(sess[q])'
  OBVIOUS
<1>0. q \in Runs
  BY DEF Runs
<1>1. ASSUME home[q] \in up, sess'[q] = sess[q], Processed(sess[q])
      PROVE  Processed(sess[q])'
  <2>1. sess[q] \in Sessions
    BY <1>0
  <2>2. \A s \in Sessions : Processed(s) => Processed(s)'
    BY ProcessedKept
  <2> QED
    BY <1>1, <2>1, <2>2 DEF Processed
<1>2. CASE CloseView(q)
  <2>1. view[sess[q]] = [run |-> q, status |-> "active"]
    BY <1>2 DEF CloseView, At, ViewIsHeld
  <2>2. view[sess[q]].run = q
    BY <2>1
  <2>3. view' = [view EXCEPT ![sess[q]] = [run |-> q, status |-> outcome[q]]]
    BY <1>2, <2>2 DEF CloseView
  <2>4. view'[sess[q]].status = outcome[q] /\ sess' = sess /\ outcome' = outcome
    BY <1>0, <1>2, <2>3 DEF CloseView
  <2> QED
    BY <2>4 DEF Processed
<1>3. CASE Release(q)
  BY <1>0, <1>1, <1>3 DEF Release, At
<1>4. CASE pc'[q] = pc[q] /\ outcome'[q] = outcome[q] /\ sess'[q] = sess[q] /\ home[q] \in up
  BY <1>1, <1>4
<1>5. CASE UNCHANGED vars
  BY <1>4, <1>5 DEF vars
<1>6. ASSUME NEW p \in Procs, Crash(p) \/ \E n \in Pids : Boot(p, n)
      PROVE  Processed(sess[q])'
  BY <1>0, <1>4, <1>6 DEF Boot, Crash
<1>7. ASSUME NEW r \in Runs, NEW p \in Procs, Begin(r, p) PROVE Processed(sess[q])'
  BY <1>0, <1>4, <1>7 DEF Begin, Goto
<1>8. ASSUME NEW r \in Runs, Stage(r) PROVE Processed(sess[q])'
  BY <1>0, <1>4, <1>8 DEF Stage
<1>9. ASSUME NEW r \in Runs, r # q, Progress(r) PROVE Processed(sess[q])'
  <2>1. pc'[q] = pc[q] /\ outcome'[q] = outcome[q] /\ sess' = sess /\ up' = up /\ home' = home
    BY <1>0, <1>9
       DEF Progress, Succeed, AcquirePmr, AcquireRecon, TakeOver, Refuse, AcquireRaises,
           PersistRecovered, PersistRefusal, StageFailed, WriteTerminal, CloseView, Release,
           ReleaseRaises, AdvanceLastSession, Finish, Goto
  <2> QED
    BY <1>4, <2>1
<1>10. ASSUME Progress(q) PROVE CloseView(q) \/ Release(q)
  BY <1>0, <1>10
     DEF Progress, Succeed, AcquirePmr, AcquireRecon, TakeOver, Refuse, AcquireRaises,
         PersistRecovered, PersistRefusal, StageFailed, WriteTerminal, ReleaseRaises,
         AdvanceLastSession, Finish, Goto
<1>11. CASE NextSession
  BY <1>0, <1>4, <1>11 DEF NextSession
<1> QED
  BY <1>0, <1>2, <1>3, <1>5, <1>6, <1>7, <1>8, <1>9, <1>10, <1>11 DEF Next

LEMMA ContractInvHolds ==
  ASSUME LateFailure = FALSE, StoreMayFail = FALSE
  PROVE  Spec => []ContractInv
<1>1. Init => CompletedIsMarked
  BY RunsAssumption DEF Init, CompletedIsMarked, Runs
<1>2. ContractInv /\ [Next]_vars => CompletedIsMarked'
  BY CompletedIsMarkedStep
<1> QED
  BY <1>1, <1>2, RowsInvHolds, UnadmittedHolds, PTL DEF Spec, ContractInv

\* Leaving the busy set is the only thing a step does to it unless it grants.
LEMMA BusySetUnchanged ==
  ASSUME \A r \in Runs : Busy(r)' <=> Busy(r),
         \A r \in Runs : Entered(r)' <=> Entered(r),
         \A r \in PmrRuns : sess'[r] = sess[r] /\ (Marked(r)' <=> Marked(r)),
         \A s \in Sessions : Processed(s)' <=> Processed(s)
  PROVE  UNCHANGED Contract!contractVars
BY DEF Contract!contractVars, Runs

LEMMA ContractStep ==
  ASSUME LateFailure = FALSE, StoreMayFail = FALSE,
         ContractInv, ContractInv', [Next]_vars
  PROVE  [Contract!CNext]_(Contract!contractVars)
<1> USE RunsAssumption
    DEF ContractInv, RowsInv, LeaseInv, TypeOK, procVars, runVars, rowVars, HomesStarted
<1> DEFINE Still == UNCHANGED Contract!contractVars
<1>1. ASSUME NEW p \in Procs, NEW n \in Pids, Boot(p, n) PROVE Still
  BY <1>1, BusySetUnchanged DEF Boot, Busy, Entered, Marked, IsUp, Processed
<1>2. ASSUME NEW p \in Procs, Crash(p) PROVE Contract!CNext \/ Still
  <2> DEFINE Gone == {r \in Runs : Busy(r) /\ ~Busy(r)'}
  <2>1. /\ \A s \in Sessions : Processed(s)' <=> Processed(s)
        /\ pc' = pc /\ sess' = sess /\ outcome' = outcome
        /\ \A r \in Runs : Busy(r)' => Busy(r)
    BY <1>2 DEF Crash, Busy, Entered, Marked, IsUp, Processed
  <2>2. CASE Gone = {}
    BY <2>1, <2>2, BusySetUnchanged DEF Entered, Marked
  <2>3. CASE Gone # {}
    <3>1. Contract!Leave(Gone)
      BY <2>1, <2>3 DEF Contract!Leave, Entered, Marked
    <3>2. Gone \in SUBSET {r \in Runs : Busy(r)}
      OBVIOUS
    <3> QED
      BY <3>1, <3>2 DEF Contract!CNext
  <2> QED
    BY <2>2, <2>3
<1>3. CASE NextSession
  BY <1>3, BusySetUnchanged DEF NextSession, Busy, Entered, Marked, IsUp, Processed
<1>4. ASSUME NEW r \in Runs, NEW p \in Procs, Begin(r, p) PROVE Contract!CNext \/ Still
  <2>1. /\ \A q \in Runs : Busy(q)' <=> Busy(q)
        /\ \A q \in Runs : Entered(q)' <=> Entered(q)
        /\ \A q \in Runs : Marked(q)' <=> Marked(q)
        /\ \A s \in Sessions : Processed(s)' <=> Processed(s)
        /\ ~Entered(r) /\ today \in Sessions
        /\ \A q \in Runs : sess'[q] = IF q = r THEN today ELSE sess[q]
    BY <1>4 DEF Begin, Goto, Busy, Entered, Marked, IsUp, Processed
  <2>2. CASE r \in PmrRuns
    <3>1. PICK s \in 1 .. MaxSession : s = today
      BY <2>1 DEF Sessions
    <3>2. [q \in PmrRuns |-> sess'[q]] = [[q \in PmrRuns |-> sess[q]] EXCEPT ![r] = s]
      BY <2>1, <2>2, <3>1 DEF Runs
    <3>3. Contract!Ask(r, s)
      BY <2>1, <2>2, <3>2 DEF Contract!Ask, Runs
    <3> QED
      BY <2>2, <3>3 DEF Contract!CNext
  <2>3. CASE r \notin PmrRuns
    BY <2>1, <2>3, BusySetUnchanged DEF Runs
  <2> QED
    BY <2>2, <2>3
<1>5. ASSUME NEW r \in Runs, Stage(r) PROVE Still
  BY <1>5, BusySetUnchanged DEF Stage, Busy, Entered, Marked, IsUp, Processed
<1>6. ASSUME NEW r \in Runs, AcquirePmr(r) PROVE Contract!CNext
  <2>1. \A q \in Runs : ~Busy(q)
    BY <1>6, GrantedAlone DEF AcquirePmr, MayRun
  <2>2. \A q \in Runs : Busy(q)' <=> q = r
    BY <1>6, <2>1 DEF AcquirePmr, TakeOver, Goto, At, Busy, IsUp, Runs
  <2>3. /\ \A q \in Runs : Entered(q)' <=> Entered(q) \/ q = r
        /\ \A q \in Runs : Marked(q)' <=> Marked(q)
        /\ sess' = sess
    BY <1>6 DEF AcquirePmr, TakeOver, Goto, At, Entered, Marked, UnadmittedIsUnended
  <2>4. ~Entered(r) /\ r \in PmrRuns /\ ~Processed(sess[r]) /\ sess[r] \in Sessions
    BY <1>6 DEF AcquirePmr, At, PmrMayRun, Entered
  <2>5. ASSUME NEW s \in Sessions PROVE Processed(s)' <=> Processed(s)
    <3>1. view'[s].status = "completed" <=> view[s].status = "completed"
      <4>1. CASE s = sess[r]
        <5>1. view'[s] = [run |-> r, status |-> "active"]
          BY <1>6, <4>1, WithoutViewType DEF AcquirePmr
        <5> QED
          BY <2>4, <4>1, <5>1 DEF Processed
      <4>2. CASE s # sess[r]
        <5>1. view'[s] = WithoutView(active)[s]
          BY <1>6, <4>2, WithoutViewType DEF AcquirePmr
        <5> QED
          BY <5>1, WithoutViewKeeps
      <4> QED
        BY <4>1, <4>2
    <3>2. last' = last
      BY <1>6 DEF AcquirePmr
    <3> QED
      BY <3>1, <3>2 DEF Processed
  <2>6. Contract!Enter(r)
    BY <2>1, <2>2, <2>3, <2>4, <2>5 DEF Contract!Enter, Runs, Sessions
  <2> QED
    BY <2>6 DEF Contract!CNext, Runs
<1>7. ASSUME NEW r \in Runs, AcquireRecon(r) PROVE Contract!CNext
  <2>1. \A q \in Runs : ~Busy(q)
    BY <1>7, GrantedAlone DEF AcquireRecon, MayRun
  <2>2. \A q \in Runs : Busy(q)' <=> q = r
    BY <1>7, <2>1 DEF AcquireRecon, TakeOver, Goto, At, Busy, IsUp, Runs
  <2>3. /\ \A q \in Runs : Entered(q)' <=> Entered(q) \/ q = r
        /\ \A q \in Runs : Marked(q)' <=> Marked(q)
        /\ sess' = sess
    BY <1>7 DEF AcquireRecon, TakeOver, Goto, At, Entered, Marked, UnadmittedIsUnended
  <2>4. ~Entered(r) /\ r \notin PmrRuns
    BY <1>7 DEF AcquireRecon, At, Entered
  <2>5. ASSUME NEW s \in Sessions PROVE Processed(s)' <=> Processed(s)
    <3>1. PICK o \in Runs \cup {None} : view' = WithoutView(o)
      BY <1>7 DEF AcquireRecon
    <3> QED
      BY <1>7, <3>1, WithoutViewKeeps DEF AcquireRecon, Processed
  <2>6. Contract!Enter(r)
    BY <2>1, <2>2, <2>3, <2>4, <2>5 DEF Contract!Enter, Runs
  <2> QED
    BY <2>6 DEF Contract!CNext, Runs
<1>8. ASSUME NEW r \in Runs, Refuse(r) PROVE Still
  BY <1>8, BusySetUnchanged DEF Refuse, Goto, At, Busy, Entered, Marked, IsUp, Processed
<1>9. ASSUME NEW r \in Runs, PersistRecovered(r) PROVE Still
  BY <1>9, BusySetUnchanged DEF PersistRecovered, Goto, At, Busy, Entered, Marked, IsUp, Processed
<1>10. ASSUME NEW r \in Runs, PersistRefusal(r) PROVE Contract!CNext
  <2>1. Contract!GiveUp(r)
    <3>1. /\ \A q \in Runs : Entered(q)' <=> Entered(q) \/ q = r
          /\ \A q \in Runs : Marked(q)' <=> Marked(q)
          /\ \A q \in Runs : Busy(q)' <=> Busy(q)
          /\ ~Entered(r)
      BY <1>10 DEF PersistRefusal, Goto, At, Busy, Entered, Marked, IsUp, UnadmittedIsUnended
    <3>2. sess' = sess /\ \A s \in Sessions : Processed(s)' <=> Processed(s)
      BY <1>10 DEF PersistRefusal, Processed
    <3> QED
      BY <3>1, <3>2 DEF Contract!GiveUp, Runs
  <2> QED
    BY <2>1 DEF Contract!CNext, Runs
<1>11. ASSUME NEW r \in Runs, StageFailed(r) PROVE Still
  BY <1>11, BusySetUnchanged DEF StageFailed, Goto, At, Busy, Entered, Marked, IsUp, Processed
<1>12. ASSUME NEW r \in Runs, NEW s \in Statuses, WriteTerminal(r, s) PROVE Still
  BY <1>12, BusySetUnchanged DEF WriteTerminal, Goto, At, Busy, Entered, Marked, IsUp, Processed
<1>13. ASSUME NEW r \in Runs, CloseView(r) PROVE Contract!CNext \/ Still
  <2>0. /\ \A q \in Runs : Busy(q)' <=> Busy(q)
        /\ \A q \in Runs : Entered(q)' <=> Entered(q)
        /\ \A q \in Runs : Marked(q)' <=> Marked(q) \/ (q = r /\ outcome[r] = "completed")
        /\ ~Marked(r) /\ Busy(r) /\ last' = last /\ sess' = sess
    BY <1>13 DEF CloseView, Goto, At, Busy, Entered, Marked, IsUp
  <2>1. r \in PmrRuns /\ sess[r] \in Sessions
    BY <1>13 DEF CloseView, At, NoReconCloses, Runs
  <2>2. view[sess[r]] = [run |-> r, status |-> "active"]
    BY <1>13, <2>1 DEF CloseView, At, ViewIsHeld
  <2>3. view[sess[r]].run = r /\ view[sess[r]].status = "active"
    BY <2>2
  <2>4. view' = [view EXCEPT ![sess[r]] = [run |-> r, status |-> outcome[r]]]
    BY <1>13, <2>3 DEF CloseView
  <2>5. \A s \in Sessions : view'[s].status = IF s = sess[r] THEN outcome[r]
                                                             ELSE view[s].status
    BY <2>1, <2>4
  <2>6. CASE outcome[r] = "completed"
    <3>1. \A s \in Sessions : Processed(s)' <=> (Processed(s) \/ s = sess[r])
      BY <2>0, <2>5, <2>6 DEF Processed
    <3>2. Contract!Mark(r)
      BY <2>0, <2>1, <2>6, <3>1 DEF Contract!Mark, Runs
    <3> QED
      BY <2>1, <3>2 DEF Contract!CNext
  <2>7. CASE outcome[r] # "completed"
    <3>1. \A s \in Sessions : Processed(s)' <=> Processed(s)
      BY <2>0, <2>3, <2>5, <2>7 DEF Processed
    <3> QED
      BY <2>0, <2>7, <3>1, BusySetUnchanged DEF Runs
  <2> QED
    BY <2>6, <2>7
<1>14. ASSUME NEW r \in Runs, Release(r) PROVE Contract!CNext
  <2>0. /\ Busy(r) /\ \A q \in Runs : Busy(q)' <=> (Busy(q) /\ q # r)
        /\ \A q \in Runs : Entered(q)' <=> Entered(q)
        /\ \A q \in Runs : Marked(q)' <=> Marked(q)
        /\ sess' = sess /\ \A s \in Sessions : Processed(s)' <=> Processed(s)
    <3>1. /\ pc[r] = "releasing" /\ pc' = [pc EXCEPT ![r] = AfterTerminal(r)]
          /\ AfterTerminal(r) \in {"advancing", "done"} /\ IsUp(r)
          /\ UNCHANGED <<up, home, sess, outcome, view, last>>
      BY <1>14 DEF Release, Goto, At, AfterTerminal
    <3> HIDE DEF TypeOK
    <3>2. pc \in [Runs -> PCs]
      BY DEF TypeOK
    <3>3. \A q \in Runs : pc'[q] = IF q = r THEN AfterTerminal(r) ELSE pc[q]
      BY <3>1, <3>2
    <3>4. Busy(r) /\ \A q \in Runs : Busy(q)' <=> (Busy(q) /\ q # r)
      BY <3>1, <3>3 DEF Busy, IsUp
    <3>5. \A q \in Runs : Entered(q)' <=> Entered(q)
      BY <3>1, <3>3 DEF Entered
    <3>6. \A q \in Runs : Marked(q)' <=> Marked(q)
      BY <3>1, <3>3 DEF Marked
    <3>7. sess' = sess /\ \A s \in Sessions : Processed(s)' <=> Processed(s)
      BY <3>1 DEF Processed
    <3> QED
      BY <3>4, <3>5, <3>6, <3>7
  <2>1. Contract!Leave({r})
    BY <2>0 DEF Contract!Leave, Runs
  <2>2. {r} \in SUBSET {q \in Runs : Busy(q)}
    BY <2>0
  <2> QED
    BY <2>1, <2>2 DEF Contract!CNext
<1>15. ASSUME NEW r \in Runs, AdvanceLastSession(r) PROVE Contract!CNext
  <2>0. /\ r \in PmrRuns /\ Marked(r) /\ ~Busy(r) /\ sess[r] \in Sessions
    BY <1>15 DEF AdvanceLastSession, At, AdvancingIsCompleted, Marked, Busy, Runs
  <2>1. /\ \A q \in Runs : Busy(q)' <=> Busy(q)
        /\ \A q \in Runs : Entered(q)' <=> Entered(q)
        /\ \A q \in Runs : Marked(q)' <=> Marked(q)
        /\ sess' = sess
    BY <1>15 DEF AdvanceLastSession, Goto, At, Busy, IsUp, Entered, Marked
  <2>2. \A s \in Sessions : Processed(s)' <=> (Processed(s) \/ s \in 1 .. sess[r])
    BY <1>15, <2>0 DEF AdvanceLastSession, Processed, Sessions
  <2>3. Contract!CatchUp(r)
    BY <2>0, <2>1, <2>2 DEF Contract!CatchUp, Sessions, Runs
  <2> QED
    BY <2>0, <2>3 DEF Contract!CNext
<1>16. ASSUME NEW r \in Runs, Finish(r) PROVE Still
  BY <1>16, BusySetUnchanged DEF Finish, Goto, At, Busy, Entered, Marked, IsUp, Processed
<1>17. CASE UNCHANGED vars
  BY <1>17, BusySetUnchanged DEF vars, Busy, Entered, Marked, IsUp, Processed
<1> QED
  BY <1>1, <1>2, <1>3, <1>4, <1>5, <1>6, <1>7, <1>8, <1>9, <1>10, <1>11,
     <1>12, <1>13, <1>14, <1>15, <1>16, <1>17
     DEF Next, Progress, Succeed, AcquireRaises, ReleaseRaises

\* Each step of the coordinator is a step of its contract or changes nothing
\* the contract speaks of.
THEOREM CoordinatorImplementsContract ==
  ASSUME LateFailure = FALSE, StoreMayFail = FALSE
  PROVE  Spec => ImplementsContract
<1>1. Init => Contract!CInit
  BY RunsAssumption
     DEF Init, Contract!CInit, Busy, Entered, Marked, IsUp, Processed, NoView, Sessions,
         Runs
<1>2. ContractInv /\ ContractInv' /\ [Next]_vars
        => [Contract!CNext]_(Contract!contractVars)
  BY ContractStep
<1> QED
  BY <1>1, <1>2, ContractInvHolds, PTL DEF Spec, ImplementsContract, Contract!Spec

-----------------------------------------------------------------------------
(* The event log: what agent_events tells of the runs.                     *)

\* The owner of the reconciliation row has begun.
ReconHasBegun == recon # None => pc[recon] # "idle"

\* Nothing is told yet of a live run that has not ended.
UnendedIsUntold ==
  \A r \in Runs :
    pc[r] = "idle" \/ (IsUp(r) /\ pc[r] \in {"begun", "refused", "recovering",
                                            "working", "failing"})
      => ~HasTerminal(r)

\* Who is about to be told failed by its successor is dead and untold.
RecoveredIsUntold ==
  \A r \in Runs : At(r, "recovering") =>
    /\ ~IsUp(replaced[r]) /\ pc[replaced[r]] # "idle"
    /\ ~HasTerminal(replaced[r])

EventInv == ReconHasBegun /\ UnendedIsUntold /\ RecoveredIsUntold /\ OneTerminalStatus

\* A dead run never moves again.
LEMMA DeadStays ==
  ASSUME TypeOK, HomesStarted, [Next]_vars, NEW r \in Runs, pc[r] # "idle", ~IsUp(r)
  PROVE  ~IsUp(r)' /\ pc'[r] = pc[r] /\ home'[r] = home[r] /\ sess'[r] = sess[r]
<1> USE RunsAssumption DEF TypeOK, HomesStarted, IsUp, procVars, runVars, Goto
<1>1. CASE UNCHANGED <<pc, home, sess, up>>
  BY <1>1
<1>2. ASSUME NEW p \in Procs, Crash(p) \/ \E n \in Pids : Boot(p, n)
      PROVE  ~IsUp(r)' /\ pc'[r] = pc[r] /\ home'[r] = home[r] /\ sess'[r] = sess[r]
  BY <1>2 DEF Crash, Boot
<1>3. ASSUME NEW q \in Runs, NEW p \in Procs, Begin(q, p)
      PROVE  ~IsUp(r)' /\ pc'[r] = pc[r] /\ home'[r] = home[r] /\ sess'[r] = sess[r]
  BY <1>3 DEF Begin
<1>4. ASSUME NEW q \in Runs, Progress(q)
      PROVE  ~IsUp(r)' /\ pc'[r] = pc[r] /\ home'[r] = home[r] /\ sess'[r] = sess[r]
  <2>1. IsUp(q) /\ UNCHANGED <<home, sess, up>> /\ \A o \in Runs : o # q => pc'[o] = pc[o]
    BY <1>4
       DEF Progress, Succeed, AcquirePmr, AcquireRecon, TakeOver, Refuse, AcquireRaises,
           PersistRecovered, PersistRefusal, StageFailed, WriteTerminal, CloseView, Release,
           ReleaseRaises, AdvanceLastSession, Finish, At
  <2> QED
    BY <2>1
<1> QED
  BY <1>1, <1>2, <1>3, <1>4 DEF Next, vars, NextSession, Stage

\* A step is of one run or of none.
LEMMA OthersStay ==
  ASSUME TypeOK, [Next]_vars, NEW r \in Runs
  PROVE  \/ Progress(r) \/ \E p \in Procs : Begin(r, p)
         \/ pc'[r] = pc[r] /\ sess'[r] = sess[r] /\ home'[r] = home[r]
<1> USE DEF TypeOK, runVars, Goto
<1>1. ASSUME NEW q \in Runs, NEW p \in Procs, q # r, Begin(q, p)
      PROVE  pc'[r] = pc[r] /\ sess'[r] = sess[r] /\ home'[r] = home[r]
  BY <1>1 DEF Begin
<1>2. ASSUME NEW q \in Runs, q # r, Progress(q)
      PROVE  pc'[r] = pc[r] /\ sess'[r] = sess[r] /\ home'[r] = home[r]
  BY <1>2
     DEF Progress, Succeed, AcquirePmr, AcquireRecon, TakeOver, Refuse, AcquireRaises,
         PersistRecovered, PersistRefusal, StageFailed, WriteTerminal, CloseView, Release,
         ReleaseRaises, AdvanceLastSession, Finish
<1> QED
  BY <1>1, <1>2 DEF Next, vars, Boot, Crash, NextSession, Stage

\* Only three steps write the log.
LEMMA LogMoves ==
  ASSUME [Next]_vars
  PROVE  \/ terminals' = terminals
         \/ \E r \in Runs : PersistRecovered(r) \/ PersistRefusal(r)
         \/ \E r \in Runs, s \in Statuses : WriteTerminal(r, s)
BY DEF Next, Progress, Succeed, vars, Boot, Crash, NextSession, Begin, Stage, AcquirePmr,
       AcquireRecon, Refuse, AcquireRaises, StageFailed, CloseView, Release,
       ReleaseRaises, AdvanceLastSession, Finish, rowVars

\* A write adds one status to one run.
LEMMA Recorded ==
  ASSUME NEW o, NEW t, Record(o, t)
  PROVE  /\ terminals' \subseteq terminals \cup {<<o, t>>}
         /\ \A r \in Runs : r # o => HasTerminal(r)' = HasTerminal(r)
<1>1. \A r, s : r # o => (<<r, s>> \in terminals' <=> <<r, s>> \in terminals)
  BY DEF Record
<1> QED
  BY <1>1 DEF Record, HasTerminal

LEMMA OneStatusStep ==
  ASSUME LateFailure = FALSE, LeaseInv, EventInv, [Next]_vars
  PROVE  OneTerminalStatus'
<1> USE RunsAssumption DEF LeaseInv, TypeOK, EventInv
<1>1. ASSUME NEW o \in Runs, NEW t \in Statuses, Record(o, t), ~HasTerminal(o)
      PROVE  OneTerminalStatus'
  <2>1. \A s \in Statuses : <<o, s>> \notin terminals
    BY <1>1 DEF HasTerminal
  <2> QED
    BY <1>1, <2>1, Recorded DEF OneTerminalStatus
<1>2. CASE terminals' = terminals
  BY <1>2 DEF OneTerminalStatus
<1>3. ASSUME NEW r \in Runs, PersistRecovered(r) PROVE OneTerminalStatus'
  <2>1. replaced[r] \in Runs /\ ~HasTerminal(replaced[r])
    BY <1>3 DEF PersistRecovered, At, RecoveredIsUntold
  <2> QED
    BY <1>1, <1>3, <2>1 DEF PersistRecovered, Statuses
<1>4. ASSUME NEW r \in Runs, PersistRefusal(r) PROVE OneTerminalStatus'
  BY <1>1, <1>4 DEF PersistRefusal, At, UnendedIsUntold, Statuses
<1>5. ASSUME NEW r \in Runs, NEW s \in Statuses, WriteTerminal(r, s)
      PROVE  OneTerminalStatus'
  BY <1>1, <1>5 DEF WriteTerminal, At, UnendedIsUntold
<1> QED
  BY <1>2, <1>3, <1>4, <1>5, LogMoves

LEMMA UntoldStep ==
  ASSUME LateFailure = FALSE, LeaseInv, EventInv, [Next]_vars
  PROVE  UnendedIsUntold'
<1> USE RunsAssumption DEF LeaseInv, TypeOK, EventInv, HomesStarted, procVars, runVars, rowVars,
                           IsUp, At, Goto
<1> DEFINE Unended(r) == pc[r] = "idle" \/ (IsUp(r) /\ pc[r] \in {"begun", "refused",
                                             "recovering", "working", "failing"})
<1> SUFFICES ASSUME NEW q \in Runs, Unended(q)' PROVE ~HasTerminal(q)'
  BY DEF UnendedIsUntold
<1>1. ASSUME Unended(q), terminals' = terminals PROVE ~HasTerminal(q)'
  BY <1>1 DEF UnendedIsUntold, HasTerminal
<1>2. ASSUME NEW p \in Procs, Crash(p) \/ \E n \in Pids : Boot(p, n) PROVE ~HasTerminal(q)'
  <2>1. Unended(q)
    BY <1>2 DEF Crash, Boot
  <2> QED
    BY <1>1, <1>2, <2>1 DEF Crash, Boot
<1>3. CASE NextSession \/ UNCHANGED vars \/ \E r \in Runs : Stage(r)
  BY <1>1, <1>3 DEF NextSession, Stage, vars
<1>4. ASSUME NEW r \in Runs, NEW p \in Procs, Begin(r, p) PROVE ~HasTerminal(q)'
  BY <1>1, <1>4 DEF Begin
<1>5. ASSUME NEW r \in Runs, \/ AcquirePmr(r) \/ AcquireRecon(r) \/ Refuse(r)
                             \/ AcquireRaises(r) \/ StageFailed(r)
      PROVE  ~HasTerminal(q)'
  BY <1>1, <1>5 DEF AcquirePmr, AcquireRecon, TakeOver, Refuse, AcquireRaises, StageFailed
<1>6. ASSUME NEW r \in Runs, PersistRecovered(r) PROVE ~HasTerminal(q)'
  <2>1. ~IsUp(replaced[r]) /\ pc[replaced[r]] # "idle" /\ replaced[r] \in Runs
    BY <1>6 DEF PersistRecovered, RecoveredIsUntold
  <2>2. Unended(q) /\ Record(replaced[r], "failed")
    BY <1>6 DEF PersistRecovered
  <2>3. q # replaced[r]
    BY <2>1, <2>2
  <2> QED
    BY <2>2, <2>3, Recorded DEF UnendedIsUntold
<1>7. ASSUME NEW r \in Runs, PersistRefusal(r) PROVE ~HasTerminal(q)'
  <2>1. q # r /\ Unended(q) /\ Record(r, "skipped")
    BY <1>7 DEF PersistRefusal
  <2> QED
    BY <2>1, Recorded DEF UnendedIsUntold
<1>8. ASSUME NEW r \in Runs, NEW s \in Statuses, WriteTerminal(r, s) PROVE ~HasTerminal(q)'
  <2>1. q # r /\ Unended(q) /\ Record(r, s)
    BY <1>8 DEF WriteTerminal
  <2> QED
    BY <2>1, Recorded DEF UnendedIsUntold
<1>9. ASSUME NEW r \in Runs, \/ CloseView(r) \/ Release(r) \/ ReleaseRaises(r)
                             \/ AdvanceLastSession(r) \/ Finish(r)
      PROVE  ~HasTerminal(q)'
  BY <1>1, <1>9 DEF CloseView, Release, ReleaseRaises, AdvanceLastSession, Finish,
                    AfterTerminal
<1> QED
  BY <1>2, <1>3, <1>4, <1>5, <1>6, <1>7, <1>8, <1>9 DEF Next, Progress, Succeed

LEMMA RecoveredStep ==
  ASSUME LateFailure = FALSE, LeaseInv, EventInv, [Next]_vars
  PROVE  RecoveredIsUntold'
<1> USE RunsAssumption DEF LeaseInv, TypeOK, EventInv
<1> DEFINE Gone(o) == ~IsUp(o) /\ pc[o] # "idle" /\ ~HasTerminal(o)
<1> SUFFICES ASSUME NEW q \in Runs, At(q, "recovering")'
             PROVE  \E o \in Runs : replaced'[q] = o /\ Gone(o)'
  BY DEF RecoveredIsUntold
<1>1. ASSUME NEW o \in Runs, Gone(o), terminals' = terminals PROVE Gone(o)'
  BY <1>1, DeadStays DEF HasTerminal
<1>2. CASE AcquirePmr(q) \/ AcquireRecon(q)
  <2>1. PICK owner \in Runs \cup {None} :
          /\ \/ owner = active \/ (active = None /\ owner = recon)
          /\ replaced' = [replaced EXCEPT ![q] = IF owner # None /\ ~HasTerminal(owner)
                                                 THEN owner ELSE None]
          /\ pc' = [pc EXCEPT ![q] = IF owner # None /\ ~HasTerminal(owner)
                                     THEN "recovering" ELSE "working"]
          /\ terminals' = terminals
    BY <1>2 DEF AcquirePmr, AcquireRecon, TakeOver, Goto
  <2>2. owner # None /\ ~HasTerminal(owner) /\ replaced'[q] = owner
    BY <2>1 DEF At
  <2>3. At(q, "begun") /\ MayRun(q)
    BY <1>2 DEF AcquirePmr, AcquireRecon, MayRun
  <2>4. ~IsUp(owner)
    <3>1. CASE owner = active
      BY <2>2, <2>3, <3>1, GrantedAlone
    <3>2. CASE owner = recon
      <4>1. ~OwnerIsLive(recon, home[q]) /\ IsUp(q)
        BY <2>3 DEF MayRun, PmrMayRun, ReconMayRun, At
      <4> QED
        BY <2>2, <3>2, <4>1, LiveRunsAreSeen
    <3> QED
      BY <2>1, <3>1, <3>2
  <2>5. pc[owner] # "idle"
    BY <2>1, <2>2 DEF HomesStarted, ReconHasBegun
  <2>6. Gone(owner)'
    BY <1>1, <2>1, <2>2, <2>4, <2>5
  <2> QED
    BY <2>2, <2>6
<1>3. CASE ~AcquirePmr(q) /\ ~AcquireRecon(q)
  <2>1. /\ At(q, "recovering") /\ replaced'[q] = replaced[q]
        /\ \/ terminals' = terminals
           \/ \E r \in Runs : r # q /\ Record(r, "skipped") /\ At(r, "refused")
           \/ \E r \in Runs, s \in Statuses : WriteTerminal(r, s)
           \/ \E r \in Runs : r # q /\ PersistRecovered(r)
    <3> USE DEF At, IsUp, procVars, runVars, rowVars, Goto, HomesStarted
    <3>1. CASE NextSession \/ UNCHANGED vars \/ \E r \in Runs : Stage(r)
      BY <3>1 DEF NextSession, Stage, vars
    <3>2. ASSUME NEW p \in Procs, Crash(p) \/ \E n \in Pids : Boot(p, n)
          PROVE  At(q, "recovering") /\ replaced'[q] = replaced[q] /\ terminals' = terminals
      BY <3>2 DEF Crash, Boot
    <3>3. ASSUME NEW r \in Runs, NEW p \in Procs, Begin(r, p)
          PROVE  At(q, "recovering") /\ replaced'[q] = replaced[q] /\ terminals' = terminals
      BY <3>3 DEF Begin
    <3>4. ASSUME NEW r \in Runs, \/ Refuse(r)
                                 \/ AcquireRaises(r) \/ StageFailed(r)
                                 \/ CloseView(r) \/ Release(r) \/ ReleaseRaises(r)
                                 \/ AdvanceLastSession(r) \/ Finish(r)
          PROVE  At(q, "recovering") /\ replaced'[q] = replaced[q] /\ terminals' = terminals
      BY <3>4 DEF Refuse, AcquireRaises, StageFailed, AfterTerminal,
                  CloseView, Release, ReleaseRaises, AdvanceLastSession, Finish
    <3>5. ASSUME NEW r \in Runs, AcquirePmr(r) \/ AcquireRecon(r)
          PROVE  At(q, "recovering") /\ replaced'[q] = replaced[q] /\ terminals' = terminals
      <4>1. r # q
        BY <1>3, <3>5
      <4> QED
        BY <3>5, <4>1 DEF AcquirePmr, AcquireRecon, TakeOver
    <3>6. ASSUME NEW r \in Runs, PersistRecovered(r)
          PROVE  At(q, "recovering") /\ replaced'[q] = replaced[q] /\ r # q
      BY <3>6 DEF PersistRecovered
    <3>7. ASSUME NEW r \in Runs, PersistRefusal(r)
          PROVE  /\ At(q, "recovering") /\ replaced'[q] = replaced[q] /\ r # q
                 /\ Record(r, "skipped") /\ At(r, "refused")
      BY <3>7 DEF PersistRefusal
    <3>8. ASSUME NEW r \in Runs, NEW s \in Statuses, WriteTerminal(r, s)
          PROVE  At(q, "recovering") /\ replaced'[q] = replaced[q]
      BY <3>8 DEF WriteTerminal
    <3> QED
      BY <3>1, <3>2, <3>3, <3>4, <3>5, <3>6, <3>7, <3>8 DEF Next, Progress, Succeed
  <2>2. PICK o \in Runs : o = replaced[q] /\ Gone(o)
    BY <2>1 DEF At, RecoveredIsUntold
  <2>3. ~IsUp(o)' /\ pc'[o] # "idle"
    BY <2>2, DeadStays
  <2>4. ~HasTerminal(o)'
    <3>1. CASE terminals' = terminals
      BY <2>2, <3>1 DEF HasTerminal
    <3>2. ASSUME NEW r \in Runs, NEW s, Record(r, s), IsUp(r) PROVE ~HasTerminal(o)'
      BY <2>2, <3>2, Recorded
    <3>3. ASSUME NEW r \in Runs, r # q, PersistRecovered(r) PROVE FALSE
      BY <2>1, <3>3, MutexFromInv DEF MutualExclusion, Busy, PersistRecovered, At
    <3> QED
      BY <2>1, <3>1, <3>2, <3>3 DEF WriteTerminal, At
  <2> QED
    BY <2>1, <2>2, <2>3, <2>4
<1> QED
  BY <1>2, <1>3

\* A run begins once: it keeps its session from then on.
LEMMA BegunStays ==
  ASSUME TypeOK, [Next]_vars, NEW r \in Runs, pc[r] # "idle"
  PROVE  pc'[r] # "idle" /\ sess'[r] = sess[r]
<1> USE RunsAssumption DEF TypeOK, procVars, runVars, Goto
<1>1. CASE UNCHANGED <<pc, sess>>
  BY <1>1
<1>2. ASSUME NEW q \in Runs, NEW p \in Procs, Begin(q, p)
      PROVE  pc'[r] # "idle" /\ sess'[r] = sess[r]
  BY <1>2 DEF Begin
<1>3. ASSUME NEW q \in Runs, Progress(q)
      PROVE  pc'[r] # "idle" /\ sess'[r] = sess[r]
  <2>1. PICK place \in PCs \ {"idle"} : pc' = [pc EXCEPT ![q] = place] /\ sess' = sess
    BY <1>3
       DEF Progress, Succeed, AcquirePmr, AcquireRecon, TakeOver, Refuse, AcquireRaises,
           PersistRecovered, PersistRefusal, StageFailed, WriteTerminal, CloseView, Release,
           ReleaseRaises, AdvanceLastSession, Finish, AfterTerminal, PCs
  <2> QED
    BY <2>1
<1> QED
  BY <1>1, <1>2, <1>3 DEF Next, vars, Boot, Crash, NextSession, Stage

LEMMA EventInvHolds ==
  ASSUME LateFailure = FALSE
  PROVE  Spec => []EventInv
<1>1. Init => EventInv
  BY RunsAssumption
     DEF Init, EventInv, ReconHasBegun, UnendedIsUntold, RecoveredIsUntold,
         OneTerminalStatus, HasTerminal, At
<1>2. ASSUME LeaseInv, EventInv, [Next]_vars PROVE ReconHasBegun'
  <2> USE DEF LeaseInv, EventInv, TypeOK
  <2>1. CASE recon' = recon
    BY <1>2, <2>1, BegunStays DEF ReconHasBegun
  <2>2. ASSUME NEW r \in Runs, AcquireRecon(r) PROVE ReconHasBegun'
    <3>1. recon' = r /\ pc[r] # "idle"
      BY <2>2 DEF AcquireRecon, At
    <3> QED
      BY <1>2, <3>1, BegunStays DEF ReconHasBegun
  <2>3. ASSUME recon' # recon, recon' # None PROVE \E r \in Runs : AcquireRecon(r)
    BY <1>2, <2>3
       DEF Next, Progress, Succeed, vars, Boot, Crash, NextSession, Begin, Stage, AcquirePmr,
           Refuse, AcquireRaises, PersistRecovered, PersistRefusal, StageFailed,
           WriteTerminal, CloseView, Release, ReleaseRaises, AdvanceLastSession, Finish,
           rowVars
  <2> QED
    BY <2>1, <2>2, <2>3 DEF ReconHasBegun
<1>3. LeaseInv /\ EventInv /\ [Next]_vars => EventInv'
  BY <1>2, OneStatusStep, UntoldStep, RecoveredStep DEF EventInv
<1> QED
  BY <1>1, <1>3, LeaseInvHolds, PTL DEF Spec

\* agent_events tells one story of each run: no recovery contradicts what a
\* run or another recovery has told, though it writes after its transaction.
THEOREM OneTerminalStatusHolds ==
  ASSUME LateFailure = FALSE
  PROVE  Spec => []OneTerminalStatus
<1>1. EventInv => OneTerminalStatus
  BY DEF EventInv
<1> QED
  BY <1>1, EventInvHolds, PTL

-----------------------------------------------------------------------------
(* No lease is left behind when the store does not fail.                   *)

\* The two rows name runs that work.
RowsNameWorkers ==
  \A r \in Runs :
    pc[r] \in {"idle", "begun", "refused", "advancing", "after", "done"}
      => active # r /\ recon # r

LEMMA RowsNameWorkersStep ==
  ASSUME LateFailure = FALSE, StoreMayFail = FALSE, TypeOK, RowsNameWorkers, [Next]_vars
  PROVE  RowsNameWorkers'
<1> USE RunsAssumption DEF TypeOK, RowsNameWorkers, runVars, rowVars, Goto, At
<1>1. CASE UNCHANGED <<pc, active, recon>>
  BY <1>1
<1>2. ASSUME NEW r \in Runs, NEW p \in Procs, Begin(r, p) PROVE RowsNameWorkers'
  BY <1>2 DEF Begin
<1>3. ASSUME NEW r \in Runs, Stage(r) \/ StageFailed(r) PROVE RowsNameWorkers'
  BY <1>3 DEF Stage, StageFailed
<1>4. ASSUME NEW r \in Runs, AcquirePmr(r) PROVE RowsNameWorkers'
  BY <1>4 DEF AcquirePmr, TakeOver
<1>5. ASSUME NEW r \in Runs, AcquireRecon(r) PROVE RowsNameWorkers'
  BY <1>5 DEF AcquireRecon, TakeOver
<1>6. ASSUME NEW r \in Runs, Refuse(r) PROVE RowsNameWorkers'
  BY <1>6 DEF Refuse
<1>7. ASSUME NEW r \in Runs, PersistRecovered(r) PROVE RowsNameWorkers'
  BY <1>7 DEF PersistRecovered
<1>8. ASSUME NEW r \in Runs, PersistRefusal(r) PROVE RowsNameWorkers'
  BY <1>8 DEF PersistRefusal
<1>9. ASSUME NEW r \in Runs, NEW s \in Statuses, WriteTerminal(r, s) PROVE RowsNameWorkers'
  BY <1>9 DEF WriteTerminal
<1>10. ASSUME NEW r \in Runs, CloseView(r) PROVE RowsNameWorkers'
  BY <1>10 DEF CloseView
<1>11. ASSUME NEW r \in Runs, Release(r) PROVE RowsNameWorkers'
  BY <1>11 DEF Release
<1>12. ASSUME NEW r \in Runs, AdvanceLastSession(r) \/ Finish(r) PROVE RowsNameWorkers'
  BY <1>12 DEF AdvanceLastSession, Finish
<1> QED
  BY <1>1, <1>2, <1>3, <1>4, <1>5, <1>6, <1>7, <1>8, <1>9, <1>10, <1>11, <1>12
     DEF Next, Progress, Succeed, AcquireRaises, ReleaseRaises, vars, Boot, Crash,
         NextSession

\* A job that ended leaves neither row behind.
THEOREM NoLeakedLeaseHolds ==
  ASSUME LateFailure = FALSE, StoreMayFail = FALSE
  PROVE  Spec => []NoLeakedLease
<1>1. Init => RowsNameWorkers
  BY RunsAssumption DEF Init, RowsNameWorkers
<1>2. TypeOK /\ RowsNameWorkers /\ [Next]_vars => RowsNameWorkers'
  BY RowsNameWorkersStep
<1>3. RowsNameWorkers => NoLeakedLease
  BY DEF RowsNameWorkers, NoLeakedLease
<1> QED
  BY <1>1, <1>2, <1>3, TypeCorrect, PTL DEF Spec

-----------------------------------------------------------------------------
(* What the log tells of the sessions, when the store does not fail.       *)

\* Behind its terminal a run has told its outcome.
OutcomeIsTold ==
  \A r \in Runs :
    pc[r] \in {"closing", "releasing", "advancing", "after"}
      => <<r, outcome[r]>> \in terminals

\* Who is told completed has begun.
CompletedHasBegun ==
  \A r \in Runs : <<r, "completed">> \in terminals => pc[r] # "idle"

LogInv ==
  OutcomeIsTold /\ CompletedHasBegun /\ LastSessionCompleted /\ NoReconCloses
    /\ AdvancingIsCompleted

\* The log only grows, and by a completed review only at its end.
LEMMA LogGrows ==
  ASSUME TypeOK, StoreMayFail = FALSE, [Next]_vars
  PROVE  /\ terminals \subseteq terminals'
         /\ \A q \in Runs : <<q, "completed">> \in terminals' =>
              <<q, "completed">> \in terminals \/ WriteTerminal(q, "completed")
<1>1. CASE terminals' = terminals
  BY <1>1
<1>2. ASSUME NEW r \in Runs, PersistRecovered(r) \/ PersistRefusal(r)
      PROVE  \E o, s : s # "completed" /\ terminals' = terminals \cup {<<o, s>>}
  BY <1>2 DEF PersistRecovered, PersistRefusal, Record
<1>3. ASSUME NEW r \in Runs, NEW s \in Statuses, WriteTerminal(r, s)
      PROVE  terminals' = terminals \cup {<<r, s>>}
  BY <1>3 DEF WriteTerminal, Record
<1> QED
  BY <1>1, <1>2, <1>3, LogMoves

LEMMA OutcomeIsToldStep ==
  ASSUME TypeOK, StoreMayFail = FALSE, OutcomeIsTold, [Next]_vars
  PROVE  OutcomeIsTold'
<1> USE RunsAssumption DEF TypeOK, OutcomeIsTold, runVars, rowVars, Goto, At
<1>0. terminals \subseteq terminals'
  BY LogGrows
<1>1. CASE UNCHANGED <<pc, outcome>>
  BY <1>0, <1>1
<1>2. ASSUME NEW r \in Runs, \/ AcquirePmr(r) \/ AcquireRecon(r) \/ Refuse(r)
                             \/ AcquireRaises(r) \/ PersistRecovered(r)
                             \/ PersistRefusal(r) \/ StageFailed(r) \/ Finish(r)
                             \/ \E p \in Procs : Begin(r, p)
      PROVE  OutcomeIsTold'
  <2>1. PICK place \in PCs \ {"closing", "releasing", "advancing", "after"} :
          pc' = [pc EXCEPT ![r] = place] /\ UNCHANGED outcome
    BY <1>2
       DEF AcquirePmr, AcquireRecon, TakeOver, Refuse, AcquireRaises, Begin,
           PersistRecovered, PersistRefusal, StageFailed, Finish, PCs
  <2> QED
    BY <1>0, <2>1
<1>3. ASSUME NEW r \in Runs, NEW s \in Statuses, WriteTerminal(r, s) PROVE OutcomeIsTold'
  <2>1. <<r, s>> \in terminals' /\ outcome' = [outcome EXCEPT ![r] = s]
    BY <1>3 DEF WriteTerminal, Record
  <2>2. \A q \in Runs : q # r => pc'[q] = pc[q]
    BY <1>3 DEF WriteTerminal
  <2> QED
    BY <1>0, <2>1, <2>2
<1>4. ASSUME NEW r \in Runs, \/ CloseView(r) \/ Release(r) \/ AdvanceLastSession(r)
      PROVE  OutcomeIsTold'
  <2>1. /\ outcome' = outcome /\ <<r, outcome[r]>> \in terminals
        /\ \A q \in Runs : q # r => pc'[q] = pc[q]
    BY <1>4 DEF CloseView, Release, AdvanceLastSession
  <2> QED
    BY <1>0, <2>1
<1> QED
  BY <1>1, <1>2, <1>3, <1>4
     DEF Next, Progress, Succeed, ReleaseRaises, vars, Boot, Crash, NextSession, Stage

LEMMA LogInvHolds ==
  ASSUME StoreMayFail = FALSE
  PROVE  Spec => []LogInv
<1>1. Init => OutcomeIsTold /\ CompletedHasBegun /\ LastSessionCompleted
  BY DEF Init, OutcomeIsTold, CompletedHasBegun, LastSessionCompleted
<1>2. ASSUME TypeOK, LogInv, [Next]_vars PROVE CompletedHasBegun'
  <2> SUFFICES ASSUME NEW r \in Runs, <<r, "completed">> \in terminals'
               PROVE  pc'[r] # "idle"
    BY DEF CompletedHasBegun
  <2>1. pc[r] # "idle"
    BY <1>2, LogGrows DEF LogInv, CompletedHasBegun, WriteTerminal, At
  <2> QED
    BY <1>2, <2>1, BegunStays
<1>3. ASSUME TypeOK, LogInv, [Next]_vars PROVE LastSessionCompleted'
  <2> SUFFICES ASSUME last' > 0
               PROVE  \E r \in PmrRuns : sess'[r] = last' /\ <<r, "completed">> \in terminals'
    BY DEF LastSessionCompleted
  <2>1. PICK r \in PmrRuns : <<r, "completed">> \in terminals /\ sess[r] = last'
    <3>1. CASE last' = last
      BY <1>3, <3>1 DEF LogInv, LastSessionCompleted
    <3>2. ASSUME NEW r \in Runs, AdvanceLastSession(r), last' # last
          PROVE  r \in PmrRuns /\ <<r, "completed">> \in terminals /\ sess[r] = last'
      BY <1>3, <3>2
         DEF LogInv, AdvanceLastSession, AdvancingIsCompleted, OutcomeIsTold, At
    <3>3. last' = last \/ \E r \in Runs : AdvanceLastSession(r)
      BY <1>3
         DEF Next, Progress, Succeed, vars, Boot, Crash, NextSession, Begin, Stage,
             AcquirePmr, AcquireRecon, Refuse, AcquireRaises, PersistRecovered,
             PersistRefusal, StageFailed, WriteTerminal, CloseView, Release,
             ReleaseRaises, Finish, rowVars
    <3> QED
      BY <3>1, <3>2, <3>3
  <2>2. pc[r] # "idle" /\ r \in Runs
    BY <1>3, <2>1 DEF LogInv, CompletedHasBegun, Runs
  <2> QED
    BY <1>3, <2>1, <2>2, BegunStays, LogGrows
<1>4. TypeOK /\ LogInv /\ [Next]_vars
        => OutcomeIsTold' /\ CompletedHasBegun' /\ LastSessionCompleted'
  BY <1>2, <1>3, OutcomeIsToldStep DEF LogInv
<1> QED
  BY <1>1, <1>4, TypeCorrect, PlacesHold, PTL DEF Spec, LogInv

\* The last session advances behind the completed terminal of a review of it,
\* also when what follows the terminal raises.
THEOREM LastSessionCompletedHolds ==
  ASSUME StoreMayFail = FALSE
  PROVE  Spec => []LastSessionCompleted
<1>1. LogInv => LastSessionCompleted
  BY DEF LogInv
<1> QED
  BY <1>1, LogInvHolds, PTL

-----------------------------------------------------------------------------
(* A session is reviewed to completion once, but for a crash in between.   *)

\* The session of a completed review is processed, unless the review has
\* still to close its row, or died before it could.
CompletedIsProcessed ==
  \A r \in PmrRuns :
    <<r, "completed">> \in terminals => Processed(sess[r]) \/ pc[r] = "closing"

\* A working review finds its session completed only by one that died there.
WorksOnUnreviewed ==
  \A q, r \in PmrRuns :
    /\ q # r /\ sess[q] = sess[r]
    /\ <<r, "completed">> \in terminals
    /\ IsUp(q) /\ pc[q] \in {"recovering", "working"}
    => ~IsUp(r) /\ pc[r] = "closing"

TwiceInv ==
  /\ RowsInv /\ EventInv /\ LogInv
  /\ CompletedIsProcessed /\ WorksOnUnreviewed /\ CompletedTwiceOnlyAfterCrash

LEMMA CompletedIsProcessedStep ==
  ASSUME StoreMayFail = FALSE, TwiceInv, [Next]_vars
  PROVE  CompletedIsProcessed'
<1> SUFFICES ASSUME NEW r \in PmrRuns, <<r, "completed">> \in terminals'
             PROVE  Processed(sess[r])' \/ pc'[r] = "closing"
  BY DEF CompletedIsProcessed
<1> USE DEF TwiceInv
<1>0. TypeOK /\ r \in Runs
  BY DEF RowsInv, LeaseInv, Runs
<1>1. CASE WriteTerminal(r, "completed")
  BY <1>0, <1>1 DEF WriteTerminal, Goto, TypeOK
<1>2. CASE <<r, "completed">> \in terminals
  <2>1. pc[r] # "idle" /\ sess[r] \in Sessions
    BY <1>0, <1>2 DEF LogInv, CompletedHasBegun, TypeOK
  <2>2. sess'[r] = sess[r]
    BY <1>0, <2>1, BegunStays
  <2>3. CASE Processed(sess[r])
    <3>1. \A s \in Sessions : Processed(s) => Processed(s)'
      BY ProcessedKept
    <3> QED
      BY <2>1, <2>2, <2>3, <3>1 DEF Processed
  <2>4. CASE CloseView(r)
    <3>1. view[sess[r]] = [run |-> r, status |-> "active"]
      BY <2>4 DEF CloseView, At, RowsInv, ViewIsHeld
    <3>2. view[sess[r]].run = r
      BY <3>1
    <3>3. outcome[r] = "completed"
      BY <1>0, <1>2, <2>4
         DEF CloseView, At, LogInv, OutcomeIsTold, EventInv, OneTerminalStatus, TypeOK,
             Statuses
    <3>4. view' = [view EXCEPT ![sess[r]] = [run |-> r, status |-> "completed"]]
      BY <2>4, <3>2, <3>3 DEF CloseView
    <3>5. view'[sess[r]] = [run |-> r, status |-> "completed"]
      BY <1>0, <2>1, <3>4 DEF TypeOK
    <3> QED
      BY <2>2, <3>5 DEF Processed
  <2>5. CASE pc[r] = "closing" /\ ~CloseView(r)
    <3>1. ~Progress(r) /\ \A p \in Procs : ~Begin(r, p)
      BY <2>5
         DEF Progress, Succeed, AcquirePmr, AcquireRecon, Begin, Refuse, AcquireRaises,
             PersistRecovered, PersistRefusal, StageFailed, WriteTerminal, Release,
             ReleaseRaises, AdvanceLastSession, Finish, At
    <3> QED
      BY <1>0, <2>5, <3>1, OthersStay
  <2> QED
    BY <1>2, <2>3, <2>4, <2>5 DEF CompletedIsProcessed
<1> QED
  BY <1>0, <1>1, <1>2, LogGrows

LEMMA WorksOnUnreviewedStep ==
  ASSUME StoreMayFail = FALSE, TwiceInv, [Next]_vars
  PROVE  WorksOnUnreviewed'
<1> SUFFICES ASSUME NEW q \in PmrRuns, NEW r \in PmrRuns, q # r, sess'[q] = sess'[r],
                    <<r, "completed">> \in terminals',
                    IsUp(q)', pc'[q] \in {"recovering", "working"}
             PROVE  ~IsUp(r)' /\ pc'[r] = "closing"
  BY DEF WorksOnUnreviewed
<1> USE DEF TwiceInv, RowsInv, LeaseInv
<1>0. q \in Runs /\ r \in Runs
  BY DEF Runs
<1>1. \/ AcquirePmr(q)
      \/ IsUp(q) /\ pc[q] \in {"recovering", "working"} /\ sess'[q] = sess[q]
  <2>1. CASE Progress(q)
    BY <1>0, <2>1, RunsAssumption
       DEF Progress, Succeed, AcquireRecon, Refuse, AcquireRaises, PersistRecovered,
           PersistRefusal, StageFailed, WriteTerminal, CloseView, Release, ReleaseRaises,
           AdvanceLastSession, Finish, AfterTerminal, Goto, At, TypeOK
  <2>2. ASSUME NEW p \in Procs, Begin(q, p) PROVE FALSE
    BY <1>0, <2>2 DEF Begin, Goto, TypeOK
  <2>3. CASE pc'[q] = pc[q] /\ sess'[q] = sess[q] /\ home'[q] = home[q]
    <3>1. pc[q] # "idle"
      BY <2>3
    <3> QED
      BY <1>0, <2>3, <3>1, DeadStays
  <2> QED
    BY <1>0, <2>1, <2>2, <2>3, OthersStay
<1>2. <<r, "completed">> \in terminals
  <2> SUFFICES ASSUME WriteTerminal(r, "completed") PROVE FALSE
    BY <1>0, LogGrows
  <2>1. Busy(r)
    BY DEF WriteTerminal, At, Busy
  <2>2. ~AcquirePmr(q)
    BY <1>0, <2>1, GrantedAlone DEF AcquirePmr, MayRun
  <2>3. Busy(q)
    BY <1>1, <2>2 DEF Busy
  <2> QED
    BY <1>0, <2>1, <2>3, MutexFromInv DEF MutualExclusion
<1>3. pc[r] # "idle" /\ sess'[r] = sess[r]
  BY <1>0, <1>2, BegunStays DEF LogInv, CompletedHasBegun
<1>4. ~IsUp(r) /\ pc[r] = "closing"
  <2>1. CASE AcquirePmr(q)
    <3>1. sess'[q] = sess[q] /\ ~Processed(sess[q]) /\ \A o \in Runs : ~Busy(o)
      BY <1>0, <2>1, GrantedAlone DEF AcquirePmr, PmrMayRun, MayRun
    <3>2. pc[r] = "closing"
      BY <1>2, <1>3, <3>1 DEF CompletedIsProcessed
    <3> QED
      BY <1>0, <3>1, <3>2 DEF Busy
  <2>2. CASE IsUp(q) /\ pc[q] \in {"recovering", "working"} /\ sess'[q] = sess[q]
    BY <1>2, <1>3, <2>2 DEF WorksOnUnreviewed
  <2> QED
    BY <1>1, <2>1, <2>2
<1> QED
  BY <1>0, <1>4, DeadStays

LEMMA TwiceStep ==
  ASSUME StoreMayFail = FALSE, TwiceInv, [Next]_vars
  PROVE  CompletedTwiceOnlyAfterCrash'
<1> USE DEF TwiceInv, RowsInv, LeaseInv
<1>0. PmrRuns \subseteq Runs
  BY DEF Runs
<1>1. ASSUME NEW d \in PmrRuns, ~IsUp(d), pc[d] = "closing"
      PROVE  ~IsUp(d)' /\ pc'[d] = "closing"
  BY <1>0, <1>1, DeadStays
<1>2. ASSUME NEW q \in PmrRuns, <<q, "completed">> \in terminals'
      PROVE  /\ sess'[q] = sess[q]
             /\ \/ <<q, "completed">> \in terminals
                \/ /\ WriteTerminal(q, "completed")
                   /\ IsUp(q) /\ pc[q] = "working"
  <2>1. CASE <<q, "completed">> \in terminals
    BY <1>0, <2>1, BegunStays DEF LogInv, CompletedHasBegun
  <2>2. CASE WriteTerminal(q, "completed")
    BY <2>2 DEF WriteTerminal, At
  <2> QED
    BY <1>0, <1>2, <2>1, <2>2, LogGrows
<1> SUFFICES ASSUME NEW q \in PmrRuns, NEW r \in PmrRuns, q # r, sess'[q] = sess'[r],
                    <<q, "completed">> \in terminals', <<r, "completed">> \in terminals'
             PROVE  \E d \in {q, r} : ~IsUp(d) /\ pc[d] = "closing"
  <2>1. ASSUME NEW q \in PmrRuns, NEW r \in PmrRuns,
               \E d \in {q, r} : ~IsUp(d) /\ pc[d] = "closing"
        PROVE  \E d \in {q, r} : ~IsUp(d)' /\ pc'[d] = "closing"
    BY <1>1, <2>1
  <2> QED
    BY <2>1 DEF CompletedTwiceOnlyAfterCrash
<1>3. CASE <<q, "completed">> \in terminals /\ <<r, "completed">> \in terminals
  BY <1>2, <1>3 DEF CompletedTwiceOnlyAfterCrash
<1>4. ASSUME NEW a \in PmrRuns, NEW b \in PmrRuns, {a, b} = {q, r}, a # b,
             WriteTerminal(a, "completed"), IsUp(a), pc[a] = "working",
             <<b, "completed">> \in terminals
      PROVE  \E d \in {q, r} : ~IsUp(d) /\ pc[d] = "closing"
  <2>1. sess[a] = sess[b]
    BY <1>2, <1>4
  <2> QED
    BY <1>4, <2>1 DEF WorksOnUnreviewed
<1>5. ~(WriteTerminal(q, "completed") /\ WriteTerminal(r, "completed"))
  BY <1>0, RunsAssumption DEF WriteTerminal, Goto, At, TypeOK
<1> QED
  BY <1>2, <1>3, <1>4, <1>5

\* A session is reviewed to completion twice only when the first review died
\* between its completed event and the session row that blocks a second one.
THEOREM CompletedTwiceOnlyAfterCrashHolds ==
  ASSUME LateFailure = FALSE, StoreMayFail = FALSE
  PROVE  Spec => []CompletedTwiceOnlyAfterCrash
<1>1. Init => CompletedIsProcessed /\ WorksOnUnreviewed /\ CompletedTwiceOnlyAfterCrash
  BY DEF Init, CompletedIsProcessed, WorksOnUnreviewed, CompletedTwiceOnlyAfterCrash
<1>2. TwiceInv /\ [Next]_vars
        => CompletedIsProcessed' /\ WorksOnUnreviewed' /\ CompletedTwiceOnlyAfterCrash'
  BY CompletedIsProcessedStep, WorksOnUnreviewedStep, TwiceStep
<1>3. Spec => []TwiceInv
  BY <1>1, <1>2, RowsInvHolds, EventInvHolds, LogInvHolds, PTL DEF Spec, TwiceInv
<1>4. TwiceInv => CompletedTwiceOnlyAfterCrash
  BY DEF TwiceInv
<1> QED
  BY <1>3, <1>4, PTL

=============================================================================
