-------------------------- MODULE PostmarketLease --------------------------
(***************************************************************************)
(* The coordination of the post-market review (PMR) and of the broker      *)
(* reconciliation through the rows of runtime_state and the append-only    *)
(* agent_events (tools/postmarket_coordination.py), driven the way the two *)
(* jobs of scheduler.py drive it.                                          *)
(*                                                                         *)
(* A run is one execution of a job: it has a fresh run_id, the process it  *)
(* started in and the session date it computed.  A lease row holds         *)
(* (pid, process token, run_id, session, status "active"); everything but  *)
(* the run_id is a function of the run, so a row is modelled by its run.   *)
(* A process is one incarnation of an interpreter: it has its own process  *)
(* token, never comes back after it died, and its pid may be reused.       *)
(* Each SQLite transaction is one action; a crash can fall between any two.*)
(***************************************************************************)
EXTENDS Naturals, FiniteSets

CONSTANTS
  PmrRuns,       \* executions of post_market_review_job
  ReconRuns,     \* executions of broker_reconciliation_job
  Procs,         \* process incarnations, in one pid namespace
  Pids,          \* operating system pids, reusable
  None,          \* an absent row, or a process or pid not drawn yet
  MaxSession,    \* bound: number of sessions the clock reaches
  StoreMayFail,  \* a write may raise (database locked for 30 s, disk full)
  LateFailure    \* the bookkeeping after the completed terminal may raise

Runs == PmrRuns \cup ReconRuns

Sessions == 1 .. MaxSession

ASSUME RunsAssumption ==
  /\ PmrRuns \cap ReconRuns = {}
  /\ None \notin Runs \cup Procs \cup Pids
  /\ MaxSession \in Nat \ {0}
  /\ StoreMayFail \in BOOLEAN
  /\ LateFailure \in BOOLEAN

VARIABLES
  up,         \* the processes that are running
  started,    \* the processes that were ever started
  pid,        \* the pid of each started process
  today,      \* the session date of the market calendar
  home,       \* the process a run belongs to
  sess,       \* the session date a run computed
  pc,         \* what a run does next
  outcome,    \* the terminal status a run is writing
  replaced,   \* the stale owner whose failed terminal a run still has to write
  active,     \* row post_market_coordination:active
  recon,      \* row post_market_coordination:reconciliation
  view,       \* rows post_market_coordination:session:<date>
  last,       \* row post_market_review_last_session, 0 when absent
  terminals   \* terminal events in agent_events: <<run, status>>

procVars == <<up, started, pid, today>>
runVars  == <<home, sess, pc, outcome, replaced>>
rowVars  == <<active, recon, view, last, terminals>>
vars     == <<up, started, pid, today, home, sess, pc, outcome, replaced,
              active, recon, view, last, terminals>>

Statuses == {"completed", "failed", "skipped"}

PCs == {"idle", "begun", "refused", "recovering", "working", "failing",
        "closing", "releasing", "advancing", "after", "done"}

NoView == [run |-> None, status |-> "none"]

TypeOK ==
  /\ up \subseteq started
  /\ started \subseteq Procs
  /\ pid \in [Procs -> Pids \cup {None}]
  /\ today \in Sessions
  /\ home \in [Runs -> Procs \cup {None}]
  /\ sess \in [Runs -> Sessions]
  /\ pc \in [Runs -> PCs]
  /\ outcome \in [Runs -> Statuses]
  /\ replaced \in [Runs -> Runs \cup {None}]
  /\ \A r \in Runs : pc[r] = "recovering" => replaced[r] # None
  /\ active \in Runs \cup {None}
  /\ recon \in Runs \cup {None}
  /\ view \in [Sessions -> [run : Runs \cup {None},
                            status : Statuses \cup {"active", "none"}]]
  /\ last \in 0 .. MaxSession
  /\ terminals \subseteq (Runs \X Statuses)

-----------------------------------------------------------------------------
(* Helpers of the coordinator.                                             *)

PidAlive(n) == \E p \in up : pid[p] = n

\* Mutant: every owner of another process is given up for dead.
OwnerIsLiveHere(o, p) == o # None /\ home[o] = p /\ p \in up

\* Is the owner of row o live in the eyes of process p?  A pid that belongs to
\* p itself under another token is a reused pid; a pid reused by any other
\* process passes for the old owner.
OwnerIsLive(o, p) ==
  /\ o # None
  /\ PidAlive(pid[home[o]])
  /\ ~(pid[home[o]] = pid[p] /\ home[o] # p)

\* Mutant: only a completed run counts as ended.
HasCompleted(r) == <<r, "completed">> \in terminals

HasTerminal(r) == \E s \in Statuses : <<r, s>> \in terminals

\* Mutant: the session row is not consulted.
BehindLatest(s) == last >= s

\* The guard that ends acquire() before it looks at the leases.
Processed(s) == last >= s \/ view[s].status = "completed"

\* Mutant: the row goes whatever its status.
WithoutAnyView(o) ==
  [s \in Sessions |-> IF o # None /\ s = sess[o] /\ view[s].run = o
                      THEN NoView ELSE view[s]]

\* The session rows without the active view of the recovered owner o.
WithoutView(o) ==
  [s \in Sessions |-> IF /\ o # None
                         /\ s = sess[o]
                         /\ view[s] = [run |-> o, status |-> "active"]
                      THEN NoView ELSE view[s]]

IsUp(r) == home[r] \in up

At(r, place) == pc[r] = place /\ IsUp(r)

Goto(r, place) == pc' = [pc EXCEPT ![r] = place]

\* Mutant: a review that failed or was skipped advances it too.
AfterAnyTerminal(r) == IF r \in PmrRuns THEN "advancing" ELSE "done"

\* terminal() and finish_reconciliation() return to the job, which advances
\* the last session only after a completed review.
AfterTerminal(r) ==
  IF r \in PmrRuns /\ outcome[r] = "completed" THEN "advancing" ELSE "done"

-----------------------------------------------------------------------------
(* Processes and the calendar.                                             *)

Boot(p, n) ==
  /\ p \notin started
  /\ ~PidAlive(n)
  /\ started' = started \cup {p}
  /\ up' = up \cup {p}
  /\ pid' = [pid EXCEPT ![p] = n]
  /\ UNCHANGED <<today, runVars, rowVars>>

Crash(p) ==
  /\ p \in up
  /\ up' = up \ {p}
  /\ UNCHANGED <<started, pid, today, runVars, rowVars>>

NextSession ==
  /\ today < MaxSession
  /\ today' = today + 1
  /\ UNCHANGED <<up, started, pid, runVars, rowVars>>

-----------------------------------------------------------------------------
(* acquire() and acquire_reconciliation().                                 *)

\* The job draws its run_id and computes the session date.
Begin(r, p) ==
  /\ pc[r] = "idle"
  /\ p \in up
  /\ home' = [home EXCEPT ![r] = p]
  /\ sess' = [sess EXCEPT ![r] = today]
  /\ Goto(r, "begun")
  /\ UNCHANGED <<procVars, outcome, replaced, rowVars>>

\* Mutant: the review ignores the reconciliation.
PmrMayRunBesideRecon(r) == ~Processed(sess[r]) /\ ~OwnerIsLive(active, home[r])

\* Mutant: the review compares the last session only.
PmrMayRunAgain(r) ==
  /\ ~BehindLatest(sess[r])
  /\ ~OwnerIsLive(active, home[r])
  /\ ~OwnerIsLive(recon, home[r])

PmrMayRun(r) ==
  /\ ~Processed(sess[r])
  /\ ~OwnerIsLive(active, home[r])
  /\ ~OwnerIsLive(recon, home[r])

\* Mutant: the reconciliation does not look at the review.
ReconMayRunBesidePmr(r) == ~OwnerIsLive(recon, home[r])

\* A dead review without a terminal event refuses the reconciliation.
ReconMayRun(r) ==
  /\ ~OwnerIsLive(recon, home[r])
  /\ active # None => ~OwnerIsLive(active, home[r]) /\ HasTerminal(active)

MayRun(r) == IF r \in PmrRuns THEN PmrMayRun(r) ELSE ReconMayRun(r)

\* Mutant: every owner gets a failed terminal.
TakeOverAsStale(r, owner) ==
  /\ replaced' = [replaced EXCEPT ![r] = owner]
  /\ Goto(r, IF owner # None THEN "recovering" ELSE "working")

\* A stale owner still needs its failed terminal; one with a terminal does not.
TakeOver(r, owner) ==
  LET stale == owner # None /\ ~HasTerminal(owner)
  IN  /\ replaced' = [replaced EXCEPT ![r] = IF stale THEN owner ELSE None]
      /\ Goto(r, IF stale THEN "recovering" ELSE "working")

AcquirePmr(r) ==
  /\ r \in PmrRuns
  /\ At(r, "begun")
  /\ PmrMayRun(r)
  /\ TakeOver(r, active)
  /\ active' = r
  /\ view' = [WithoutView(active) EXCEPT
                ![sess[r]] = [run |-> r, status |-> "active"]]
  /\ UNCHANGED <<procVars, home, sess, outcome, recon, last, terminals>>

\* The owner that is replaced is the review's if there is one, else the
\* reconciliation's; in the first case a dead reconciliation is overwritten.
AcquireRecon(r) ==
  LET owner == IF active # None THEN active ELSE recon
  IN  /\ r \in ReconRuns
      /\ At(r, "begun")
      /\ ReconMayRun(r)
      /\ TakeOver(r, owner)
      /\ active' = None
      /\ recon' = r
      /\ view' = WithoutView(owner)
      /\ UNCHANGED <<procVars, home, sess, outcome, last, terminals>>

\* Mutant: the job waits unless a live owner is in its way.
RefuseLiveOnly(r) ==
  /\ At(r, "begun")
  /\ ~MayRun(r)
  /\ OwnerIsLive(active, home[r]) \/ OwnerIsLive(recon, home[r])
  /\ Goto(r, "refused")
  /\ UNCHANGED <<procVars, home, sess, outcome, replaced, rowVars>>

Refuse(r) ==
  /\ At(r, "begun")
  /\ ~MayRun(r)
  /\ Goto(r, "refused")
  /\ UNCHANGED <<procVars, home, sess, outcome, replaced, rowVars>>

\* Mutant: acquire is fail-open too.
AcquireFailsOpen(r) ==
  /\ StoreMayFail
  /\ At(r, "begun")
  /\ Goto(r, "working")
  /\ UNCHANGED <<procVars, home, sess, outcome, replaced, rowVars>>

\* The transaction of acquire raised: the job fails and writes no event.
AcquireRaises(r) ==
  /\ StoreMayFail
  /\ At(r, "begun")
  /\ Goto(r, "done")
  /\ UNCHANGED <<procVars, home, sess, outcome, replaced, rowVars>>

\* Events are fail-open: a write that raises is swallowed.
Record(r, s) ==
  \/ terminals' = terminals \cup {<<r, s>>}
  \/ StoreMayFail /\ terminals' = terminals

PersistRecovered(r) ==
  /\ At(r, "recovering")
  /\ Record(replaced[r], "failed")
  /\ replaced' = [replaced EXCEPT ![r] = None]
  /\ Goto(r, "working")
  /\ UNCHANGED <<procVars, home, sess, outcome, active, recon, view, last>>

PersistRefusal(r) ==
  /\ At(r, "refused")
  /\ Record(r, "skipped")
  /\ Goto(r, "done")
  /\ UNCHANGED <<procVars, home, sess, outcome, replaced, active, recon, view, last>>

-----------------------------------------------------------------------------
(* The work of a job, stage by stage, and its end.                         *)

\* stage(): the row is overwritten whoever it belongs to.
Stage(r) ==
  /\ At(r, "working")
  /\ active' = r
  /\ UNCHANGED <<procVars, runVars, recon, view, last, terminals>>

\* The except branch of the job: stage(..., "failed") before the terminal.
\* It also catches what raises after the completed terminal.
StageFailed(r) ==
  /\ At(r, "working") \/ (LateFailure /\ At(r, "after"))
  /\ active' = r \/ (StoreMayFail /\ active' = active)
  /\ Goto(r, "failing")
  /\ UNCHANGED <<procVars, home, sess, outcome, replaced, recon, view, last, terminals>>

\* Mutant: a skipped review returns before the release.
WriteTerminalSkipReturns(r, s) ==
  /\ \/ At(r, "failing") /\ s = "failed"
     \/ At(r, "working") /\ s = "completed"
     \/ At(r, "working") /\ s = "skipped" /\ r \in PmrRuns
  /\ Record(r, s)
  /\ outcome' = [outcome EXCEPT ![r] = s]
  /\ Goto(r, IF s = "skipped" THEN "done"
             ELSE IF r \in PmrRuns THEN "closing" ELSE "releasing")
  /\ UNCHANGED <<procVars, home, sess, replaced, active, recon, view, last>>

\* First step of terminal() and finish_reconciliation(): the event.
WriteTerminal(r, s) ==
  /\ \/ At(r, "failing") /\ s = "failed"
     \/ At(r, "working") /\ s = "completed"
     \/ At(r, "working") /\ s = "skipped" /\ r \in PmrRuns
  /\ Record(r, s)
  /\ outcome' = [outcome EXCEPT ![r] = s]
  /\ Goto(r, IF r \in PmrRuns THEN "closing" ELSE "releasing")
  /\ UNCHANGED <<procVars, home, sess, replaced, active, recon, view, last>>

\* Second step of terminal(): the session row, if it is still this run's.
CloseView(r) ==
  /\ At(r, "closing")
  /\ view' = IF view[sess[r]].run = r
             THEN [view EXCEPT ![sess[r]] = [run |-> r, status |-> outcome[r]]]
             ELSE view
  /\ Goto(r, "releasing")
  /\ UNCHANGED <<procVars, home, sess, outcome, replaced, active, recon, last, terminals>>

\* _release_runtime_lease(): both rows, each only if it is this run's.
Release(r) ==
  /\ At(r, "releasing")
  /\ active' = IF active = r THEN None ELSE active
  /\ recon' = IF recon = r THEN None ELSE recon
  /\ Goto(r, AfterTerminal(r))
  /\ UNCHANGED <<procVars, home, sess, outcome, replaced, view, last, terminals>>

\* Closing the view or releasing raised: the lease stays, the job goes on.
ReleaseRaises(r) ==
  /\ StoreMayFail
  /\ At(r, "closing") \/ At(r, "releasing")
  /\ Goto(r, AfterTerminal(r))
  /\ UNCHANGED <<procVars, home, sess, outcome, replaced, rowVars>>

AdvanceLastSession(r) ==
  /\ At(r, "advancing")
  /\ \/ last' = IF last >= sess[r] THEN last ELSE sess[r]
     \/ StoreMayFail /\ last' = last
  /\ Goto(r, "after")
  /\ UNCHANGED <<procVars, home, sess, outcome, replaced, active, recon, view, terminals>>

Finish(r) ==
  /\ At(r, "after")
  /\ Goto(r, "done")
  /\ UNCHANGED <<procVars, home, sess, outcome, replaced, rowVars>>

-----------------------------------------------------------------------------

\* The steps of a run in which nothing raises.
Succeed(r) ==
  \/ AcquirePmr(r)
  \/ AcquireRecon(r)
  \/ Refuse(r)
  \/ PersistRecovered(r)
  \/ PersistRefusal(r)
  \/ \E s \in Statuses : WriteTerminal(r, s)
  \/ CloseView(r)
  \/ Release(r)
  \/ AdvanceLastSession(r)
  \/ Finish(r)

\* What a run does on its own account, Stage apart, which can repeat.
Progress(r) == Succeed(r) \/ AcquireRaises(r) \/ StageFailed(r) \/ ReleaseRaises(r)

Init ==
  /\ up = {}
  /\ started = {}
  /\ pid = [p \in Procs |-> None]
  /\ today = 1
  /\ home = [r \in Runs |-> None]
  /\ sess = [r \in Runs |-> 1]
  /\ pc = [r \in Runs |-> "idle"]
  /\ outcome = [r \in Runs |-> "skipped"]
  /\ replaced = [r \in Runs |-> None]
  /\ active = None
  /\ recon = None
  /\ view = [s \in Sessions |-> NoView]
  /\ last = 0
  /\ terminals = {}

Next ==
  \/ \E p \in Procs, n \in Pids : Boot(p, n)
  \/ \E p \in Procs : Crash(p)
  \/ NextSession
  \/ \E r \in Runs, p \in Procs : Begin(r, p)
  \/ \E r \in Runs : Stage(r) \/ Progress(r)

Spec == Init /\ [][Next]_vars

\* The threads of a live process run: a job that started goes on to its end,
\* and not because something raises.
Fairness == \A r \in Runs : WF_vars(Succeed(r))

FairSpec == Spec /\ Fairness
-----------------------------------------------------------------------------
(* Properties.                                                             *)

\* A run that holds its lease: from the transaction that granted it to the
\* one that releases it, in a live process.
Busy(r) ==
  /\ IsUp(r)
  /\ pc[r] \in {"recovering", "working", "failing", "closing", "releasing"}

\* Two jobs never work at once: two reviews, two reconciliations, or one of
\* each, in any processes, whatever crashed before and however pids are reused.
MutualExclusion == \A q, r \in Runs : Busy(q) /\ Busy(r) => q = r

\* agent_events tells one story of each run: recovery never gives a run a
\* second terminal status, however many successors recover it.
OneTerminalStatus ==
  \A r \in Runs, s, t \in Statuses :
    <<r, s>> \in terminals /\ <<r, t>> \in terminals => s = t

\* A session is reviewed to completion twice only if the first review died
\* between its completed event and the session row that blocks a second one.
CompletedTwiceOnlyAfterCrash ==
  \A q, r \in PmrRuns :
    /\ q # r
    /\ sess[q] = sess[r]
    /\ <<q, "completed">> \in terminals
    /\ <<r, "completed">> \in terminals
    => \E d \in {q, r} : ~IsUp(d) /\ pc[d] = "closing"

\* The last session only advances once the completed terminal event of a
\* review of that session exists (scheduler.py, where the job advances it).
LastSessionCompleted ==
  last > 0 => \E r \in PmrRuns : sess[r] = last /\ <<r, "completed">> \in terminals

\* A job that ended leaves neither row behind.
NoLeakedLease ==
  \A r \in Runs : pc[r] = "done" => active # r /\ recon # r

\* Only its own release takes the active row from a run that is alive: neither
\* a recovery nor the blind write of stage() steals it
\* (test_live_owner_is_never_stolen).
LiveOwnerNeverStolen ==
  [][\A r \in Runs :
       active = r /\ IsUp(r) /\ active' # r
         => pc[r] = "releasing" /\ pc'[r] = AfterTerminal(r)]_vars

\* Once a session is processed nothing makes it eligible again, neither a
\* recovery that drops session rows nor a write that is lost.
ProcessedStays == [][\A s \in Sessions : Processed(s) => Processed(s)']_vars

\* A dead reconciliation is recovered by the next one, as the test
\* test_dead_reconciliation_owner_is_recovered says.
DeadReconciliationRecovered ==
  [][\A r \in ReconRuns :
       /\ Refuse(r)
       /\ recon # None
       => \E o \in {active, recon} \ {None} :
            o \in PmrRuns \/ PidAlive(pid[home[o]])]_vars

\* A job that begins in a process that stays up comes to its end.
EveryJobEnds ==
  \A r \in Runs : pc[r] = "begun" /\ IsUp(r) ~> pc[r] = "done" \/ ~IsUp(r)

\* No live process keeps a lease for ever.
LeaseIsGivenBack ==
  \A r \in Runs : (active = r \/ recon = r) /\ IsUp(r)
                    ~> (active # r /\ recon # r) \/ ~IsUp(r)

\* A run that was admitted or gave up.
Entered(r) == pc[r] \notin {"idle", "begun", "refused"}

\* A review that left its session row "completed".
Marked(r) ==
  outcome[r] = "completed" /\ pc[r] \in {"releasing", "advancing", "after", "done"}

\* The contract the coordinator implements: PostmarketContract, with the runs
\* that hold their lease as the busy ones, each review with the session it
\* computed, and the guard of acquire() as the processed sessions.
Contract ==
  INSTANCE PostmarketContract WITH
    Reviews <- PmrRuns,
    Reconciliations <- ReconRuns,
    session <- [r \in PmrRuns |-> sess[r]],
    busy <- {r \in Runs : Busy(r)},
    entered <- {r \in Runs : Entered(r)},
    reviewed <- {r \in PmrRuns : Marked(r)},
    processed <- {s \in Sessions : Processed(s)}

\* The two jobs work one at a time, a review only on a session that was not
\* processed, and only the review of a session has it processed: acquire(),
\* acquire_reconciliation(), terminal() and advance_last_session() together
\* keep PostmarketContract.
ImplementsContract == Contract!Spec
=============================================================================
