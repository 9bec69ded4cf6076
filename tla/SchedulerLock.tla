--------------------------- MODULE SchedulerLock ---------------------------
(***************************************************************************)
(* The scheduler.lock file that keeps a second scheduler from starting     *)
(* (scheduler.py: _acquire_scheduler_lock, _release_scheduler_lock and the *)
(* helpers they call), one file system call or process test per step.      *)
(*                                                                         *)
(* A file is identified by the attempt that created it, <<process, try>>;  *)
(* its content, once written, is the pid and the start token of that       *)
(* process.  A process incarnation is its own start token.  Two contents   *)
(* may be found at the beginning: a bare pid written by an old release     *)
(* (Legacy, no token), or text that is no lock at all (Garbage).           *)
(***************************************************************************)
EXTENDS Naturals, FiniteSets

CONSTANTS
  Procs,      \* process incarnations that run the schedule command
  Pids,       \* operating system pids, reusable
  LegacyPid,  \* the pid in a legacy lock
  None, Legacy, Garbage,
  Found       \* what the lock path may be at the start

Tries == 1 .. 2

Files == (Procs \X Tries) \cup {Legacy, Garbage}

ASSUME LockAssumption ==
  /\ None \notin Files \cup Pids
  /\ Legacy # Garbage
  /\ {Legacy, Garbage} \cap (Procs \X Tries) = {}
  /\ LegacyPid \in Pids
  /\ Found \subseteq {None, Legacy, Garbage}

VARIABLES
  up, started, pid,  \* processes: running, ever started, and their pids
  pc,        \* what a process does next
  try,       \* which of the two attempts it is in
  payload,   \* the file whose content it read first, None if unreadable
  diagnosed, \* the file whose content its diagnosis read, None if unreadable
  dir,       \* the file at the lock path, None if there is none
  written,   \* the files whose content is complete
  unlinked,  \* history: the processes that removed a file to recover it
  alone      \* history: the processes beside which no other one has run

procVars == <<up, started, pid>>
fileVars == <<dir, written>>
vars == <<up, started, pid, pc, try, payload, diagnosed, dir, written, unlinked, alone>>

PCs == {"off", "create", "write", "read", "diagnose", "decide", "unlink",
        "own", "check", "remove", "exited", "refused"}

TypeOK ==
  /\ up \subseteq started
  /\ started \subseteq Procs
  /\ pid \in [Procs -> Pids \cup {None}]
  /\ pc \in [Procs -> PCs]
  /\ try \in [Procs -> Tries]
  /\ payload \in [Procs -> Files \cup {None}]
  /\ diagnosed \in [Procs -> Files \cup {None}]
  /\ dir \in Files \cup {None}
  /\ written \subseteq Files
  /\ unlinked \subseteq Procs
  /\ alone \subseteq Procs

-----------------------------------------------------------------------------

PidAlive(n) == \E p \in up : pid[p] = n

Creator(f) == f[1]

PidIn(f) == IF f = Legacy THEN LegacyPid ELSE pid[Creator(f)]

\* What a reader makes of the lock path: an absent file, an empty one and
\* text that is no lock are all an empty payload.
Readable == IF dir \in written \ {Garbage} THEN dir ELSE None

\* The diagnosis owner_alive: the pid runs and, if the lock has a token, it is
\* the token of the process that runs under that pid now.
OwnerAlive(f) ==
  /\ PidAlive(PidIn(f))
  /\ f = Legacy \/ Creator(f) \in up

MyPidIn(f, p) == f # None /\ PidIn(f) = pid[p]

Goto(p, place) == pc' = [pc EXCEPT ![p] = place]

At(p, place) == p \in up /\ pc[p] = place

-----------------------------------------------------------------------------

Boot(p, n) ==
  /\ p \notin started
  /\ ~PidAlive(n)
  /\ started' = started \cup {p}
  /\ up' = up \cup {p}
  /\ pid' = [pid EXCEPT ![p] = n]
  /\ alone' = IF up = {} THEN alone \cup {p} ELSE alone \ up
  /\ Goto(p, "create")
  /\ UNCHANGED <<try, payload, diagnosed, fileVars, unlinked>>

\* A kill, a power cut, or the end of a process that was refused.
Crash(p) ==
  /\ p \in up
  /\ up' = up \ {p}
  /\ UNCHANGED <<started, pid, pc, try, payload, diagnosed, fileVars, unlinked, alone>>

\* Mutant: the file is opened for writing, whoever has it.
CreateShared(p) ==
  /\ At(p, "create")
  /\ dir' = <<p, try[p]>>
  /\ Goto(p, "write")
  /\ UNCHANGED <<procVars, try, payload, diagnosed, written, unlinked, alone>>

\* O_CREAT | O_EXCL: the file appears empty, or exists already.
Create(p) ==
  /\ At(p, "create")
  /\ IF dir = None
     THEN dir' = <<p, try[p]>> /\ Goto(p, "write")
     ELSE dir' = dir /\ Goto(p, "read")
  /\ UNCHANGED <<procVars, try, payload, diagnosed, written, unlinked, alone>>

\* The content goes to the created file even if the path was unlinked since.
Write(p) ==
  /\ At(p, "write")
  /\ written' = written \cup {<<p, try[p]>>}
  /\ Goto(p, "own")
  /\ UNCHANGED <<procVars, try, payload, diagnosed, dir, unlinked, alone>>

Read(p) ==
  /\ At(p, "read")
  /\ payload' = [payload EXCEPT ![p] = Readable]
  /\ Goto(p, "diagnose")
  /\ UNCHANGED <<procVars, try, diagnosed, fileVars, unlinked, alone>>

\* _scheduler_lock_diagnosis reads the file a second time ...
Diagnose(p) ==
  /\ At(p, "diagnose")
  /\ diagnosed' = [diagnosed EXCEPT ![p] = Readable]
  /\ Goto(p, "decide")
  /\ UNCHANGED <<procVars, try, payload, fileVars, unlinked, alone>>

\* Mutant: a lock that names this very pid refuses like any other.
MustRefuseOwnPid(p) ==
  dir # None /\ (diagnosed[p] = None \/ OwnerAlive(diagnosed[p]))

\* ... then asks whether it exists and whether its owner runs.  A lock of this
\* very pid is taken back.
MustRefuse(p) ==
  /\ dir # None
  /\ \/ diagnosed[p] = None
     \/ OwnerAlive(diagnosed[p]) /\ ~MyPidIn(payload[p], p)

Decide(p) ==
  /\ At(p, "decide")
  /\ Goto(p, IF MustRefuse(p) THEN "refused" ELSE "unlink")
  /\ UNCHANGED <<procVars, try, payload, diagnosed, fileVars, unlinked, alone>>

\* Mutant: there is but one attempt.
UnlinkGivesUp(p) ==
  /\ At(p, "unlink")
  /\ dir' = None
  /\ unlinked' = IF dir = None THEN unlinked ELSE unlinked \cup {p}
  /\ Goto(p, "refused")
  /\ UNCHANGED <<procVars, try, payload, diagnosed, written, alone>>

\* The orphan is removed, whatever is at the path by now, and creation is
\* tried once more.
Unlink(p) ==
  /\ At(p, "unlink")
  /\ dir' = None
  /\ unlinked' = IF dir = None THEN unlinked ELSE unlinked \cup {p}
  /\ IF try[p] = 1
     THEN try' = [try EXCEPT ![p] = 2] /\ Goto(p, "create")
     ELSE try' = try /\ Goto(p, "refused")
  /\ UNCHANGED <<procVars, payload, diagnosed, written, alone>>

-----------------------------------------------------------------------------
(* The orderly end: _release_scheduler_lock.                               *)

Stop(p) ==
  /\ At(p, "own")
  /\ Goto(p, "check")
  /\ UNCHANGED <<procVars, try, payload, diagnosed, fileVars, unlinked, alone>>

ReleaseRead(p) ==
  /\ At(p, "check")
  /\ payload' = [payload EXCEPT ![p] = Readable]
  /\ Goto(p, "remove")
  /\ UNCHANGED <<procVars, try, diagnosed, fileVars, unlinked, alone>>

ReleaseRemove(p) ==
  /\ At(p, "remove")
  /\ dir' = IF MyPidIn(payload[p], p) /\ (payload[p] = Legacy \/ Creator(payload[p]) = p)
            THEN None ELSE dir
  /\ Goto(p, "exited")
  /\ UNCHANGED <<procVars, try, payload, diagnosed, written, unlinked, alone>>

Step(p) ==
  \/ Create(p) \/ Write(p) \/ Read(p) \/ Diagnose(p) \/ Decide(p) \/ Unlink(p)
  \/ Stop(p) \/ ReleaseRead(p) \/ ReleaseRemove(p)

Init ==
  /\ up = {}
  /\ started = {}
  /\ pid = [p \in Procs |-> None]
  /\ pc = [p \in Procs |-> "off"]
  /\ try = [p \in Procs |-> 1]
  /\ payload = [p \in Procs |-> None]
  /\ diagnosed = [p \in Procs |-> None]
  /\ dir \in Found
  /\ written = {Legacy, Garbage}
  /\ unlinked = {}
  /\ alone = {}

Next ==
  \/ \E p \in Procs, n \in Pids : Boot(p, n)
  \/ \E p \in Procs : Crash(p) \/ Step(p)

Spec == Init /\ [][Next]_vars

-----------------------------------------------------------------------------
(* Properties.                                                             *)

\* A scheduler that believes it holds the lock and runs its jobs.
Owns(p) == p \in up /\ pc[p] \in {"own", "check", "remove"}

\* Two schedulers never run together, as _try_create_lock_exclusive says.
MutualExclusion == \A p, q \in Procs : Owns(p) /\ Owns(q) => p = q

\* Two schedulers run together only if one of them removed a lock it took for
\* an orphan: exclusive creation alone is sound, recovery is the only leak.
RaceNeedsRecovery == unlinked = {} => MutualExclusion

\* Schedulers started together never talk each other out of starting: once
\* all have decided and none has died or stopped, one of them runs, unless the
\* path holds text that is no lock.
BurstLeavesAScheduler ==
  (/\ started # {}
   /\ up = started
   /\ dir # Garbage
   /\ \A p \in started : pc[p] \in {"own", "refused"})
    => \E p \in started : pc[p] = "own"

\* The path holds a file that is no lock, or one that was left empty, and nobody
\* is about to fill it.
Unreadable == dir # None /\ Readable = None /\ \A q \in up : pc[q] # "write"

\* A scheduler that starts while no process runs, and beside which none starts,
\* is not refused by any lock that can be read: one of a dead process, of a pid
\* that was reused or of its own pid.  Only a file without a readable content
\* refuses it, and that file then stays for ever
\* (_scheduler_lock_diagnosis, _acquire_scheduler_lock).
LoneStartAcquires == \A p \in alone : pc[p] = "refused" => Unreadable

\* A lone start is refused only by what no scheduler wrote.
EmptyFileIsRecovered == \A p \in alone : pc[p] = "refused" => dir = Garbage
=============================================================================
