--------------------------- MODULE AuxSupervisor ---------------------------
(***************************************************************************)
(* The supervisor of the auxiliary daily services in the Linux image       *)
(* (docker_supervisor.py).  A process runs either the whole schedule in    *)
(* one loop (run_forever_all), or the loop of one service (run_forever),   *)
(* or its services once without a loop (--once).  The two loops differ in  *)
(* the services they go through and in the name of their lock and of the   *)
(* heartbeat the health check reads: they are one set of actions here.     *)
(*                                                                         *)
(* Files are what the processes share: a lock per path, a state and an     *)
(* artifact per service, a heartbeat per path.  Time is a day and a slot   *)
(* of it; it passes only while every process sleeps or waits for a child.  *)
(***************************************************************************)
EXTENDS Naturals, Sequences, FiniteSets, Functions

CONSTANTS
  Procs,       \* process incarnations
  Services,    \* SERVICE_NAMES
  Order,       \* the keys of AUXILIARY_SCHEDULES, in order
  Due,         \* service -> the slot of its run_at
  SelfDated,   \* services that date their artifact themselves
  Once,        \* the processes started with --once
  Deployments, \* what the processes may be started to serve
  LastSlot,    \* the last slot of a day
  LastDay,     \* bound on the days
  MaxAge,      \* slots after which a heartbeat is stale
  Auxiliary    \* the path name of the process that serves everything

ASSUME AuxAssumption ==
  /\ Order \in Seq(Services) /\ Len(Order) > 1
  /\ Range(Order) = Services
  /\ Due \in [Services -> 0 .. LastSlot]
  /\ LastSlot \in Nat /\ LastDay \in Nat /\ MaxAge \in Nat
  /\ Once \subseteq Procs
  /\ Auxiliary \notin Services
  /\ Deployments \subseteq [Procs -> {Order} \cup {<<s>> : s \in Services}]

Paths == Services \cup {Auxiliary}
Days == 1 .. LastDay
Times == [day : Days, slot : 0 .. LastSlot]
Statuses == {"none", "running", "completed", "failed", "skipped"}

VARIABLES
  clock,    \* the time
  serves,   \* the services of a process, in its order
  pc, next, \* where a process is in its loop, and at which of its services
  now,      \* the time its loop has read
  lock,     \* path -> the processes that hold its file lock
  state,    \* service -> the date and the status of its state file
  artifact, \* service -> the days whose artifact exists
  beat,     \* path -> when its heartbeat was written last
  attempts  \* history: service, day -> runs the supervisors started

procVars == <<serves, pc, next, now, lock>>
vars == <<clock, serves, pc, next, now, lock, state, artifact, beat, attempts>>

PCs == {"off", "begin", "look", "mark", "run", "failed", "completed", "rest",
        "wait", "once", "exited", "refused"}

TypeOK ==
  /\ clock \in Times
  /\ serves \in Deployments
  /\ pc \in [Procs -> PCs]
  /\ next \in [Procs -> 1 .. Len(Order)]
  /\ now \in [Procs -> Times]
  /\ lock \in [Paths -> SUBSET Procs]
  /\ state \in [Services -> [day : Days \cup {0}, status : Statuses]]
  /\ artifact \in [Services -> SUBSET Days]
  /\ beat \in [Paths -> Times \cup {<<>>}]
  /\ attempts \in [Services \X Days -> Nat]

-----------------------------------------------------------------------------

Path(p) == IF serves[p] = Order THEN Auxiliary ELSE serves[p][1]

Served(p) == Range(serves[p])

Service(p) == serves[p][next[p]]

Supervising(p) == pc[p] \in {"begin", "look", "mark", "run", "failed", "completed", "rest", "wait"}

Goto(p, place) == pc' = [pc EXCEPT ![p] = place]

Beat(paths) == beat' = [x \in Paths |-> IF x \in paths THEN clock ELSE beat[x]]

SetState(s, d, status) == state' = [state EXCEPT ![s] = [day |-> d, status |-> status]]

\* Mutant: the attempt is looked for by its status, not by its date.
TriedTodayIfFinal(s, d) == state[s].day = d /\ state[s].status # "running"

\* _state_for_today: there is a state of that day, whatever its status.
TriedToday(s, d) == state[s].day = d

\* The rest of an iteration over a service: its idle heartbeat, and the next.
Advance(p) ==
  IF next[p] < Len(serves[p])
  THEN next' = [next EXCEPT ![p] = @ + 1] /\ Goto(p, "look")
  ELSE next' = [next EXCEPT ![p] = 1] /\ Goto(p, "rest")

Epoch == [day |-> 1, slot |-> 0]

\* A process that is gone has no loop: what it had read is forgotten.
Gone(p) ==
  /\ Goto(p, "exited")
  /\ next' = [next EXCEPT ![p] = 1]
  /\ now' = [now EXCEPT ![p] = Epoch]

-----------------------------------------------------------------------------

\* Mutant: the lock is shared.
StartUnlocked(p) ==
  /\ pc[p] = "off" /\ p \notin Once
  /\ lock' = [lock EXCEPT ![Path(p)] = @ \cup {p}]
  /\ Goto(p, "begin")
  /\ Beat(Served(p))
  /\ UNCHANGED <<clock, serves, next, now, state, artifact, attempts>>

\* flock(LOCK_EX | LOCK_NB): the loop starts, or the process ends.
Start(p) ==
  /\ pc[p] = "off" /\ p \notin Once
  /\ IF lock[Path(p)] = {}
     THEN /\ lock' = [lock EXCEPT ![Path(p)] = {p}]
          /\ Goto(p, "begin")
          /\ Beat(Served(p))
     ELSE Goto(p, "refused") /\ UNCHANGED <<lock, beat>>
  /\ UNCHANGED <<clock, serves, next, now, state, artifact, attempts>>

\* Head of the loop: the clock is read once for the whole pass.
Begin(p) ==
  /\ pc[p] = "begin"
  /\ Goto(p, "look")
  /\ now' = [now EXCEPT ![p] = clock]
  /\ UNCHANGED <<clock, serves, next, lock, state, artifact, beat, attempts>>

\* A signal sets an event that the loop looks at between two passes only; it
\* wakes it from its sleep.  The lock is released.
Stop(p) ==
  /\ pc[p] \in {"begin", "wait"}
  /\ Gone(p)
  /\ lock' = [lock EXCEPT ![Path(p)] = @ \ {p}]
  /\ Beat(Served(p) \cup {Path(p)})
  /\ UNCHANGED <<clock, serves, state, artifact, attempts>>

IsDue(p, s) == now[p].slot >= Due[s]

Look(p) ==
  LET s == Service(p)  today == now[p].day
  IN /\ pc[p] = "look"
     /\ IF IsDue(p, s) /\ ~TriedToday(s, today) /\ today \notin artifact[s]
        THEN Goto(p, "mark") /\ UNCHANGED <<next, beat, state>>
        ELSE /\ Advance(p)
             /\ Beat({s})
             /\ IF IsDue(p, s) /\ ~TriedToday(s, today)
                THEN SetState(s, today, "skipped")
                ELSE state' = state
     /\ UNCHANGED <<clock, serves, now, lock, artifact, attempts>>

\* The attempt is written down before the service runs.
Mark(p) ==
  LET s == Service(p)  today == now[p].day
  IN /\ pc[p] = "mark"
     /\ SetState(s, today, "running")
     /\ Beat({s, Path(p)})
     /\ attempts' = [attempts EXCEPT ![<<s, today>>] = @ + 1]
     /\ Goto(p, "run")
     /\ UNCHANGED <<clock, serves, next, now, lock, artifact>>

-----------------------------------------------------------------------------
(* The child processes of run_service_once.                                *)

\* The day in the name of an artifact is the one the supervisor gives, but
\* for the services that take it from their own clock or market data.
DatedFor(p, s) ==
  IF s \in SelfDated THEN {clock.day} \cup (Days \cap {clock.day - 1})
                     ELSE {now[p].day}

Produce(p) ==
  LET s == Service(p)
  IN /\ pc[p] \in {"run", "once"}
     /\ \E d \in DatedFor(p, s) : artifact' = [artifact EXCEPT ![s] = @ \cup {d}]
     /\ UNCHANGED <<clock, procVars, state, beat, attempts>>

\* The commands of a service that is not self-dated leave its artifact when
\* they succeed; any of them may fail, before or after that.
MaySucceed(p) == Service(p) \in SelfDated \/ now[p].day \in artifact[Service(p)]

EndRun(p, outcome) ==
  /\ pc[p] = "run"
  /\ outcome = "completed" => MaySucceed(p)
  /\ Goto(p, outcome)
  /\ UNCHANGED <<clock, serves, next, now, lock, state, artifact, beat, attempts>>

\* Mutant: a failure ends the pass.
RecordGivesUp(p) ==
  LET s == Service(p)
  IN /\ pc[p] \in {"failed", "completed"}
     /\ SetState(s, now[p].day, pc[p])
     /\ Beat(IF pc[p] = "failed" THEN {s, Path(p)} ELSE {s})
     /\ IF pc[p] = "failed" THEN Goto(p, "rest") /\ next' = [next EXCEPT ![p] = 1] ELSE Advance(p)
     /\ UNCHANGED <<clock, serves, now, lock, artifact, attempts>>

\* The outcome goes to the state file under the day the pass began.
Record(p) ==
  LET s == Service(p)
  IN /\ pc[p] \in {"failed", "completed"}
     /\ SetState(s, now[p].day, pc[p])
     /\ Beat(IF pc[p] = "failed" THEN {s, Path(p)} ELSE {s})
     /\ Advance(p)
     /\ UNCHANGED <<clock, serves, now, lock, artifact, attempts>>

\* Mutant: only the services have heartbeats.
EndPassSilent(p) ==
  /\ pc[p] = "rest"
  /\ Goto(p, "wait")
  /\ UNCHANGED <<clock, serves, next, now, lock, state, artifact, beat, attempts>>

EndPass(p) ==
  /\ pc[p] = "rest"
  /\ Beat({Path(p)})
  /\ Goto(p, "wait")
  /\ UNCHANGED <<clock, serves, next, now, lock, state, artifact, attempts>>

\* stop_event.wait: at most 300 seconds.
Wake(p) ==
  /\ pc[p] = "wait"
  /\ now[p] # clock
  /\ Goto(p, "begin")
  /\ UNCHANGED <<clock, serves, next, now, lock, state, artifact, beat, attempts>>

-----------------------------------------------------------------------------
(* --once: no lock and no state; a failure ends the process.               *)

StartOnce(p) ==
  /\ pc[p] = "off" /\ p \in Once
  /\ now' = [now EXCEPT ![p] = clock]
  /\ Goto(p, "once")
  /\ UNCHANGED <<clock, serves, next, lock, state, artifact, beat, attempts>>

EndOnce(p, ok) ==
  /\ pc[p] = "once"
  /\ ok => MaySucceed(p)
  /\ IF ok /\ next[p] < Len(serves[p])
     THEN next' = [next EXCEPT ![p] = @ + 1] /\ UNCHANGED <<pc, now>>
     ELSE Gone(p)
  /\ UNCHANGED <<clock, serves, lock, state, artifact, beat, attempts>>

-----------------------------------------------------------------------------

\* A kill, or an error of the loop itself: the system releases the lock.
Crash(p) ==
  /\ Supervising(p) \/ pc[p] = "once"
  /\ Gone(p)
  /\ lock' = [x \in Paths |-> lock[x] \ {p}]
  /\ UNCHANGED <<clock, serves, state, artifact, beat, attempts>>

\* Everything but a child and a sleep takes no time.
Idle(p) ==
  \/ pc[p] \in {"off", "exited", "refused", "run", "once"}
  \/ pc[p] = "wait" /\ now[p] = clock

Tick ==
  /\ \A p \in Procs : Idle(p)
  /\ IF clock.slot < LastSlot
     THEN clock' = [clock EXCEPT !.slot = @ + 1]
     ELSE clock.day < LastDay /\ clock' = [day |-> clock.day + 1, slot |-> 0]
  /\ UNCHANGED <<procVars, state, artifact, beat, attempts>>

Step(p) ==
  \/ Start(p) \/ Begin(p) \/ Stop(p) \/ Look(p) \/ Mark(p)
  \/ Produce(p) \/ EndRun(p, "completed") \/ EndRun(p, "failed") \/ Record(p)
  \/ EndPass(p) \/ Wake(p)
  \/ StartOnce(p) \/ EndOnce(p, TRUE) \/ EndOnce(p, FALSE) \/ Crash(p)

Init ==
  /\ LastDay > 0
  /\ clock = Epoch
  /\ serves \in Deployments
  /\ pc = [p \in Procs |-> "off"]
  /\ next = [p \in Procs |-> 1]
  /\ now = [p \in Procs |-> Epoch]
  /\ lock = [x \in Paths |-> {}]
  /\ state = [s \in Services |-> [day |-> 0, status |-> "none"]]
  /\ artifact = [s \in Services |-> {}]
  /\ beat = [x \in Paths |-> <<>>]
  /\ attempts = [t \in Services \X Days |-> 0]

Next == Tick \/ \E p \in Procs : Step(p)

Spec == Init /\ [][Next]_vars

-----------------------------------------------------------------------------
(* Properties.                                                             *)

\* The supervisors of a service all use one lock: nothing in the code keeps a
\* process of the whole schedule and one of a single service apart.
OneLock(s) ==
  \A p, q \in Procs \ Once : s \in Served(p) \cap Served(q) => Path(p) = Path(q)

\* The supervisors of a service start it at most once a day, across stops,
\* crashes and restarts at any point, a second process, and runs that end
\* after midnight.
OneAttemptPerDay ==
  \A s \in Services, d \in Days : OneLock(s) => attempts[<<s, d>>] <= 1

\* What a state file says of a day is never replaced by an older day, though a
\* run that ends after midnight writes its outcome under the day it began.
StateNeverGoesBack ==
  [][\A s \in Services : OneLock(s) => state'[s].day >= state[s].day]_vars

\* When a supervisor goes to sleep, every service that was due when its pass
\* began has been tried that day, or had its artifact: the services before it
\* in the pass, their failures and their length do not make it miss its turn.
PassLeavesNothingDue ==
  \A p \in Procs :
    pc[p] = "wait" =>
      \A s \in Served(p) : OneLock(s) /\ IsDue(p, s) => state[s].day >= now[p].day

\* The supervisor that runs everything never has two services running at a
\* time, and neither have two such supervisors: the memory bound of the image.
OneChildAtATime ==
  \A p, q \in Procs :
    serves[p] = Order /\ serves[q] = Order /\ pc[p] = "run" /\ pc[q] = "run" => p = q

SlotsSince(t) == (clock.day - t.day) * (LastSlot + 1) + clock.slot - t.slot

Fresh(x) == beat[x] # <<>> /\ SlotsSince(beat[x]) \in 0 .. MaxAge

\* healthcheck and healthcheck_all.
Healthy(p) ==
  /\ Fresh(Path(p))
  /\ \A s \in IF serves[p] = Order THEN Services ELSE {Path(p)} :
       ~(state[s].day = clock.day /\ state[s].status = "failed")

\* The health check of a supervisor that sleeps is bad only for a service
\* that failed today: a long run, a restart or a stop leaves no stale
\* heartbeat behind.
SleepingIsHealthy ==
  \A p \in Procs :
    pc[p] = "wait" /\ ~Healthy(p) =>
      \E s \in Services : state[s] = [day |-> clock.day, status |-> "failed"]

\* The rule the module shares with the other supervisors: one that starts
\* when the hour of a service has passed and its artifact is missing runs it
\* at once.  Stated at the end of a pass: what is due has been run by a
\* process that is still there, or its artifact exists.
MissingArtifactIsCaughtUp ==
  \A p \in Procs :
    pc[p] = "wait" =>
      \A s \in Served(p) :
        OneLock(s) /\ IsDue(p, s) /\ now[p].day \notin artifact[s]
          => state[s] # [day |-> now[p].day, status |-> "running"]
=============================================================================
