------------------------ MODULE AuxSupervisorProofs ------------------------
(***************************************************************************)
(* Theorems about AuxSupervisor, for any services and any order of them,   *)
(* any hours, any number of processes and deployments, any number of days: *)
(* one attempt per service and day, states that never go back, passes that *)
(* leave nothing due, one child at a time, a healthy heartbeat.            *)
(***************************************************************************)
EXTENDS AuxSupervisor, TLAPS

\* A process serves the whole order or one service, and is at one it serves.
AtAService == \A p \in Procs : next[p] \in 1 .. Len(serves[p])

TypeInv == TypeOK /\ AtAService

\* Who supervises holds the lock of its path, alone.
HoldsItsLock ==
  \A p \in Procs : Supervising(p) => p \notin Once /\ lock[Path(p)] = {p}

InPass(p) == pc[p] \in {"look", "mark", "run", "failed", "completed", "rest", "wait"}

\* Nothing is dated ahead of the clock.
NothingIsAhead ==
  /\ \A p \in Procs : InPass(p) => now[p].day <= clock.day
  /\ \A s \in Services : state[s].day <= clock.day

\* The state of a service is not newer than the pass of its supervisor, and
\* older while the pass is about to start it.
StateOfThePass ==
  \A p \in Procs, s \in Services :
    InPass(p) /\ s \in Served(p) /\ OneLock(s) =>
      /\ state[s].day <= now[p].day
      /\ pc[p] = "mark" /\ s = Service(p) => state[s].day < now[p].day

\* An attempt of a day has left its date, or a later one, in the state file.
AttemptsAreDated ==
  \A s \in Services, d \in Days :
    OneLock(s) => /\ attempts[<<s, d>>] <= 1
                  /\ attempts[<<s, d>>] = 1 => d <= state[s].day

\* Behind the place of a pass nothing is due.
Behind(p, i) ==
  \/ pc[p] \in {"rest", "wait"}
  \/ pc[p] \in {"look", "mark", "run", "failed", "completed"} /\ i < next[p]

NothingDueBehind ==
  \A p \in Procs : \A i \in 1 .. Len(serves[p]) :
    Behind(p, i) /\ OneLock(serves[p][i]) /\ IsDue(p, serves[p][i])
      => state[serves[p][i]].day >= now[p].day

-----------------------------------------------------------------------------
(* Types.                                                                  *)

LEMMA Deployed ==
  ASSUME TypeOK, NEW p \in Procs
  PROVE  /\ serves[p] \in Seq(Services)
         /\ serves[p] = Order \/ \E s \in Services : serves[p] = <<s>>
         /\ Len(serves[p]) \in 1 .. Len(Order)
         /\ Path(p) \in Paths
         /\ Served(p) \subseteq Services
<1>1. serves[p] = Order \/ \E s \in Services : serves[p] = <<s>>
  BY AuxAssumption DEF TypeOK
<1>2. Order \in Seq(Services) /\ Len(Order) > 1
  BY AuxAssumption
<1>3. CASE serves[p] = Order
  BY <1>1, <1>2, <1>3 DEF Path, Paths, Served, Range
<1>4. CASE serves[p] # Order
  <2>1. PICK s \in Services : serves[p] = <<s>>
    BY <1>1, <1>4
  <2>2. Path(p) = s
    BY <2>1, <1>4 DEF Path
  <2>3. Len(serves[p]) = 1 /\ serves[p] \in Seq(Services)
    BY <2>1
  <2> QED
    BY <1>1, <1>2, <2>1, <2>2, <2>3 DEF Paths, Served, Range
<1> QED
  BY <1>3, <1>4

\* The service a process is at.
LEMMA AtServed ==
  ASSUME TypeInv, NEW p \in Procs
  PROVE  Service(p) \in Services /\ Service(p) \in Served(p)
<1>1. serves[p] \in Seq(Services) /\ next[p] \in 1 .. Len(serves[p])
  BY Deployed DEF TypeInv, AtAService
<1> QED
  BY <1>1 DEF Service, Served, Range

\* The updates of nested functions and records, once.
LEMMA StateUpdated ==
  ASSUME TypeOK, NEW s \in Services, NEW d \in Days, NEW st \in Statuses, SetState(s, d, st)
  PROVE  /\ state' \in [Services -> [day : Days \cup {0}, status : Statuses]]
         /\ state'[s] = [day |-> d, status |-> st]
         /\ state'[s].day = d
         /\ \A x \in Services \ {s} : state'[x] = state[x]
BY DEF TypeOK, SetState

LEMMA AttemptCounted ==
  ASSUME TypeOK, NEW s \in Services, NEW d \in Days,
         attempts' = [attempts EXCEPT ![<<s, d>>] = @ + 1]
  PROVE  /\ attempts' \in [Services \X Days -> Nat]
         /\ \A x \in Services, e \in Days :
              attempts'[<<x, e>>] = IF x = s /\ e = d THEN attempts[<<s, d>>] + 1 ELSE attempts[<<x, e>>]
BY DEF TypeOK

LEMMA BeatTyped ==
  ASSUME TypeOK, NEW P, Beat(P)
  PROVE  beat' \in [Paths -> Times \cup {<<>>}]
BY DEF TypeOK, Beat

\* Going to the next service, or to the end of the pass.
LEMMA Advanced ==
  ASSUME TypeInv, NEW p \in Procs, Advance(p)
  PROVE  /\ pc' \in [Procs -> PCs]
         /\ next' \in [Procs -> 1 .. Len(Order)]
         /\ next'[p] \in 1 .. Len(serves[p])
         /\ \A q \in Procs \ {p} : pc'[q] = pc[q] /\ next'[q] = next[q]
         /\ \/ next[p] < Len(serves[p]) /\ pc'[p] = "look" /\ next'[p] = next[p] + 1
            \/ next[p] = Len(serves[p]) /\ pc'[p] = "rest" /\ next'[p] = 1
<1>1. next[p] \in 1 .. Len(serves[p]) /\ Len(serves[p]) \in 1 .. Len(Order)
  BY Deployed DEF TypeInv, AtAService
<1>2. Len(Order) \in Nat /\ Len(serves[p]) \in Nat
  BY AuxAssumption, Deployed DEF TypeInv
<1>3. pc \in [Procs -> PCs] /\ next \in [Procs -> 1 .. Len(Order)]
  BY DEF TypeInv, TypeOK
<1>4. CASE next[p] < Len(serves[p])
  <2>1. next' = [next EXCEPT ![p] = next[p] + 1] /\ pc' = [pc EXCEPT ![p] = "look"]
    BY <1>4 DEF Advance, Goto
  <2>2. next[p] + 1 \in 1 .. Len(serves[p]) /\ next[p] + 1 \in 1 .. Len(Order)
    BY <1>1, <1>2, <1>4
  <2> QED
    BY <1>3, <1>4, <2>1, <2>2 DEF PCs
<1>5. CASE ~(next[p] < Len(serves[p]))
  <2>1. next' = [next EXCEPT ![p] = 1] /\ pc' = [pc EXCEPT ![p] = "rest"]
    BY <1>5 DEF Advance, Goto
  <2>2. 1 \in 1 .. Len(serves[p]) /\ 1 \in 1 .. Len(Order) /\ next[p] = Len(serves[p])
    BY <1>1, <1>2, <1>5
  <2> QED
    BY <1>3, <2>1, <2>2 DEF PCs
<1> QED
  BY <1>4, <1>5

\* A process that ends.
LEMMA IsGone ==
  ASSUME TypeInv, NEW p \in Procs, Gone(p)
  PROVE  /\ pc' \in [Procs -> PCs] /\ pc'[p] = "exited"
         /\ next' \in [Procs -> 1 .. Len(Order)] /\ next'[p] = 1
         /\ \A q \in Procs \ {p} : pc'[q] = pc[q] /\ next'[q] = next[q] /\ now'[q] = now[q]
<1>1. 1 \in 1 .. Len(Order)
  BY AuxAssumption
<1> QED
  BY <1>1 DEF Gone, Goto, TypeInv, TypeOK, PCs

LEMMA GoneNow ==
  ASSUME TypeInv, NEW p \in Procs, Gone(p)
  PROVE  now' \in [Procs -> Times]
<1>1. Epoch \in Times
  <2>1. clock.day \in 1 .. LastDay /\ LastDay \in Nat /\ LastSlot \in Nat
    BY AuxAssumption DEF TypeInv, TypeOK, Times, Days
  <2> QED
    BY <2>1 DEF Epoch, Times, Days
<1> QED
  BY <1>1 DEF Gone, TypeInv, TypeOK





-----------------------------------------------------------------------------
(* Every step keeps the types.                                             *)

LEMMA TypeStep ==
  ASSUME TypeInv, [Next]_vars
  PROVE  TypeInv'
<1>0. /\ clock \in Times /\ serves \in Deployments /\ pc \in [Procs -> PCs]
      /\ next \in [Procs -> 1 .. Len(Order)] /\ now \in [Procs -> Times]
      /\ lock \in [Paths -> SUBSET Procs]
      /\ state \in [Services -> [day : Days \cup {0}, status : Statuses]]
      /\ artifact \in [Services -> SUBSET Days] /\ beat \in [Paths -> Times \cup {<<>>}]
      /\ attempts \in [Services \X Days -> Nat] /\ AtAService
  BY DEF TypeInv, TypeOK
<1>t. \A p \in Procs : clock.day \in Days /\ now[p].day \in Days
  BY <1>0 DEF Times
<1>s. \A p \in Procs : Service(p) \in Services /\ Path(p) \in Paths
  BY AtServed, Deployed DEF TypeInv
<1> USE DEF procVars
<1>1. ASSUME Tick
      PROVE  TypeInv'
  <2>1. clock' \in Times
    <3>1. clock.day \in 1 .. LastDay /\ clock.slot \in 0 .. LastSlot /\ LastDay \in Nat /\ LastSlot \in Nat
      BY <1>0, AuxAssumption DEF Times, Days
    <3>2. CASE clock.slot < LastSlot
      <4>1. clock' = [clock EXCEPT !.slot = clock.slot + 1] /\ clock.slot + 1 \in 0 .. LastSlot
        BY <1>1, <3>1, <3>2 DEF Tick
      <4> QED
        BY <1>0, <4>1 DEF Times
    <3>3. CASE ~(clock.slot < LastSlot)
      <4>1. clock' = [day |-> clock.day + 1, slot |-> 0] /\ clock.day + 1 \in 1 .. LastDay
        BY <1>1, <3>1, <3>3 DEF Tick
      <4> QED
        BY <3>1, <4>1 DEF Times, Days
    <3> QED
      BY <3>2, <3>3
  <2> QED
    BY <1>0, <1>1, <2>1 DEF Tick, TypeInv, TypeOK, AtAService
<1>2. ASSUME NEW p \in Procs, Start(p)
      PROVE  TypeInv'
  <2>1. beat' \in [Paths -> Times \cup {<<>>}]
    BY <1>0, <1>2, BeatTyped DEF Start, TypeInv
  <2>2. lock' \in [Paths -> SUBSET Procs]
    <3>1. lock' = lock \/ lock' = [lock EXCEPT ![Path(p)] = {p}]
      BY <1>2 DEF Start
    <3> QED
      BY <1>0, <1>s, <3>1
  <2>3. pc' \in [Procs -> PCs]
    BY <1>0, <1>2 DEF Start, Goto, PCs
  <2> QED
    BY <1>0, <1>2, <2>1, <2>2, <2>3 DEF Start, TypeInv, TypeOK, AtAService
<1>3. ASSUME NEW p \in Procs, Begin(p)
      PROVE  TypeInv'
  BY <1>0, <1>3 DEF Begin, Goto, PCs, TypeInv, TypeOK, AtAService
<1>4. ASSUME NEW p \in Procs, Stop(p)
      PROVE  TypeInv'
  <2>1. beat' \in [Paths -> Times \cup {<<>>}]
    BY <1>0, <1>4, BeatTyped DEF Stop, TypeInv
  <2>2. lock' \in [Paths -> SUBSET Procs]
    BY <1>0, <1>s, <1>4 DEF Stop
  <2>3. Gone(p)
    BY <1>4 DEF Stop
  <2>4. 1 \in 1 .. Len(serves[p])
    BY Deployed DEF TypeInv
  <2>5. AtAService'
    BY <1>0, <1>4, <2>3, <2>4, IsGone DEF AtAService, Stop
  <2> QED
    BY <1>0, <1>4, <2>1, <2>2, <2>3, <2>5, IsGone, GoneNow DEF Stop, TypeInv, TypeOK
<1>5. ASSUME NEW p \in Procs, Look(p)
      PROVE  TypeInv'
  <2>0. "skipped" \in Statuses
    BY DEF Statuses
  <2>1. CASE UNCHANGED <<next, beat, state>> /\ Goto(p, "mark")
    BY <1>0, <1>5, <2>1 DEF Look, Goto, PCs, TypeInv, TypeOK, AtAService
  <2>2. CASE /\ Advance(p) /\ Beat({Service(p)})
             /\ SetState(Service(p), now[p].day, "skipped") \/ state' = state
    <3>1. beat' \in [Paths -> Times \cup {<<>>}]
      BY <2>2, BeatTyped DEF TypeInv
    <3>2. state' \in [Services -> [day : Days \cup {0}, status : Statuses]]
      BY <1>0, <1>t, <1>s, <2>0, <2>2, StateUpdated DEF TypeInv
    <3>3. AtAService'
      BY <1>0, <1>5, <2>2, Advanced DEF AtAService, Look
    <3> QED
      BY <1>0, <1>5, <2>2, <3>1, <3>2, <3>3, Advanced DEF Look, TypeInv, TypeOK
  <2> QED
    BY <1>5, <2>1, <2>2 DEF Look
<1>6. ASSUME NEW p \in Procs, Mark(p)
      PROVE  TypeInv'
  <2>0. "running" \in Statuses
    BY DEF Statuses
  <2>1. beat' \in [Paths -> Times \cup {<<>>}]
    BY <1>6, BeatTyped DEF Mark, TypeInv
  <2>2. state' \in [Services -> [day : Days \cup {0}, status : Statuses]]
    BY <1>t, <1>s, <1>6, <2>0, StateUpdated DEF Mark, TypeInv
  <2>3. attempts' \in [Services \X Days -> Nat]
    BY <1>t, <1>s, <1>6, AttemptCounted DEF Mark, TypeInv
  <2>4. pc' \in [Procs -> PCs]
    BY <1>0, <1>6 DEF Mark, Goto, PCs
  <2> QED
    BY <1>0, <1>6, <2>1, <2>2, <2>3, <2>4 DEF Mark, TypeInv, TypeOK, AtAService
<1>7. ASSUME NEW p \in Procs, Produce(p)
      PROVE  TypeInv'
  <2>1. DatedFor(p, Service(p)) \subseteq Days
    BY <1>t DEF DatedFor
  <2>2. artifact' \in [Services -> SUBSET Days]
    BY <1>0, <1>s, <1>7, <2>1 DEF Produce
  <2> QED
    BY <1>0, <1>7, <2>2 DEF Produce, TypeInv, TypeOK, AtAService
<1>8. ASSUME NEW p \in Procs, NEW outcome \in {"completed", "failed"}, EndRun(p, outcome)
      PROVE  TypeInv'
  BY <1>0, <1>8 DEF EndRun, Goto, PCs, TypeInv, TypeOK, AtAService
<1>9. ASSUME NEW p \in Procs, Record(p)
      PROVE  TypeInv'
  <2>0. pc[p] \in Statuses
    BY <1>9 DEF Record, Statuses
  <2>1. beat' \in [Paths -> Times \cup {<<>>}]
    BY <1>9, BeatTyped DEF Record, TypeInv
  <2>2. state' \in [Services -> [day : Days \cup {0}, status : Statuses]]
    BY <1>t, <1>s, <1>9, <2>0, StateUpdated DEF Record, TypeInv
  <2>3. Advance(p)
    BY <1>9 DEF Record
  <2>4. AtAService'
    BY <1>0, <1>9, <2>3, Advanced DEF AtAService, Record
  <2> QED
    BY <1>0, <1>9, <2>1, <2>2, <2>3, <2>4, Advanced DEF Record, TypeInv, TypeOK
<1>10. ASSUME NEW p \in Procs, EndPass(p)
      PROVE  TypeInv'
  <2>1. beat' \in [Paths -> Times \cup {<<>>}]
    BY <1>10, BeatTyped DEF EndPass, TypeInv
  <2>2. pc' \in [Procs -> PCs]
    BY <1>0, <1>10 DEF EndPass, Goto, PCs
  <2> QED
    BY <1>0, <1>10, <2>1, <2>2 DEF EndPass, TypeInv, TypeOK, AtAService
<1>11. ASSUME NEW p \in Procs, Wake(p)
      PROVE  TypeInv'
  BY <1>0, <1>11 DEF Wake, Goto, PCs, TypeInv, TypeOK, AtAService
<1>12. ASSUME NEW p \in Procs, StartOnce(p)
      PROVE  TypeInv'
  BY <1>0, <1>12 DEF StartOnce, Goto, PCs, TypeInv, TypeOK, AtAService
<1>13. ASSUME NEW p \in Procs, NEW ok \in BOOLEAN, EndOnce(p, ok)
      PROVE  TypeInv'
  <2>0. next[p] \in 1 .. Len(serves[p]) /\ Len(serves[p]) \in 1 .. Len(Order) /\ Len(Order) \in Nat
    BY <1>0, Deployed, AuxAssumption DEF TypeInv, AtAService
  <2>1. CASE ok /\ next[p] < Len(serves[p])
    <3>1. next' = [next EXCEPT ![p] = next[p] + 1] /\ UNCHANGED <<pc, now>>
      BY <1>13, <2>1 DEF EndOnce
    <3>2. next[p] + 1 \in 1 .. Len(serves[p]) /\ next[p] + 1 \in 1 .. Len(Order)
      BY <2>0, <2>1
    <3>3. next' \in [Procs -> 1 .. Len(Order)]
      BY <1>0, <3>1, <3>2
    <3>4. AtAService'
      BY <1>0, <1>13, <3>1, <3>2 DEF AtAService, EndOnce
    <3> QED
      BY <1>0, <1>13, <3>1, <3>3, <3>4 DEF EndOnce, TypeInv, TypeOK
  <2>2. CASE ~(ok /\ next[p] < Len(serves[p]))
    <3>1. Gone(p)
      BY <1>13, <2>2 DEF EndOnce
    <3>2. 1 \in 1 .. Len(serves[p])
      BY <2>0
    <3>3. AtAService'
      BY <1>0, <1>13, <3>1, <3>2, IsGone DEF AtAService, EndOnce
    <3> QED
      BY <1>0, <1>13, <3>1, <3>3, IsGone, GoneNow DEF EndOnce, TypeInv, TypeOK
  <2> QED
    BY <2>1, <2>2
<1>14. ASSUME NEW p \in Procs, Crash(p)
      PROVE  TypeInv'
  <2>1. lock' \in [Paths -> SUBSET Procs]
    BY <1>0, <1>14 DEF Crash
  <2>2. Gone(p)
    BY <1>14 DEF Crash
  <2>3. 1 \in 1 .. Len(serves[p])
    BY Deployed DEF TypeInv
  <2>4. AtAService'
    BY <1>0, <1>14, <2>2, <2>3, IsGone DEF AtAService, Crash
  <2> QED
    BY <1>0, <1>14, <2>1, <2>2, <2>4, IsGone, GoneNow DEF Crash, TypeInv, TypeOK
<1>15. ASSUME UNCHANGED vars
      PROVE  TypeInv'
  BY <1>0, <1>15 DEF vars, TypeInv, TypeOK, AtAService
<1> QED
  BY <1>1, <1>2, <1>3, <1>4, <1>5, <1>6, <1>7, <1>8, <1>9, <1>10, <1>11, <1>12, <1>13, <1>14, <1>15
     DEF Next, Step

LEMMA TypeInit ==
  ASSUME Init
  PROVE  TypeInv
<1>1. Epoch \in Times
  BY AuxAssumption DEF Init, Epoch, Times, Days
<1>2. 1 \in 1 .. Len(Order)
  BY AuxAssumption
<1>3. TypeOK
  BY <1>1, <1>2 DEF Init, TypeOK, PCs, Statuses
<1> QED
  BY <1>3, Deployed DEF TypeInv, AtAService, Init

\* Every variable has its type: for any services, order, hours, processes,
\* deployments and days.
THEOREM AuxTypeCorrect == Spec => []TypeOK
<1>1. Spec => []TypeInv
  BY TypeInit, TypeStep, PTL DEF Spec
<1>2. TypeInv => TypeOK
  BY DEF TypeInv
<1> QED
  BY <1>1, <1>2, PTL

-----------------------------------------------------------------------------
(* What a step does to the passes.                                         *)

\* At most one process moves.
OthersStay(p) ==
  \A q \in Procs \ {p} : pc'[q] = pc[q] /\ next'[q] = next[q] /\ now'[q] = now[q]

Quiet == UNCHANGED <<pc, next, now, state, attempts>>

Begins(p) ==
  /\ pc[p] = "begin" /\ pc'[p] = "look"
  /\ now'[p] = clock /\ UNCHANGED <<next, state, attempts>>

Chooses(p) ==
  /\ pc[p] = "look" /\ pc'[p] = "mark" /\ state[Service(p)].day # now[p].day
  /\ UNCHANGED <<next, now, state, attempts>>

Goes(p) ==
  /\ pc[p] \in {"look", "failed", "completed"} /\ Advance(p) /\ UNCHANGED <<now, attempts>>
  /\ \/ state' = state /\ (~IsDue(p, Service(p)) \/ state[Service(p)].day = now[p].day)
     \/ \E st \in Statuses : SetState(Service(p), now[p].day, st)

Ends(p) ==
  /\ \/ pc[p] = "run" /\ pc'[p] \in {"failed", "completed"}
     \/ pc[p] = "rest" /\ pc'[p] = "wait"
  /\ UNCHANGED <<next, now, state, attempts>>

IsOut(p) ==
  /\ pc'[p] \notin {"look", "mark", "run", "failed", "completed", "rest", "wait", "off"}
  /\ UNCHANGED <<state, attempts>>
  /\ pc'[p] = "begin" => next'[p] = next[p] /\ pc[p] \in {"off", "wait"}

LEMMA StepKinds ==
  ASSUME TypeInv, [Next]_vars
  PROVE  /\ serves' = serves
         /\ \/ Quiet
            \/ \E p \in Procs :
                 /\ OthersStay(p)
                 /\ Begins(p) \/ Chooses(p) \/ Mark(p) \/ Goes(p) \/ Ends(p) \/ IsOut(p)
<1>0. pc \in [Procs -> PCs] /\ next \in [Procs -> 1 .. Len(Order)] /\ now \in [Procs -> Times]
  BY DEF TypeInv, TypeOK
<1> DEFINE Kinds ==
      /\ serves' = serves
      /\ \/ Quiet
         \/ \E p \in Procs :
              /\ OthersStay(p)
              /\ Begins(p) \/ Chooses(p) \/ Mark(p) \/ Goes(p) \/ Ends(p) \/ IsOut(p)
<1>1. ASSUME Tick \/ UNCHANGED vars \/ \E p \in Procs : Produce(p) PROVE Kinds
  BY <1>1 DEF Tick, Produce, vars, procVars, Quiet
<1>2. ASSUME NEW p \in Procs, Start(p) PROVE Kinds
  <2>1. pc'[p] \in {"begin", "refused"} /\ OthersStay(p)
    BY <1>0, <1>2 DEF Start, Goto, OthersStay
  <2> QED
    BY <1>2, <2>1 DEF Start, IsOut
<1>3. ASSUME NEW p \in Procs, Begin(p) PROVE Kinds
  BY <1>0, <1>3 DEF Begin, Goto, OthersStay, Begins
<1>4. ASSUME NEW p \in Procs, Stop(p) PROVE Kinds
  BY <1>4, IsGone DEF Stop, OthersStay, IsOut
<1>5. ASSUME NEW p \in Procs, Look(p) PROVE Kinds
  <2>1. CASE IsDue(p, Service(p)) /\ ~TriedToday(Service(p), now[p].day) /\ now[p].day \notin artifact[Service(p)]
    BY <1>0, <1>5, <2>1 DEF Look, Goto, OthersStay, Chooses, TriedToday
  <2>2. CASE ~(IsDue(p, Service(p)) /\ ~TriedToday(Service(p), now[p].day) /\ now[p].day \notin artifact[Service(p)])
    <3>1. Advance(p) /\ UNCHANGED <<serves, now, attempts>> /\ pc[p] = "look"
      BY <1>5, <2>2 DEF Look
    <3>2. OthersStay(p)
      BY <3>1, Advanced DEF OthersStay
    <3>3. CASE IsDue(p, Service(p)) /\ ~TriedToday(Service(p), now[p].day)
      BY <1>5, <2>2, <3>1, <3>2, <3>3 DEF Look, Goes, Statuses
    <3>4. CASE ~(IsDue(p, Service(p)) /\ ~TriedToday(Service(p), now[p].day))
      BY <1>5, <2>2, <3>1, <3>2, <3>4 DEF Look, Goes, TriedToday
    <3> QED
      BY <3>3, <3>4
  <2> QED
    BY <2>1, <2>2
<1>6. ASSUME NEW p \in Procs, Mark(p) PROVE Kinds
  BY <1>0, <1>6 DEF Mark, Goto, OthersStay
<1>7. ASSUME NEW p \in Procs, NEW outcome \in {"completed", "failed"}, EndRun(p, outcome) PROVE Kinds
  BY <1>0, <1>7 DEF EndRun, Goto, OthersStay, Ends
<1>8. ASSUME NEW p \in Procs, Record(p) PROVE Kinds
  <2>1. Advance(p) /\ UNCHANGED <<serves, now, attempts>> /\ pc[p] \in {"failed", "completed"}
    BY <1>8 DEF Record
  <2>2. OthersStay(p)
    BY <2>1, Advanced DEF OthersStay
  <2> QED
    BY <1>8, <2>1, <2>2 DEF Record, Goes, Statuses
<1>9. ASSUME NEW p \in Procs, EndPass(p) PROVE Kinds
  BY <1>0, <1>9 DEF EndPass, Goto, OthersStay, Ends
<1>10. ASSUME NEW p \in Procs, Wake(p) PROVE Kinds
  BY <1>0, <1>10 DEF Wake, Goto, OthersStay, IsOut
<1>11. ASSUME NEW p \in Procs, StartOnce(p) PROVE Kinds
  BY <1>0, <1>11 DEF StartOnce, Goto, OthersStay, IsOut
<1>12. ASSUME NEW p \in Procs, NEW ok \in BOOLEAN, EndOnce(p, ok) PROVE Kinds
  <2>1. CASE ok /\ next[p] < Len(serves[p])
    BY <1>0, <1>12, <2>1 DEF EndOnce, OthersStay, IsOut
  <2>2. CASE ~(ok /\ next[p] < Len(serves[p]))
    BY <1>12, <2>2, IsGone DEF EndOnce, OthersStay, IsOut
  <2> QED
    BY <2>1, <2>2
<1>13. ASSUME NEW p \in Procs, Crash(p) PROVE Kinds
  BY <1>13, IsGone DEF Crash, OthersStay, IsOut
<1>14. Kinds
  BY <1>1, <1>2, <1>3, <1>4, <1>5, <1>6, <1>7, <1>8, <1>9, <1>10, <1>11, <1>12, <1>13
     DEF Next, Step
<1> QED
  BY <1>14

\* Deployments do not change, and nothing that is read off them.
LEMMA DeploymentIsFixed ==
  ASSUME TypeInv, [Next]_vars
  PROVE  /\ \A p \in Procs : Path(p)' = Path(p) /\ Served(p)' = Served(p)
         /\ \A s : OneLock(s)' = OneLock(s)
<1>1. serves' = serves
  BY StepKinds
<1> QED
  BY <1>1 DEF Path, Served, OneLock

-----------------------------------------------------------------------------
(* The lock.                                                               *)

LEMMA LockStep ==
  ASSUME TypeInv, HoldsItsLock, [Next]_vars
  PROVE  HoldsItsLock'
<1>0. /\ pc \in [Procs -> PCs] /\ lock \in [Paths -> SUBSET Procs]
      /\ \A p \in Procs : Path(p) \in Paths
      /\ \A p \in Procs : Path(p)' = Path(p)
  BY Deployed, DeploymentIsFixed DEF TypeInv, TypeOK
<1>a. ASSUME NEW p \in Procs, lock' = lock, Supervising(p)' => Supervising(p),
             \A q \in Procs \ {p} : pc'[q] = pc[q]
      PROVE  HoldsItsLock'
  BY <1>0, <1>a DEF HoldsItsLock, Supervising
<1>b. ASSUME NEW p \in Procs, ~Supervising(p)', \A q \in Procs \ {p} : pc'[q] = pc[q],
             \A x \in Paths : lock'[x] = lock[x] \/ lock'[x] = lock[x] \ {p}
      PROVE  HoldsItsLock'
  <2> SUFFICES ASSUME NEW q \in Procs, Supervising(q)'
               PROVE  q \notin Once /\ lock'[Path(q)] = {q}
    BY <1>0 DEF HoldsItsLock
  <2>1. q # p /\ Supervising(q)
    BY <1>b DEF Supervising
  <2>2. q \notin Once /\ lock[Path(q)] = {q}
    BY <2>1 DEF HoldsItsLock
  <2>3. lock'[Path(q)] = lock[Path(q)] \/ lock'[Path(q)] = lock[Path(q)] \ {p}
    BY <1>0, <1>b
  <2> QED
    BY <2>1, <2>2, <2>3
<1>1. ASSUME Tick \/ UNCHANGED vars \/ \E p \in Procs : Produce(p) PROVE HoldsItsLock'
  BY <1>0, <1>1 DEF Tick, Produce, vars, procVars, HoldsItsLock, Supervising
<1>2. ASSUME NEW p \in Procs, Start(p) PROVE HoldsItsLock'
  <2>1. CASE lock[Path(p)] = {}
    <3>1. p \notin Once /\ pc' = [pc EXCEPT ![p] = "begin"] /\ lock' = [lock EXCEPT ![Path(p)] = {p}]
      BY <1>2, <2>1 DEF Start, Goto
    <3> SUFFICES ASSUME NEW q \in Procs, Supervising(q)'
                 PROVE  q \notin Once /\ lock'[Path(q)] = {q}
      BY <1>0 DEF HoldsItsLock
    <3>2. CASE q = p
      BY <1>0, <3>1, <3>2
    <3>3. CASE q # p
      <4>1. Supervising(q) /\ q \notin Once /\ lock[Path(q)] = {q}
        BY <1>0, <3>1, <3>3 DEF Supervising, HoldsItsLock
      <4>2. Path(q) # Path(p)
        BY <2>1, <4>1
      <4> QED
        BY <1>0, <3>1, <4>1, <4>2
    <3> QED
      BY <3>2, <3>3
  <2>2. CASE lock[Path(p)] # {}
    BY <1>0, <1>2, <2>2, <1>a DEF Start, Goto, Supervising
  <2> QED
    BY <2>1, <2>2
<1>3. ASSUME NEW p \in Procs, Begin(p) PROVE HoldsItsLock'
  BY <1>0, <1>3, <1>a DEF Begin, Goto, Supervising
<1>4. ASSUME NEW p \in Procs, Stop(p) PROVE HoldsItsLock'
  <2>1. ~Supervising(p)' /\ \A q \in Procs \ {p} : pc'[q] = pc[q]
    BY <1>4, IsGone DEF Stop, Supervising
  <2>2. \A x \in Paths : lock'[x] = lock[x] \/ lock'[x] = lock[x] \ {p}
    BY <1>0, <1>4 DEF Stop
  <2> QED
    BY <2>1, <2>2, <1>b
<1>5. ASSUME NEW p \in Procs, Look(p) PROVE HoldsItsLock'
  <2>1. lock' = lock /\ Supervising(p)
    BY <1>5 DEF Look, Supervising
  <2>2. \A q \in Procs \ {p} : pc'[q] = pc[q]
    BY <1>0, <1>5, Advanced DEF Look, Goto
  <2> QED
    BY <2>1, <2>2, <1>a
<1>6. ASSUME NEW p \in Procs, Mark(p) PROVE HoldsItsLock'
  BY <1>0, <1>6, <1>a DEF Mark, Goto, Supervising
<1>7. ASSUME NEW p \in Procs, NEW outcome \in {"completed", "failed"}, EndRun(p, outcome) PROVE HoldsItsLock'
  BY <1>0, <1>7, <1>a DEF EndRun, Goto, Supervising
<1>8. ASSUME NEW p \in Procs, Record(p) PROVE HoldsItsLock'
  BY <1>0, <1>8, <1>a, Advanced DEF Record, Supervising
<1>9. ASSUME NEW p \in Procs, EndPass(p) PROVE HoldsItsLock'
  BY <1>0, <1>9, <1>a DEF EndPass, Goto, Supervising
<1>10. ASSUME NEW p \in Procs, Wake(p) PROVE HoldsItsLock'
  BY <1>0, <1>10, <1>a DEF Wake, Goto, Supervising
<1>11. ASSUME NEW p \in Procs, StartOnce(p) PROVE HoldsItsLock'
  BY <1>0, <1>11, <1>a DEF StartOnce, Goto, Supervising
<1>12. ASSUME NEW p \in Procs, NEW ok \in BOOLEAN, EndOnce(p, ok) PROVE HoldsItsLock'
  <2>1. lock' = lock
    BY <1>12 DEF EndOnce
  <2>2. ~Supervising(p)' /\ \A q \in Procs \ {p} : pc'[q] = pc[q]
    BY <1>0, <1>12, IsGone DEF EndOnce, Supervising
  <2> QED
    BY <2>1, <2>2, <1>b
<1>13. ASSUME NEW p \in Procs, Crash(p) PROVE HoldsItsLock'
  <2>1. ~Supervising(p)' /\ \A q \in Procs \ {p} : pc'[q] = pc[q]
    BY <1>13, IsGone DEF Crash, Supervising
  <2>2. \A x \in Paths : lock'[x] = lock[x] \/ lock'[x] = lock[x] \ {p}
    BY <1>0, <1>13 DEF Crash
  <2> QED
    BY <2>1, <2>2, <1>b
<1> QED
  BY <1>1, <1>2, <1>3, <1>4, <1>5, <1>6, <1>7, <1>8, <1>9, <1>10, <1>11, <1>12, <1>13
     DEF Next, Step

\* Supervisors of a service that share its lock are one.
LEMMA OneSupervisor ==
  ASSUME TypeInv, HoldsItsLock, NEW s \in Services, OneLock(s),
         NEW p \in Procs, NEW q \in Procs, Supervising(p), Supervising(q),
         s \in Served(p), s \in Served(q)
  PROVE  p = q
<1>1. lock[Path(p)] = {p} /\ lock[Path(q)] = {q} /\ p \in Procs \ Once /\ q \in Procs \ Once
  BY DEF HoldsItsLock
<1>2. Path(p) = Path(q)
  BY <1>1 DEF OneLock
<1> QED
  BY <1>1, <1>2

-----------------------------------------------------------------------------
(* The passes.                                                             *)

\* A pass begins with the first service.
FirstAtRest == \A p \in Procs : pc[p] \in {"off", "begin", "rest", "wait"} => next[p] = 1

PassInv ==
  /\ TypeInv /\ HoldsItsLock /\ NothingIsAhead /\ FirstAtRest
  /\ StateOfThePass /\ AttemptsAreDated /\ NothingDueBehind

LEMMA DaysAreNumbers ==
  ASSUME TypeInv
  PROVE  /\ clock.day \in Nat
         /\ \A p \in Procs : now[p].day \in Days /\ now[p].day \in Nat
         /\ \A s \in Services : state[s].day \in Nat
         /\ \A s \in Services, d \in Days : attempts[<<s, d>>] \in Nat /\ d \in Nat
BY AuxAssumption DEF TypeInv, TypeOK, Times, Days

LEMMA FirstStep ==
  ASSUME TypeInv, FirstAtRest, [Next]_vars
  PROVE  FirstAtRest'
<1>1. CASE Quiet
  BY <1>1 DEF Quiet, FirstAtRest
<1>2. ASSUME NEW p \in Procs, OthersStay(p), Begins(p) \/ Chooses(p) \/ Ends(p) \/ IsOut(p)
      PROVE  FirstAtRest'
  BY <1>2 DEF OthersStay, Begins, Chooses, Ends, IsOut, FirstAtRest
<1>3. ASSUME NEW p \in Procs, OthersStay(p), Mark(p)
      PROVE  FirstAtRest'
  <2>1. pc'[p] = "run"
    BY <1>3 DEF Mark, Goto, TypeInv, TypeOK
  <2> QED
    BY <1>3, <2>1 DEF OthersStay, FirstAtRest
<1>4. ASSUME NEW p \in Procs, OthersStay(p), Goes(p)
      PROVE  FirstAtRest'
  BY <1>4, Advanced DEF OthersStay, Goes, FirstAtRest
<1> QED
  BY <1>1, <1>2, <1>3, <1>4, StepKinds

\* The clock only moves forward.
LEMMA ClockMoves ==
  ASSUME TypeInv, [Next]_vars
  PROVE  clock'.day \in Nat /\ clock.day <= clock'.day
<1>1. clock' = clock \/ clock' = [clock EXCEPT !.slot = @ + 1]
        \/ clock' = [day |-> clock.day + 1, slot |-> 0]
  BY DEF Next, Step, Tick, Start, Begin, Stop, Look, Mark, Produce, EndRun, Record, EndPass,
         Wake, StartOnce, EndOnce, Crash, vars
<1>2. clock \in Times /\ clock.day \in Nat
  BY DaysAreNumbers DEF TypeInv, TypeOK
<1>3. ASSUME clock' = [clock EXCEPT !.slot = @ + 1] PROVE clock'.day = clock.day
  BY <1>2, <1>3 DEF Times
<1> QED
  BY <1>1, <1>2, <1>3

\* A step leaves the state files alone or dates one of them with the pass.
LEMMA StateMoves ==
  ASSUME TypeInv, [Next]_vars
  PROVE  \/ state' = state
         \/ \E p \in Procs : /\ pc[p] \in {"look", "mark", "failed", "completed"}
                             /\ state'[Service(p)].day = now[p].day
                             /\ \A s \in Services \ {Service(p)} : state'[s] = state[s]
<1>1. \A p \in Procs : Service(p) \in Services /\ now[p].day \in Days
  BY AtServed, DaysAreNumbers
<1>2. ASSUME NEW p \in Procs, Mark(p)
      PROVE  /\ pc[p] = "mark" /\ state'[Service(p)].day = now[p].day
             /\ \A s \in Services \ {Service(p)} : state'[s] = state[s]
  BY <1>1, <1>2, StateUpdated DEF Mark, TypeInv, Statuses
<1>3. ASSUME NEW p \in Procs, Goes(p), state' # state
      PROVE  /\ pc[p] \in {"look", "failed", "completed"} /\ state'[Service(p)].day = now[p].day
             /\ \A s \in Services \ {Service(p)} : state'[s] = state[s]
  <2>1. PICK st \in Statuses : SetState(Service(p), now[p].day, st)
    BY <1>3 DEF Goes
  <2> QED
    BY <1>1, <1>3, <2>1, StateUpdated DEF Goes, TypeInv
<1> QED
  BY <1>2, <1>3, StepKinds DEF Quiet, Begins, Chooses, Ends, IsOut

\* The state of a service whose supervisors share a lock never goes back.
LEMMA StateForward ==
  ASSUME TypeInv, StateOfThePass, [Next]_vars, NEW s \in Services, OneLock(s)
  PROVE  state'[s].day \in Nat /\ state[s].day <= state'[s].day
<1>0. state[s].day \in Nat /\ \A p \in Procs : now[p].day \in Nat /\ Service(p) \in Served(p)
  BY DaysAreNumbers, AtServed
<1>1. CASE state' = state
  BY <1>0, <1>1
<1>2. ASSUME NEW p \in Procs, pc[p] \in {"look", "mark", "failed", "completed"},
             state'[Service(p)].day = now[p].day,
             \A x \in Services \ {Service(p)} : state'[x] = state[x]
      PROVE  state'[s].day \in Nat /\ state[s].day <= state'[s].day
  <2>1. CASE s = Service(p)
    BY <1>0, <1>2, <2>1 DEF StateOfThePass, InPass
  <2>2. CASE s # Service(p)
    BY <1>0, <1>2, <2>2
  <2> QED
    BY <2>1, <2>2
<1> QED
  BY <1>1, <1>2, StateMoves

LEMMA AheadStep ==
  ASSUME TypeInv, NothingIsAhead, [Next]_vars
  PROVE  NothingIsAhead'
<1>0. /\ clock.day \in Nat /\ clock'.day \in Nat /\ clock.day <= clock'.day
      /\ \A p \in Procs : now[p].day \in Nat /\ Service(p) \in Services
      /\ \A s \in Services : state[s].day \in Nat
  BY DaysAreNumbers, ClockMoves, AtServed
<1>1. \A s \in Services : state'[s].day <= clock'.day
  BY <1>0, StateMoves DEF NothingIsAhead, InPass
<1>2. ASSUME NEW q \in Procs, InPass(q)' PROVE now'[q].day <= clock'.day
  <2>1. CASE Quiet
    BY <1>0, <1>2, <2>1 DEF Quiet, NothingIsAhead, InPass
  <2>2. ASSUME NEW p \in Procs, OthersStay(p), p # q PROVE now'[q].day <= clock'.day
    BY <1>0, <1>2, <2>2 DEF OthersStay, NothingIsAhead, InPass
  <2>3. CASE Begins(q)
    BY <1>0, <2>3 DEF Begins
  <2>4. CASE Chooses(q) \/ Mark(q) \/ Goes(q) \/ Ends(q)
    <3>1. now' = now /\ InPass(q)
      BY <2>4 DEF Chooses, Mark, Goes, Ends, InPass
    <3> QED
      BY <1>0, <3>1 DEF NothingIsAhead
  <2>5. ~IsOut(q) \/ pc'[q] = "off"
    BY <1>2 DEF IsOut, InPass
  <2> QED
    BY <1>2, <2>1, <2>2, <2>3, <2>4, <2>5, StepKinds DEF InPass, IsOut
<1> QED
  BY <1>1, <1>2 DEF NothingIsAhead

LEMMA StateOfThePassStep ==
  ASSUME PassInv, [Next]_vars
  PROVE  StateOfThePass'
<1> SUFFICES ASSUME NEW q \in Procs, NEW s \in Services, InPass(q)', s \in Served(q)', OneLock(s)'
             PROVE  /\ state'[s].day <= now'[q].day
                    /\ pc'[q] = "mark" /\ s = Service(q)' => state'[s].day < now'[q].day
  BY DEF StateOfThePass
<1>0. /\ TypeInv /\ StateOfThePass /\ HoldsItsLock
      /\ s \in Served(q) /\ OneLock(s) /\ Service(q) \in Services
      /\ state[s].day \in Nat /\ state'[s].day \in Nat /\ now[q].day \in Nat
      /\ clock.day \in Nat /\ state[s].day <= clock.day
  BY DeploymentIsFixed, DaysAreNumbers, StateForward, AtServed DEF PassInv, NothingIsAhead
<1>s. serves' = serves
  BY <1>0, StepKinds
<1>1. ASSUME NEW p \in Procs, OthersStay(p), p # q,
             pc[p] \in {"look", "mark", "failed", "completed"}, InPass(q)
      PROVE  s # Service(p)
  <2>1. Supervising(p) /\ Supervising(q)
    BY <1>1 DEF Supervising, InPass
  <2>2. Service(p) \in Served(p)
    BY <1>0, AtServed
  <2> QED
    BY <1>0, <1>1, <2>1, <2>2, OneSupervisor
<1>2. CASE Quiet
  BY <1>0, <1>s, <1>2 DEF Quiet, StateOfThePass, InPass, Service
<1>3. ASSUME NEW p \in Procs, OthersStay(p), p # q,
             Begins(p) \/ Chooses(p) \/ Mark(p) \/ Goes(p) \/ Ends(p) \/ IsOut(p)
      PROVE  /\ state'[s].day <= now'[q].day
             /\ pc'[q] = "mark" /\ s = Service(q)' => state'[s].day < now'[q].day
  <2>1. InPass(q) /\ now'[q] = now[q] /\ pc'[q] = pc[q] /\ Service(q)' = Service(q)
    BY <1>3, <1>s DEF OthersStay, InPass, Service
  <2>2. state'[s] = state[s]
    <3>1. CASE Begins(p) \/ Chooses(p) \/ Ends(p) \/ IsOut(p)
      BY <3>1 DEF Begins, Chooses, Ends, IsOut
    <3>2. CASE Mark(p)
      <4>1. pc[p] = "mark" /\ SetState(Service(p), now[p].day, "running")
        BY <3>2 DEF Mark
      <4>2. s # Service(p)
        BY <1>1, <1>3, <2>1, <4>1
      <4> QED
        BY <1>0, <4>1, <4>2 DEF SetState, TypeInv, TypeOK
    <3>3. CASE Goes(p)
      <4>1. s # Service(p)
        BY <1>1, <1>3, <2>1, <3>3 DEF Goes
      <4> QED
        BY <1>0, <3>3, <4>1 DEF Goes, SetState, TypeInv, TypeOK
    <3> QED
      BY <1>3, <3>1, <3>2, <3>3
  <2> QED
    BY <1>0, <2>1, <2>2 DEF StateOfThePass
<1>4. CASE Begins(q)
  BY <1>0, <1>4 DEF Begins
<1>5. CASE Chooses(q)
  <2>1. Service(q)' = Service(q) /\ now' = now /\ state' = state /\ state[Service(q)].day # now[q].day
    BY <1>5, <1>s DEF Chooses, Service
  <2>2. InPass(q)
    BY <1>5 DEF Chooses, InPass
  <2> QED
    BY <1>0, <2>1, <2>2 DEF StateOfThePass
<1>6. CASE Mark(q)
  <2>1. now' = now /\ pc'[q] = "run" /\ InPass(q) /\ SetState(Service(q), now[q].day, "running")
    BY <1>6 DEF Mark, Goto, TypeInv, TypeOK, InPass, PassInv
  <2>2. now[q].day \in Days /\ "running" \in Statuses
    BY <1>0, DaysAreNumbers DEF Statuses
  <2>3. /\ state'[Service(q)].day = now[q].day
        /\ \A x \in Services \ {Service(q)} : state'[x] = state[x]
    BY <1>0, <2>1, <2>2, StateUpdated DEF TypeInv
  <2>4. state[s].day <= now[q].day
    BY <1>0, <2>1 DEF StateOfThePass
  <2> QED
    BY <1>0, <2>1, <2>3, <2>4
<1>7. CASE Goes(q)
  <2>1. now' = now /\ pc'[q] # "mark" /\ InPass(q)
    BY <1>0, <1>7, Advanced DEF Goes, InPass
  <2>2. now[q].day \in Days
    BY <1>0, DaysAreNumbers
  <2>3. CASE state' = state
    BY <1>0, <2>1, <2>3 DEF StateOfThePass
  <2>4. ASSUME NEW st \in Statuses, SetState(Service(q), now[q].day, st)
        PROVE  state'[s].day <= now[q].day
    <3>1. /\ state'[Service(q)].day = now[q].day
          /\ \A x \in Services \ {Service(q)} : state'[x] = state[x]
      BY <1>0, <2>2, <2>4, StateUpdated DEF TypeInv
    <3>2. state[s].day <= now[q].day
      BY <1>0, <2>1 DEF StateOfThePass
    <3> QED
      BY <1>0, <3>1, <3>2
  <2> QED
    BY <1>7, <2>1, <2>3, <2>4 DEF Goes
<1>8. CASE Ends(q)
  BY <1>0, <1>8 DEF Ends, InPass, StateOfThePass
<1>9. ~IsOut(q)
  BY DEF IsOut, InPass
<1> QED
  BY <1>0, <1>2, <1>3, <1>4, <1>5, <1>6, <1>7, <1>8, <1>9, StepKinds

LEMMA AttemptsStep ==
  ASSUME PassInv, [Next]_vars
  PROVE  AttemptsAreDated'
<1>0. TypeInv /\ StateOfThePass /\ AttemptsAreDated
  BY DEF PassInv
<1>1. CASE attempts' = attempts
  <2> SUFFICES ASSUME NEW s \in Services, NEW d \in Days, OneLock(s)
               PROVE  /\ attempts[<<s, d>>] <= 1
                      /\ attempts[<<s, d>>] = 1 => d <= state'[s].day
    BY <1>0, <1>1, DeploymentIsFixed DEF AttemptsAreDated
  <2>1. /\ attempts[<<s, d>>] <= 1
        /\ attempts[<<s, d>>] = 1 => d <= state[s].day
        /\ d \in Nat /\ state[s].day \in Nat /\ state'[s].day \in Nat /\ state[s].day <= state'[s].day
    BY <1>0, DaysAreNumbers, StateForward DEF AttemptsAreDated
  <2> QED
    BY <2>1
<1>2. ASSUME NEW p \in Procs, Mark(p)
      PROVE  AttemptsAreDated'
  <2> DEFINE m == Service(p)  today == now[p].day
  <2>1. m \in Services /\ m \in Served(p) /\ today \in Days /\ today \in Nat /\ InPass(p) /\ pc[p] = "mark"
    BY <1>0, <1>2, AtServed, DaysAreNumbers DEF Mark, InPass
  <2>2. \A x \in Services, e \in Days :
          attempts'[<<x, e>>] = IF x = m /\ e = today THEN attempts[<<m, today>>] + 1 ELSE attempts[<<x, e>>]
    BY <1>0, <1>2, <2>1, AttemptCounted DEF Mark, TypeInv
  <2>3. state'[m].day = today
    BY <1>0, <1>2, <2>1, StateUpdated DEF Mark, TypeInv, Statuses
  <2> SUFFICES ASSUME NEW s \in Services, NEW d \in Days, OneLock(s)
               PROVE  /\ attempts'[<<s, d>>] <= 1
                      /\ attempts'[<<s, d>>] = 1 => d <= state'[s].day
    BY <1>0, DeploymentIsFixed DEF AttemptsAreDated
  <2>4. /\ attempts[<<s, d>>] <= 1
        /\ attempts[<<s, d>>] = 1 => d <= state[s].day
        /\ d \in Nat /\ state[s].day \in Nat /\ state'[s].day \in Nat /\ state[s].day <= state'[s].day
        /\ attempts[<<s, d>>] \in Nat
    BY <1>0, DaysAreNumbers, StateForward DEF AttemptsAreDated
  <2>5. CASE s = m /\ d = today
    <3>1. state[m].day < today
      BY <1>0, <2>1, <2>5 DEF StateOfThePass
    <3>2. attempts[<<m, today>>] = 0
      BY <2>1, <2>4, <2>5, <3>1
    <3>3. attempts'[<<s, d>>] = 1
      BY <2>1, <2>2, <2>5, <3>2
    <3> QED
      BY <2>1, <2>3, <2>5, <3>3
  <2>6. CASE ~(s = m /\ d = today)
    <3>1. attempts'[<<s, d>>] = attempts[<<s, d>>]
      BY <2>1, <2>2, <2>6
    <3> QED
      BY <2>4, <3>1
  <2> QED
    BY <2>5, <2>6
<1> QED
  BY <1>0, <1>1, <1>2, StepKinds DEF Quiet, Begins, Chooses, Goes, Ends, IsOut

LEMMA NothingDueStep ==
  ASSUME PassInv, [Next]_vars
  PROVE  NothingDueBehind'
<1>0. TypeInv /\ StateOfThePass /\ NothingDueBehind /\ serves' = serves
  BY StepKinds DEF PassInv
<1> SUFFICES ASSUME NEW q \in Procs, NEW i \in 1 .. Len(serves[q]),
                    Behind(q, i)', OneLock(serves[q][i]), IsDue(q, serves[q][i])'
             PROVE  state'[serves[q][i]].day >= now'[q].day
  BY <1>0, DeploymentIsFixed DEF NothingDueBehind
<1> DEFINE s == serves[q][i]
<1>1. /\ s \in Services /\ s \in Served(q) /\ i \in Nat
      /\ next[q] \in 1 .. Len(serves[q]) /\ Len(serves[q]) \in Nat
  BY <1>0, Deployed DEF TypeInv, AtAService, Served, Range
<1>2. /\ state[s].day \in Nat /\ state'[s].day \in Nat /\ state[s].day <= state'[s].day
      /\ now[q].day \in Nat /\ now[q].day \in Days
  BY <1>0, <1>1, StateForward, DaysAreNumbers
<1>3. ASSUME now'[q] = now[q], Behind(q, i)
      PROVE  state'[s].day >= now'[q].day
  <2>1. state[s].day >= now[q].day
    BY <1>0, <1>3 DEF NothingDueBehind, IsDue
  <2> QED
    BY <1>2, <1>3, <2>1
<1>4. ASSUME Quiet \/ \E p \in Procs : p # q /\ OthersStay(p)
      PROVE  now'[q] = now[q] /\ Behind(q, i)
  BY <1>4 DEF Quiet, OthersStay, Behind
<1>5. ~Begins(q)
  <2> SUFFICES ASSUME Begins(q) PROVE FALSE
    OBVIOUS
  <2>1. next'[q] = 1 /\ pc'[q] = "look"
    BY DEF PassInv, FirstAtRest, Begins
  <2> QED
    BY <1>1, <2>1 DEF Behind
<1>6. ASSUME Chooses(q) \/ Mark(q) \/ Ends(q)
      PROVE  now'[q] = now[q] /\ Behind(q, i)
  <2>1. CASE Chooses(q) \/ Ends(q)
    BY <2>1 DEF Chooses, Ends, Behind
  <2>2. CASE Mark(q)
    <3>1. pc[q] = "mark" /\ pc'[q] = "run" /\ now' = now /\ next' = next
      BY <1>0, <2>2 DEF Mark, Goto, TypeInv, TypeOK
    <3> QED
      BY <3>1 DEF Behind
  <2> QED
    BY <1>6, <2>1, <2>2
<1>7. ASSUME Goes(q)
      PROVE  state'[s].day >= now'[q].day
  <2>1. now'[q] = now[q] /\ pc[q] \in {"look", "failed", "completed"}
    BY <1>7 DEF Goes
  <2>2. i <= next[q]
    <3>1. CASE next[q] < Len(serves[q]) /\ pc'[q] = "look" /\ next'[q] = next[q] + 1
      BY <1>1, <3>1 DEF Behind
    <3>2. CASE next[q] = Len(serves[q])
      BY <1>1, <3>2
    <3> QED
      BY <1>0, <1>7, <3>1, <3>2, Advanced DEF Goes
  <2>3. CASE i < next[q]
    BY <1>3, <2>1, <2>3 DEF Behind
  <2>4. CASE i = next[q]
    <3>1. s = Service(q)
      BY <2>4 DEF Service
    <3>2. state'[s].day = now[q].day
      <4>1. CASE state' = state /\ (~IsDue(q, Service(q)) \/ state[Service(q)].day = now[q].day)
        <5>1. IsDue(q, Service(q))
          BY <1>0, <2>1, <3>1 DEF IsDue
        <5> QED
          BY <3>1, <4>1, <5>1
      <4>2. ASSUME NEW st \in Statuses, SetState(Service(q), now[q].day, st)
            PROVE  state'[s].day = now[q].day
        <5>1. state'[Service(q)].day = now[q].day
          BY <1>0, <1>1, <1>2, <3>1, <4>2, StateUpdated DEF TypeInv
        <5> QED
          BY <3>1, <5>1
      <4> QED
        BY <1>7, <4>1, <4>2 DEF Goes
    <3> QED
      BY <1>2, <2>1, <3>2
  <2> QED
    BY <1>1, <2>2, <2>3, <2>4
<1>8. ~IsOut(q)
  BY DEF IsOut, Behind
<1> QED
  BY <1>0, <1>3, <1>4, <1>5, <1>6, <1>7, <1>8, StepKinds

-----------------------------------------------------------------------------
(* The theorems.                                                           *)

\* The inductive invariant: who supervises holds its lock alone, nothing is
\* dated ahead of the clock or of the pass that works on it, and an attempt
\* has left its date behind.
THEOREM PassInvHolds == Spec => []PassInv
<1>1. Init => PassInv
  <2> SUFFICES ASSUME Init PROVE PassInv
    OBVIOUS
  <2>1. TypeInv
    BY TypeInit
  <2>2. HoldsItsLock /\ FirstAtRest /\ NothingDueBehind /\ StateOfThePass
    BY DEF Init, HoldsItsLock, Supervising, FirstAtRest, NothingDueBehind, Behind, StateOfThePass, InPass
  <2>3. NothingIsAhead /\ AttemptsAreDated
    BY DEF Init, NothingIsAhead, AttemptsAreDated, InPass, Epoch
  <2> QED
    BY <2>1, <2>2, <2>3 DEF PassInv
<1>2. PassInv /\ [Next]_vars => PassInv'
  <2> SUFFICES ASSUME PassInv, [Next]_vars PROVE PassInv'
    OBVIOUS
  <2>1. TypeInv /\ HoldsItsLock /\ FirstAtRest /\ NothingIsAhead
    BY DEF PassInv
  <2>2. TypeInv'
    BY <2>1, TypeStep
  <2>3. HoldsItsLock'
    BY <2>1, LockStep
  <2>4. NothingIsAhead' /\ FirstAtRest'
    BY <2>1, AheadStep, FirstStep
  <2> QED
    BY <2>2, <2>3, <2>4, StateOfThePassStep, AttemptsStep, NothingDueStep DEF PassInv
<1> QED
  BY <1>1, <1>2, PTL DEF Spec

\* A service is started at most once a day by the supervisors that share its
\* lock, whatever stops, crashes, restarts and midnights lie between.
THEOREM OneAttemptPerDayHolds == Spec => []OneAttemptPerDay
<1>1. PassInv => OneAttemptPerDay
  BY DEF PassInv, AttemptsAreDated, OneAttemptPerDay
<1> QED
  BY <1>1, PassInvHolds, PTL

\* The state file of a service never returns to an older day.
THEOREM StateNeverGoesBackHolds == Spec => StateNeverGoesBack
<1>1. PassInv /\ [Next]_vars => [\A s \in Services : OneLock(s) => state'[s].day >= state[s].day]_vars
  <2> SUFFICES ASSUME PassInv, [Next]_vars, NEW s \in Services, OneLock(s)
               PROVE  state'[s].day >= state[s].day
    OBVIOUS
  <2>1. TypeInv /\ StateOfThePass
    BY DEF PassInv
  <2>2. state[s].day \in Nat
    BY <2>1, DaysAreNumbers
  <2> QED
    BY <2>1, <2>2, StateForward
<1> QED
  BY <1>1, PassInvHolds, PTL DEF Spec, StateNeverGoesBack

\* A pass ends with no service left that was due when it began.
THEOREM PassLeavesNothingDueHolds == Spec => []PassLeavesNothingDue
<1>1. PassInv => PassLeavesNothingDue
  <2> SUFFICES ASSUME PassInv, NEW p \in Procs, pc[p] = "wait",
                      NEW s \in Served(p), OneLock(s), IsDue(p, s)
               PROVE  state[s].day >= now[p].day
    BY DEF PassLeavesNothingDue
  <2>1. PICK i \in 1 .. Len(serves[p]) : s = serves[p][i]
    BY Deployed DEF PassInv, TypeInv, Served, Range
  <2> QED
    BY <2>1 DEF PassInv, NothingDueBehind, Behind
<1> QED
  BY <1>1, PassInvHolds, PTL

\* Two supervisors of the whole schedule never both run a service.
THEOREM OneChildAtATimeHolds == Spec => []OneChildAtATime
<1>1. PassInv => OneChildAtATime
  <2> SUFFICES ASSUME PassInv, NEW p \in Procs, NEW q \in Procs,
                      serves[p] = Order, serves[q] = Order, pc[p] = "run", pc[q] = "run"
               PROVE  p = q
    BY DEF OneChildAtATime
  <2>1. Path(p) = Auxiliary /\ Path(q) = Auxiliary
    BY DEF Path
  <2>2. lock[Path(p)] = {p} /\ lock[Path(q)] = {q}
    BY DEF PassInv, HoldsItsLock, Supervising
  <2> QED
    BY <2>1, <2>2
<1> QED
  BY <1>1, PassInvHolds, PTL

-----------------------------------------------------------------------------
(* Heartbeats: a sleep ends before the clock has moved twice.              *)

\* The heartbeat of a supervisor that sleeps is of now, or of the slot before
\* when the clock has moved since the pass began: then it wakes before the
\* clock moves again.
BeatIsRecent ==
  \A p \in Procs :
    pc[p] = "wait" =>
      \/ beat[Path(p)] = clock
      \/ /\ now[p] # clock /\ beat[Path(p)] \in Times
         /\ SlotsSince(beat[Path(p)]) = 1

\* The clock moves by one slot, across midnight too.
LEMMA TickIsOneSlot ==
  ASSUME clock \in Times, Tick
  PROVE  /\ clock' # clock
         /\ (clock'.day - clock.day) * (LastSlot + 1) + clock'.slot - clock.slot = 1
<1>1. /\ clock.day \in Nat /\ clock.slot \in 0 .. LastSlot /\ LastSlot \in Nat
      /\ clock = [day |-> clock.day, slot |-> clock.slot]
  BY AuxAssumption DEF Times, Days
<1>2. CASE clock.slot < LastSlot
  <2>1. clock' = [day |-> clock.day, slot |-> clock.slot + 1]
    BY <1>1, <1>2 DEF Tick
  <2>2. (clock.day - clock.day) * (LastSlot + 1) = 0
    BY <1>1
  <2> QED
    BY <1>1, <2>1, <2>2
<1>3. CASE ~(clock.slot < LastSlot)
  <2>1. clock' = [day |-> clock.day + 1, slot |-> 0] /\ clock.slot = LastSlot
    BY <1>1, <1>3 DEF Tick
  <2>2. (clock.day + 1 - clock.day) * (LastSlot + 1) = LastSlot + 1
    BY <1>1
  <2> QED
    BY <1>1, <2>1, <2>2
<1> QED
  BY <1>2, <1>3

\* Whoever writes a heartbeat writes the time; only a tick moves the clock.
LEMMA BeatsAreTheTime ==
  ASSUME TypeInv, [Next]_vars, ~Tick
  PROVE  clock' = clock /\ \A x \in Paths : beat'[x] = beat[x] \/ beat'[x] = clock
<1>1. ASSUME NEW P, Beat(P)
      PROVE  \A x \in Paths : beat'[x] = beat[x] \/ beat'[x] = clock
  BY <1>1 DEF Beat
<1> QED
  BY <1>1 DEF Next, Step, Start, Begin, Stop, Look, Mark, Produce, EndRun, Record, EndPass, Wake,
     StartOnce, EndOnce, Crash, vars

\* Only the end of a pass puts a supervisor to sleep.
LEMMA SleepsAfterBeat ==
  ASSUME TypeInv, [Next]_vars, NEW q \in Procs, pc'[q] = "wait"
  PROVE  EndPass(q) \/ (pc[q] = "wait" /\ now'[q] = now[q])
<1>0. pc \in [Procs -> PCs] /\ now \in [Procs -> Times]
  BY DEF TypeInv, TypeOK
<1>1. ASSUME NEW p \in Procs, p # q, OthersStay(p)
      PROVE  pc[q] = "wait" /\ now'[q] = now[q]
  BY <1>1 DEF OthersStay
<1>2. CASE Tick \/ UNCHANGED vars \/ \E p \in Procs : Produce(p)
  BY <1>2 DEF Tick, Produce, vars, procVars
<1>3. ASSUME NEW p \in Procs,
             \/ Start(p) \/ Begin(p) \/ Mark(p)
             \/ EndRun(p, "completed") \/ EndRun(p, "failed")
             \/ EndPass(p) \/ Wake(p) \/ StartOnce(p)
      PROVE  EndPass(q) \/ (pc[q] = "wait" /\ now'[q] = now[q])
  BY <1>0, <1>3 DEF Start, Begin, Mark, EndRun, EndPass, Wake, StartOnce, Goto
<1>4. ASSUME NEW p \in Procs, Gone(p)
      PROVE  pc[q] = "wait" /\ now'[q] = now[q]
  BY <1>4, IsGone
<1>5. ASSUME NEW p \in Procs, Advance(p), now' = now
      PROVE  pc[q] = "wait" /\ now'[q] = now[q]
  BY <1>5, Advanced
<1>6. ASSUME NEW p \in Procs, Look(p) \/ Record(p)
      PROVE  pc[q] = "wait" /\ now'[q] = now[q]
  <2>1. CASE Advance(p)
    BY <1>5, <1>6, <2>1 DEF Look, Record
  <2>2. CASE Goto(p, "mark") /\ now' = now
    BY <1>0, <2>2 DEF Goto
  <2> QED
    BY <1>6, <2>1, <2>2 DEF Look, Record
<1>7. ASSUME NEW p \in Procs, NEW ok \in BOOLEAN, Stop(p) \/ EndOnce(p, ok) \/ Crash(p)
      PROVE  pc[q] = "wait" /\ now'[q] = now[q]
  <2>1. CASE Gone(p)
    BY <1>4, <2>1
  <2>2. CASE UNCHANGED <<pc, now>>
    BY <2>2
  <2> QED
    BY <1>7, <2>1, <2>2 DEF Stop, EndOnce, Crash
<1> QED
  BY <1>2, <1>3, <1>6, <1>7 DEF Next, Step

LEMMA BeatStep ==
  ASSUME TypeInv, BeatIsRecent, [Next]_vars
  PROVE  BeatIsRecent'
<1>0. clock \in Times /\ serves' = serves /\ \A p \in Procs : Path(p) \in Paths
  BY StepKinds, Deployed DEF TypeInv, TypeOK
<1>p. \A p \in Procs : Path(p)' = Path(p)
  BY <1>0 DEF Path
<1> SUFFICES ASSUME NEW q \in Procs, pc'[q] = "wait"
             PROVE  \/ beat'[Path(q)] = clock'
                    \/ /\ now'[q] # clock' /\ beat'[Path(q)] \in Times
                       /\ SlotsSince(beat[Path(q)])' = 1
  BY <1>p DEF BeatIsRecent
<1>1. CASE Tick
  <2>1. pc[q] = "wait" /\ now' = now /\ beat' = beat
    BY <1>1 DEF Tick, procVars
  <2>2. now[q] = clock
    BY <1>1, <2>1 DEF Tick, Idle
  <2>3. beat[Path(q)] = clock
    BY <2>1, <2>2 DEF BeatIsRecent
  <2>4. /\ clock' # clock
        /\ (clock'.day - clock.day) * (LastSlot + 1) + clock'.slot - clock.slot = 1
    BY <1>0, <1>1, TickIsOneSlot
  <2>5. beat'[Path(q)'] = clock
    BY <1>p, <2>1, <2>3
  <2>6. SlotsSince(beat[Path(q)])' = 1
    BY <2>4, <2>5 DEF SlotsSince
  <2> QED
    BY <1>0, <1>p, <2>1, <2>2, <2>4, <2>5, <2>6
<1>2. CASE ~Tick
  <2>1. clock' = clock /\ (beat'[Path(q)] = beat[Path(q)] \/ beat'[Path(q)] = clock)
    BY <1>0, <1>2, BeatsAreTheTime
  <2>2. CASE EndPass(q)
    BY <1>0, <2>1, <2>2 DEF EndPass, Beat
  <2>3. CASE pc[q] = "wait" /\ now'[q] = now[q] /\ beat'[Path(q)] = beat[Path(q)]
    BY <1>p, <2>1, <2>3 DEF BeatIsRecent, SlotsSince
  <2> QED
    BY <2>1, <2>2, <2>3, SleepsAfterBeat
<1> QED
  BY <1>1, <1>2

\* A supervisor that sleeps has a fresh heartbeat, however long its services
\* ran, whatever stopped or restarted before, if a heartbeat stays fresh for a
\* slot (a sleep is of 300 seconds at most, a heartbeat fresh for 3600): its
\* health is bad only for a service that failed today.
THEOREM SleepingIsHealthyHolds ==
  ASSUME MaxAge > 0
  PROVE  Spec => []SleepingIsHealthy
<1>1. Init => TypeInv /\ BeatIsRecent
  BY TypeInit DEF Init, BeatIsRecent
<1>2. TypeInv /\ BeatIsRecent /\ [Next]_vars => (TypeInv /\ BeatIsRecent)'
  BY TypeStep, BeatStep
<1>3. TypeInv /\ BeatIsRecent => SleepingIsHealthy
  <2> SUFFICES ASSUME TypeInv, BeatIsRecent, NEW p \in Procs, pc[p] = "wait", ~Healthy(p)
               PROVE  \E s \in Services : state[s] = [day |-> clock.day, status |-> "failed"]
    BY DEF SleepingIsHealthy
  <2>1. clock.day \in Nat /\ clock.slot \in Nat /\ LastSlot \in Nat /\ MaxAge \in Nat
    BY AuxAssumption DEF TypeInv, TypeOK, Times, Days
  <2>2. Fresh(Path(p))
    <3>1. CASE beat[Path(p)] = clock
      <4>1. (clock.day - clock.day) * (LastSlot + 1) = 0
        BY <2>1
      <4>2. SlotsSince(beat[Path(p)]) = 0
        BY <2>1, <3>1, <4>1 DEF SlotsSince
      <4>3. clock # <<>>
        <5>1. clock \in Times
          BY DEF TypeInv, TypeOK
        <5> QED
          BY <5>1 DEF Times
      <4> QED
        BY <2>1, <3>1, <4>2, <4>3 DEF Fresh
    <3>2. CASE beat[Path(p)] \in Times /\ SlotsSince(beat[Path(p)]) = 1
      <4>1. beat[Path(p)] # <<>>
        BY <3>2 DEF Times
      <4> QED
        BY <2>1, <3>2, <4>1 DEF Fresh
    <3> QED
      BY <3>1, <3>2 DEF BeatIsRecent
  <2>3. serves[p] # Order => Path(p) \in Services
    <3> SUFFICES ASSUME serves[p] # Order PROVE Path(p) \in Services
      OBVIOUS
    <3>1. PICK s \in Services : serves[p] = <<s>>
      BY Deployed DEF TypeInv
    <3> QED
      BY <3>1 DEF Path
  <2>4. PICK s \in Services : state[s].day = clock.day /\ state[s].status = "failed"
    BY <2>2, <2>3 DEF Healthy
  <2>5. state[s] \in [day : Days \cup {0}, status : Statuses]
    BY DEF TypeInv, TypeOK
  <2> QED
    BY <2>4, <2>5
<1> QED
  BY <1>1, <1>2, <1>3, PTL DEF Spec

=============================================================================
