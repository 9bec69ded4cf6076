------------------------ MODULE SchedulerLockProofs ------------------------
(***************************************************************************)
(* Proofs about SchedulerLock, for any processes, pids and lock files.     *)
(***************************************************************************)
EXTENDS SchedulerLock, TLAPS

\* What a reader finds is a file or nothing.
LEMMA ReadableType ==
  ASSUME TypeOK
  PROVE  Readable \in Files \cup {None}
BY DEF TypeOK, Readable

\* The attempts are counted up to two, and the lock path holds a file of one of
\* them or what was found there.
THEOREM LockTypeCorrect == Spec => []TypeOK
<1>1. Init => TypeOK
  BY LockAssumption DEF Init, TypeOK, PCs, Tries, Files
<1>2. TypeOK /\ [Next]_vars => TypeOK'
  <2> SUFFICES ASSUME TypeOK, [Next]_vars PROVE TypeOK'
    OBVIOUS
  <2>a. Readable \in Files \cup {None}
    BY ReadableType
  <2>b. \A p \in Procs : <<p, try[p]>> \in Files
    BY DEF TypeOK, Files
  <2> USE DEF TypeOK, procVars, fileVars, Goto, At
  <2>1. ASSUME NEW p \in Procs, NEW n \in Pids, Boot(p, n) PROVE TypeOK'
    BY <2>1 DEF Boot, PCs
  <2>2. ASSUME NEW p \in Procs, Crash(p) PROVE TypeOK'
    BY <2>2 DEF Crash
  <2>3. ASSUME NEW p \in Procs, Create(p) PROVE TypeOK'
    BY <2>b, <2>3 DEF Create, PCs
  <2>4. ASSUME NEW p \in Procs, Write(p) PROVE TypeOK'
    BY <2>b, <2>4 DEF Write, PCs
  <2>5. ASSUME NEW p \in Procs, Read(p) PROVE TypeOK'
    BY <2>a, <2>5 DEF Read, PCs
  <2>6. ASSUME NEW p \in Procs, Diagnose(p) PROVE TypeOK'
    BY <2>a, <2>6 DEF Diagnose, PCs
  <2>7. ASSUME NEW p \in Procs, Decide(p) PROVE TypeOK'
    BY <2>7 DEF Decide, PCs
  <2>8. ASSUME NEW p \in Procs, Unlink(p) PROVE TypeOK'
    BY <2>8 DEF Unlink, PCs, Tries
  <2>9. ASSUME NEW p \in Procs, Stop(p) PROVE TypeOK'
    BY <2>9 DEF Stop, PCs
  <2>10. ASSUME NEW p \in Procs, ReleaseRead(p) PROVE TypeOK'
    BY <2>a, <2>10 DEF ReleaseRead, PCs
  <2>11. ASSUME NEW p \in Procs, ReleaseRemove(p) PROVE TypeOK'
    BY <2>11 DEF ReleaseRemove, PCs
  <2>12. CASE UNCHANGED vars
    BY <2>12 DEF vars
  <2> QED
    BY <2>1, <2>2, <2>3, <2>4, <2>5, <2>6, <2>7, <2>8, <2>9, <2>10, <2>11, <2>12
       DEF Next, Step
<1> QED
  BY <1>1, <1>2, PTL DEF Spec

-----------------------------------------------------------------------------

\* A process that has created its file and not given it up.
HasFile(p) == p \in up /\ pc[p] \in {"write", "own", "check", "remove"}

\* While nobody has removed a lock as an orphan, the file of a process that
\* has created one is the file at the path.
FileIsAtPath == unlinked = {} => \A p \in Procs : HasFile(p) => dir = <<p, try[p]>>

RaceInv == TypeOK /\ FileIsAtPath

\* A file of a process is not the absence of a file.
LEMMA FileIsThere ==
  ASSUME TypeOK, NEW p \in Procs
  PROVE  <<p, try[p]>> # None
BY LockAssumption DEF TypeOK, Files

\* Exclusive creation alone is sound: two schedulers run together only if a
\* lock was removed to recover it.
THEOREM RaceNeedsRecoveryHolds == Spec => []RaceNeedsRecovery
<1>1. Init => FileIsAtPath
  BY DEF Init, FileIsAtPath, HasFile
<1>2. RaceInv /\ [Next]_vars => FileIsAtPath'
  <2> SUFFICES ASSUME RaceInv, [Next]_vars, unlinked' = {}, NEW q \in Procs, HasFile(q)'
               PROVE  dir' = <<q, try'[q]>>
    BY DEF FileIsAtPath
  <2>a. TypeOK
    BY DEF RaceInv
  <2>b. /\ pc \in [Procs -> PCs] /\ try \in [Procs -> Tries]
        /\ up \subseteq Procs
    BY <2>a DEF TypeOK
  <2>c. <<q, try[q]>> # None
    BY <2>a, FileIsThere
  <2>d. unlinked = {}
    BY DEF Next, Step, Boot, Crash, Create, Write, Read, Diagnose, Decide, Unlink, Stop,
           ReleaseRead, ReleaseRemove, vars
  <2>e. HasFile(q) => dir = <<q, try[q]>>
    BY <2>d DEF RaceInv, FileIsAtPath
  <2>f. \A p \in Procs : HasFile(p) => dir = <<p, try[p]>>
    BY <2>d DEF RaceInv, FileIsAtPath
  <2> USE <2>b DEF HasFile, Goto, At, procVars, fileVars
  <2>1. ASSUME NEW p \in Procs, NEW n \in Pids, Boot(p, n) PROVE dir' = <<q, try'[q]>>
    BY <2>1, <2>e DEF Boot
  <2>2. ASSUME NEW p \in Procs, Crash(p) PROVE dir' = <<q, try'[q]>>
    BY <2>2, <2>e DEF Crash
  <2>3. ASSUME NEW p \in Procs, Create(p) PROVE dir' = <<q, try'[q]>>
    BY <2>3, <2>c, <2>e DEF Create
  <2>4. ASSUME NEW p \in Procs, Write(p) PROVE dir' = <<q, try'[q]>>
    BY <2>4, <2>e DEF Write
  <2>5. ASSUME NEW p \in Procs, Read(p) PROVE dir' = <<q, try'[q]>>
    BY <2>5, <2>e DEF Read
  <2>6. ASSUME NEW p \in Procs, Diagnose(p) PROVE dir' = <<q, try'[q]>>
    BY <2>6, <2>e DEF Diagnose
  <2>7. ASSUME NEW p \in Procs, Decide(p) PROVE dir' = <<q, try'[q]>>
    BY <2>7, <2>e DEF Decide
  <2>8. ASSUME NEW p \in Procs, Unlink(p) PROVE dir' = <<q, try'[q]>>
    <3>1. dir = None
      BY <2>8, <2>d DEF Unlink
    <3>2. ~HasFile(q)
      BY <3>1, <2>c, <2>e
    <3> QED
      BY <2>8, <3>2 DEF Unlink
  <2>9. ASSUME NEW p \in Procs, Stop(p) PROVE dir' = <<q, try'[q]>>
    BY <2>9, <2>e DEF Stop
  <2>10. ASSUME NEW p \in Procs, ReleaseRead(p) PROVE dir' = <<q, try'[q]>>
    BY <2>10, <2>e DEF ReleaseRead
  <2>11. ASSUME NEW p \in Procs, ReleaseRemove(p) PROVE dir' = <<q, try'[q]>>
    <3>1. q # p /\ HasFile(q) /\ UNCHANGED try
      BY <2>11 DEF ReleaseRemove
    <3>2. dir = <<p, try[p]>> /\ dir = <<q, try[q]>>
      BY <2>11, <2>f, <3>1 DEF ReleaseRemove
    <3> QED
      BY <3>1, <3>2
  <2>12. CASE UNCHANGED vars
    BY <2>12, <2>e DEF vars
  <2> QED
    BY <2>1, <2>2, <2>3, <2>4, <2>5, <2>6, <2>7, <2>8, <2>9, <2>10, <2>11, <2>12
       DEF Next, Step
<1>3. RaceInv => RaceNeedsRecovery
  <2> SUFFICES ASSUME RaceInv, unlinked = {}, NEW p \in Procs, NEW q \in Procs, Owns(p), Owns(q)
               PROVE  p = q
    BY DEF RaceNeedsRecovery, MutualExclusion
  <2>1. dir = <<p, try[p]>> /\ dir = <<q, try[q]>>
    BY DEF RaceInv, FileIsAtPath, HasFile, Owns
  <2> QED
    BY <2>1
<1> QED
  BY <1>1, <1>2, <1>3, LockTypeCorrect, PTL DEF Spec, RaceInv

-----------------------------------------------------------------------------
(* Starts together.                                                        *)

Creating == {"write", "own", "check", "remove", "exited"}
Deciding == {"create", "read", "diagnose", "decide", "unlink"}

\* Somebody has created a lock: nothing refuses it any more.
Created == \E q \in Procs : pc[q] \in Creating

\* The files found at the start are gone once a lock was created or removed.
OldFilesGo ==
  /\ {Legacy, Garbage} \subseteq written
  /\ dir \in {Legacy, Garbage} => ~Created /\ \A p \in Procs : try[p] = 1
  /\ dir = Garbage => \A p \in Procs : diagnosed[p] = None /\ pc[p] # "unlink"

\* A file of a process, at the path or in a diagnosis, was created.
FilesAreCreated ==
  /\ dir \in Procs \X Tries => Created
  /\ \A p \in Procs : diagnosed[p] \in Procs \X Tries => Created
  /\ \A p \in Procs : try[p] = 2 /\ pc[p] \in Deciding \ {"create"} => Created

\* What the two readings of a start have found.
ReadingsAgree ==
  \A p \in Procs :
    /\ diagnosed[p] # Garbage
    /\ pc[p] = "diagnose" /\ dir = Legacy => payload[p] = Legacy
    /\ pc[p] = "decide" /\ diagnosed[p] = Legacy => payload[p] = Legacy
    /\ pc[p] = "decide" /\ diagnosed[p] = None => Created \/ dir \in {None, Garbage}

StartedMoves == \A p \in Procs : p \in started <=> pc[p] # "off"

\* Why a start may be refused while no process has died: somebody has a lock,
\* or will take the legacy lock whose pid it has got.
Reason ==
  \/ Created
  \/ dir = Garbage
  \/ \E r \in up : pid[r] = LegacyPid /\ pc[r] \in Deciding

RefusedForReason == up = started /\ (\E p \in Procs : pc[p] = "refused") => Reason

BurstInv ==
  /\ TypeOK
  /\ OldFilesGo
  /\ FilesAreCreated
  /\ ReadingsAgree
  /\ StartedMoves
  /\ RefusedForReason

\* A lock that was created stays so.
LEMMA CreatedStays ==
  ASSUME TypeOK, StartedMoves, [Next]_vars, Created
  PROVE  Created'
<1> USE DEF TypeOK, Created, Creating, Goto, At, procVars, fileVars
<1>1. ASSUME NEW p \in Procs, NEW n \in Pids, Boot(p, n) PROVE Created'
  BY <1>1 DEF Boot, StartedMoves
<1>2. ASSUME NEW p \in Procs, Crash(p) PROVE Created'
  BY <1>2 DEF Crash
<1>3. ASSUME NEW p \in Procs, Create(p) PROVE Created'
  BY <1>3 DEF Create
<1>4. ASSUME NEW p \in Procs, Write(p) PROVE Created'
  BY <1>4 DEF Write
<1>5. ASSUME NEW p \in Procs, Read(p) PROVE Created'
  BY <1>5 DEF Read
<1>6. ASSUME NEW p \in Procs, Diagnose(p) PROVE Created'
  BY <1>6 DEF Diagnose
<1>7. ASSUME NEW p \in Procs, Decide(p) PROVE Created'
  BY <1>7 DEF Decide
<1>8. ASSUME NEW p \in Procs, Unlink(p) PROVE Created'
  BY <1>8 DEF Unlink
<1>9. ASSUME NEW p \in Procs, Stop(p) PROVE Created'
  BY <1>9 DEF Stop
<1>10. ASSUME NEW p \in Procs, ReleaseRead(p) PROVE Created'
  BY <1>10 DEF ReleaseRead
<1>11. ASSUME NEW p \in Procs, ReleaseRemove(p) PROVE Created'
  BY <1>11 DEF ReleaseRemove
<1>12. CASE UNCHANGED vars
  BY <1>12 DEF vars
<1> QED
  BY <1>1, <1>2, <1>3, <1>4, <1>5, <1>6, <1>7, <1>8, <1>9, <1>10, <1>11, <1>12
     DEF Next, Step

\* What a reader finds.
LEMMA ReadableCases ==
  ASSUME BurstInv
  PROVE  /\ Readable \in Files \cup {None}
         /\ dir = Legacy => Readable = Legacy
         /\ dir \in {None, Garbage} => Readable = None
         /\ Readable \in {dir, None} /\ Readable # Garbage
         /\ Readable \in Procs \X Tries => Created
         /\ Readable = None => Created \/ dir \in {None, Garbage}
<1>1. TypeOK /\ OldFilesGo /\ FilesAreCreated
  BY DEF BurstInv
<1> QED
  BY <1>1, LockAssumption DEF Readable, TypeOK, OldFilesGo, FilesAreCreated, Files

\* The steps that keep what was found and created, and the order of the starts.
LEMMA BurstStep ==
  ASSUME BurstInv, [Next]_vars, TypeOK'
  PROVE  BurstInv'
<1> DEFINE Goal == (OldFilesGo /\ FilesAreCreated /\ ReadingsAgree /\ StartedMoves /\ RefusedForReason)'
<1>a. TypeOK /\ OldFilesGo /\ FilesAreCreated /\ ReadingsAgree /\ StartedMoves /\ RefusedForReason
  BY DEF BurstInv
<1>b. Created => Created'
  BY <1>a, CreatedStays
<1>c. /\ Legacy # Garbage /\ Legacy # None /\ Garbage # None
      /\ Legacy \notin Procs \X Tries /\ Garbage \notin Procs \X Tries
      /\ None \notin Procs \X Tries
  BY LockAssumption DEF Files
<1>d. /\ pc \in [Procs -> PCs] /\ try \in [Procs -> Tries]
      /\ payload \in [Procs -> Files \cup {None}] /\ diagnosed \in [Procs -> Files \cup {None}]
      /\ pid \in [Procs -> Pids \cup {None}] /\ dir \in Files \cup {None}
      /\ up \subseteq started /\ started \subseteq Procs
  BY <1>a DEF TypeOK
<1> USE <1>c
<1>1. ASSUME NEW p \in Procs, NEW n \in Pids, Boot(p, n) PROVE Goal
  <2>1. OldFilesGo'
    BY <1>a, <1>b, <1>1
       DEF Boot, OldFilesGo, Created, Creating, TypeOK, Goto, At, procVars, fileVars
  <2>2. FilesAreCreated'
    BY <1>a, <1>b, <1>1
       DEF Boot, FilesAreCreated, Deciding, TypeOK, Goto, At, procVars, fileVars
  <2>3. ReadingsAgree'
    BY <1>a, <1>b, <1>1 DEF Boot, ReadingsAgree, TypeOK, Goto, At, procVars, fileVars
  <2>4. StartedMoves'
    BY <1>a, <1>b, <1>1 DEF Boot, StartedMoves, TypeOK, Goto, At, procVars, fileVars
  <2>5. RefusedForReason'
    <3> SUFFICES ASSUME up' = started', NEW q \in Procs, pc'[q] = "refused" PROVE Reason'
      BY DEF RefusedForReason
    <3>1. p \notin started /\ p \notin up /\ up' = up \cup {p} /\ started' = started \cup {p}
      BY <1>d, <1>1 DEF Boot
    <3>2. up = started
      <4>1. \A x \in started : x # p /\ x \in up'
        BY <3>1
      <4>2. \A x \in started : x \in up
        BY <3>1, <4>1
      <4> QED
        BY <1>d, <4>2
    <3>3. pc[q] = "refused"
      BY <1>d, <1>1 DEF Boot, Goto
    <3>4. Reason
      BY <1>a, <3>2, <3>3 DEF RefusedForReason
    <3>5. \A r \in up : pid'[r] = pid[r] /\ pc'[r] = pc[r]
      BY <1>d, <1>1, <3>1 DEF Boot, Goto
    <3>6. dir' = dir
      BY <1>1 DEF Boot, fileVars
    <3> QED
      BY <1>b, <3>1, <3>4, <3>5, <3>6 DEF Reason
  <2> QED
    BY <2>1, <2>2, <2>3, <2>4, <2>5
<1>2. ASSUME NEW p \in Procs, Crash(p) PROVE Goal
  <2>1. OldFilesGo'
    BY <1>a, <1>b, <1>2
       DEF Crash, OldFilesGo, Created, Creating, TypeOK, Goto, At, procVars, fileVars
  <2>2. FilesAreCreated'
    BY <1>a, <1>b, <1>2
       DEF Crash, FilesAreCreated, Deciding, TypeOK, Goto, At, procVars, fileVars
  <2>3. ReadingsAgree'
    BY <1>a, <1>b, <1>2 DEF Crash, ReadingsAgree, TypeOK, Goto, At, procVars, fileVars
  <2>4. StartedMoves'
    BY <1>a, <1>b, <1>2 DEF Crash, StartedMoves, TypeOK, Goto, At, procVars, fileVars
  <2>5. RefusedForReason'
    BY <1>a, <1>b, <1>2
       DEF Crash, RefusedForReason, Reason, StartedMoves, Deciding, TypeOK, Goto, At, procVars, fileVars
  <2> QED
    BY <2>1, <2>2, <2>3, <2>4, <2>5
<1>3. ASSUME NEW p \in Procs, Create(p) PROVE Goal
  <2>1. OldFilesGo'
    BY <1>a, <1>b, <1>3
       DEF Create, OldFilesGo, Created, Creating, TypeOK, Goto, At, procVars, fileVars
  <2>2. FilesAreCreated'
    <3>1. CASE dir = None
      <4>1. Created'
        BY <1>d, <1>3, <3>1 DEF Create, Goto, Created, Creating
      <4> QED
        BY <4>1 DEF FilesAreCreated
    <3>2. CASE dir # None
      <4>1. try[p] = 2 => Created
        BY <1>a, <1>d, <3>2 DEF OldFilesGo, FilesAreCreated, Files
      <4>2. UNCHANGED <<dir, try, diagnosed>> /\ pc' = [pc EXCEPT ![p] = "read"]
        BY <1>3, <3>2 DEF Create, Goto
      <4> QED
        BY <1>a, <1>b, <1>d, <4>1, <4>2 DEF FilesAreCreated, Deciding
    <3> QED
      BY <3>1, <3>2
  <2>3. ReadingsAgree'
    <3>1. UNCHANGED <<payload, diagnosed>>
      BY <1>3 DEF Create
    <3>2. \A q \in Procs : pc'[q] \in {"diagnose", "decide"} => pc[q] = pc'[q]
      BY <1>d, <1>3 DEF Create, Goto
    <3>3. CASE dir = None
      <4>1. Created' /\ dir' # Legacy
        BY <1>d, <1>3, <3>3 DEF Create, Goto, Created, Creating
      <4> QED
        BY <1>a, <3>1, <3>2, <4>1 DEF ReadingsAgree
    <3>4. CASE dir # None
      <4>1. dir' = dir
        BY <1>3, <3>4 DEF Create
      <4> QED
        BY <1>a, <1>b, <3>1, <3>2, <4>1 DEF ReadingsAgree
    <3> QED
      BY <3>3, <3>4
  <2>4. StartedMoves'
    BY <1>a, <1>b, <1>3 DEF Create, StartedMoves, TypeOK, Goto, At, procVars, fileVars
  <2>5. RefusedForReason'
    <3>1. CASE dir = None
      <4>1. Created'
        BY <1>d, <1>3, <3>1 DEF Create, Goto, Created, Creating
      <4> QED
        BY <4>1 DEF RefusedForReason, Reason
    <3>2. CASE dir # None
      <4>1. UNCHANGED <<up, started, pid, dir>> /\ pc' = [pc EXCEPT ![p] = "read"]
        BY <1>3, <3>2 DEF Create, Goto, procVars
      <4> QED
        BY <1>a, <1>b, <1>d, <4>1 DEF RefusedForReason, Reason, Deciding
    <3> QED
      BY <3>1, <3>2
  <2> QED
    BY <2>1, <2>2, <2>3, <2>4, <2>5
<1>4. ASSUME NEW p \in Procs, Write(p) PROVE Goal
  <2>1. OldFilesGo'
    BY <1>a, <1>b, <1>4
       DEF Write, OldFilesGo, Created, Creating, TypeOK, Goto, At, procVars, fileVars
  <2>2. FilesAreCreated'
    BY <1>a, <1>b, <1>4
       DEF Write, FilesAreCreated, Deciding, TypeOK, Goto, At, procVars, fileVars
  <2>3. ReadingsAgree'
    BY <1>a, <1>b, <1>4 DEF Write, ReadingsAgree, TypeOK, Goto, At, procVars, fileVars
  <2>4. StartedMoves'
    BY <1>a, <1>b, <1>4 DEF Write, StartedMoves, TypeOK, Goto, At, procVars, fileVars
  <2>5. RefusedForReason'
    BY <1>a, <1>b, <1>4
       DEF Write, RefusedForReason, Reason, StartedMoves, Deciding, TypeOK, Goto, At, procVars, fileVars
  <2> QED
    BY <2>1, <2>2, <2>3, <2>4, <2>5
<1>5. ASSUME NEW p \in Procs, Read(p) PROVE Goal
  <2>1. OldFilesGo'
    BY <1>a, <1>b, <1>5
       DEF Read, OldFilesGo, Created, Creating, TypeOK, Goto, At, procVars, fileVars
  <2>2. FilesAreCreated'
    BY <1>a, <1>b, <1>5
       DEF Read, FilesAreCreated, Deciding, TypeOK, Goto, At, procVars, fileVars
  <2>3. ReadingsAgree'
    <3>1. payload' = [payload EXCEPT ![p] = Readable] /\ pc' = [pc EXCEPT ![p] = "diagnose"]
      BY <1>5 DEF Read, Goto
    <3>2. UNCHANGED <<dir, diagnosed>>
      BY <1>5 DEF Read, fileVars
    <3>3. dir = Legacy => Readable = Legacy
      BY ReadableCases
    <3> QED
      BY <1>a, <1>b, <1>d, <3>1, <3>2, <3>3 DEF ReadingsAgree
  <2>4. StartedMoves'
    BY <1>a, <1>b, <1>5 DEF Read, StartedMoves, TypeOK, Goto, At, procVars, fileVars
  <2>5. RefusedForReason'
    BY <1>a, <1>b, <1>5
       DEF Read, RefusedForReason, Reason, StartedMoves, Deciding, TypeOK, Goto, At, procVars, fileVars
  <2> QED
    BY <2>1, <2>2, <2>3, <2>4, <2>5
<1>6. ASSUME NEW p \in Procs, Diagnose(p) PROVE Goal
  <2>1. OldFilesGo'
    <3>1. diagnosed' = [diagnosed EXCEPT ![p] = Readable] /\ pc' = [pc EXCEPT ![p] = "decide"]
      BY <1>6 DEF Diagnose, Goto
    <3>2. UNCHANGED <<dir, payload, try, written>> /\ pc[p] = "diagnose"
      BY <1>6 DEF Diagnose, fileVars, At
    <3> QED
      BY <1>a, <1>b, <1>d, <3>1, <3>2, ReadableCases DEF OldFilesGo, Created, Creating
  <2>2. FilesAreCreated'
    <3>1. diagnosed' = [diagnosed EXCEPT ![p] = Readable] /\ pc' = [pc EXCEPT ![p] = "decide"]
      BY <1>6 DEF Diagnose, Goto
    <3>2. UNCHANGED <<dir, payload, try, written>> /\ pc[p] = "diagnose"
      BY <1>6 DEF Diagnose, fileVars, At
    <3> QED
      BY <1>a, <1>b, <1>d, <3>1, <3>2, ReadableCases DEF FilesAreCreated, Deciding
  <2>3. ReadingsAgree'
    <3>1. diagnosed' = [diagnosed EXCEPT ![p] = Readable] /\ pc' = [pc EXCEPT ![p] = "decide"]
      BY <1>6 DEF Diagnose, Goto
    <3>2. UNCHANGED <<dir, payload, try, written>> /\ pc[p] = "diagnose"
      BY <1>6 DEF Diagnose, fileVars, At
    <3> QED
      BY <1>a, <1>b, <1>d, <3>1, <3>2, ReadableCases DEF ReadingsAgree
  <2>4. StartedMoves'
    BY <1>a, <1>b, <1>6 DEF Diagnose, StartedMoves, TypeOK, Goto, At, procVars, fileVars
  <2>5. RefusedForReason'
    BY <1>a, <1>b, <1>6
       DEF Diagnose, RefusedForReason, Reason, StartedMoves, Deciding, TypeOK, Goto, At, procVars, fileVars
  <2> QED
    BY <2>1, <2>2, <2>3, <2>4, <2>5
<1>7. ASSUME NEW p \in Procs, Decide(p) PROVE Goal
  <2>1. OldFilesGo'
    <3>1. dir = Garbage => MustRefuse(p)
      BY <1>a DEF OldFilesGo, MustRefuse
    <3>2. pc' = [pc EXCEPT ![p] = IF MustRefuse(p) THEN "refused" ELSE "unlink"]
      BY <1>7 DEF Decide, Goto
    <3>3. UNCHANGED <<dir, written, try, diagnosed>> /\ pc[p] = "decide"
      BY <1>7 DEF Decide, fileVars, At
    <3> HIDE DEF MustRefuse
    <3> QED
      BY <1>a, <1>d, <3>1, <3>2, <3>3 DEF OldFilesGo, Created, Creating
  <2>2. FilesAreCreated'
    BY <1>a, <1>b, <1>7
       DEF Decide, FilesAreCreated, Deciding, TypeOK, Goto, At, procVars, fileVars
  <2>3. ReadingsAgree'
    BY <1>a, <1>b, <1>7 DEF Decide, ReadingsAgree, TypeOK, Goto, At, procVars, fileVars
  <2>4. StartedMoves'
    BY <1>a, <1>b, <1>7 DEF Decide, StartedMoves, TypeOK, Goto, At, procVars, fileVars
  <2>5. RefusedForReason'
    <3>1. pc' = [pc EXCEPT ![p] = IF MustRefuse(p) THEN "refused" ELSE "unlink"]
      BY <1>7 DEF Decide, Goto
    <3>2. UNCHANGED <<up, started, pid, dir>> /\ p \in up /\ pc[p] = "decide"
      BY <1>7 DEF Decide, fileVars, procVars, At
    <3>3. CASE ~MustRefuse(p)
      BY <1>a, <1>b, <1>d, <3>1, <3>2, <3>3 DEF RefusedForReason, Reason, Deciding
    <3>4. CASE MustRefuse(p)
      <4> SUFFICES ASSUME up = started PROVE Reason'
        BY <3>2 DEF RefusedForReason
      <4>1. dir # None
        BY <3>4 DEF MustRefuse
      <4>2. CASE diagnosed[p] = None
        BY <1>a, <1>b, <3>2, <4>1, <4>2 DEF ReadingsAgree, Reason
      <4>3. CASE diagnosed[p] # None
        <5>1. OwnerAlive(diagnosed[p]) /\ ~MyPidIn(payload[p], p)
          BY <3>4, <4>3 DEF MustRefuse
        <5>2. CASE diagnosed[p] = Legacy
          <6>1. payload[p] = Legacy
            BY <1>a, <3>2, <5>2 DEF ReadingsAgree
          <6>2. pid[p] # LegacyPid
            BY <5>1, <6>1 DEF MyPidIn, PidIn
          <6>3. PICK r \in up : pid[r] = LegacyPid
            BY <5>1, <5>2 DEF OwnerAlive, PidAlive, PidIn
          <6>4. r # p /\ r \in Procs /\ pc[r] # "off" /\ pc'[r] = pc[r]
            BY <1>a, <1>d, <3>1, <6>2, <6>3 DEF StartedMoves
          <6>5. CASE pc[r] \in Deciding
            BY <3>2, <6>3, <6>4, <6>5 DEF Reason
          <6>6. CASE pc[r] \in Creating
            BY <1>b, <6>4, <6>6 DEF Reason, Created
          <6>7. CASE pc[r] = "refused"
            <7>1. Reason
              BY <1>a, <6>4, <6>7 DEF RefusedForReason
            <7>2. \A s \in up : pid[s] = LegacyPid => pc'[s] = pc[s]
              BY <1>d, <3>1, <6>2
            <7> QED
              BY <1>b, <3>2, <7>1, <7>2 DEF Reason
          <6> QED
            BY <1>d, <6>4, <6>5, <6>6, <6>7 DEF PCs, Deciding, Creating
        <5>4. CASE diagnosed[p] \in Procs \X Tries
          BY <1>a, <1>b, <5>4 DEF FilesAreCreated, Reason
        <5> QED
          BY <1>a, <1>d, <4>3, <5>2, <5>4 DEF Files, ReadingsAgree
      <4> QED
        BY <4>2, <4>3
    <3> QED
      BY <3>3, <3>4
  <2> QED
    BY <2>1, <2>2, <2>3, <2>4, <2>5
<1>8. ASSUME NEW p \in Procs, Unlink(p) PROVE Goal
  <2>1. OldFilesGo'
    BY <1>a, <1>b, <1>8
       DEF Unlink, OldFilesGo, Created, Creating, TypeOK, Goto, At, procVars, fileVars
  <2>2. FilesAreCreated'
    BY <1>a, <1>b, <1>8
       DEF Unlink, FilesAreCreated, Deciding, TypeOK, Goto, At, procVars, fileVars
  <2>3. ReadingsAgree'
    BY <1>a, <1>b, <1>8 DEF Unlink, ReadingsAgree, TypeOK, Goto, At, procVars, fileVars
  <2>4. StartedMoves'
    BY <1>a, <1>b, <1>8 DEF Unlink, StartedMoves, TypeOK, Goto, At, procVars, fileVars
  <2>5. RefusedForReason'
    <3>1. UNCHANGED <<up, started, pid>> /\ pc[p] = "unlink"
      BY <1>8 DEF Unlink, procVars, At
    <3>2. CASE try[p] = 1
      <4>1. pc' = [pc EXCEPT ![p] = "create"]
        BY <1>8, <3>2 DEF Unlink, Goto
      <4>2. dir # Garbage
        BY <1>a, <3>1 DEF OldFilesGo
      <4> QED
        BY <1>a, <1>b, <1>d, <3>1, <4>1, <4>2 DEF RefusedForReason, Reason, Deciding
    <3>3. CASE try[p] # 1
      BY <1>a, <1>b, <1>d, <3>1, <3>3
         DEF FilesAreCreated, Deciding, RefusedForReason, Reason, Tries
    <3> QED
      BY <3>2, <3>3
  <2> QED
    BY <2>1, <2>2, <2>3, <2>4, <2>5
<1>9. ASSUME NEW p \in Procs, Stop(p) PROVE Goal
  <2>1. OldFilesGo'
    BY <1>a, <1>b, <1>9
       DEF Stop, OldFilesGo, Created, Creating, TypeOK, Goto, At, procVars, fileVars
  <2>2. FilesAreCreated'
    BY <1>a, <1>b, <1>9
       DEF Stop, FilesAreCreated, Deciding, TypeOK, Goto, At, procVars, fileVars
  <2>3. ReadingsAgree'
    BY <1>a, <1>b, <1>9 DEF Stop, ReadingsAgree, TypeOK, Goto, At, procVars, fileVars
  <2>4. StartedMoves'
    BY <1>a, <1>b, <1>9 DEF Stop, StartedMoves, TypeOK, Goto, At, procVars, fileVars
  <2>5. RefusedForReason'
    BY <1>a, <1>b, <1>9
       DEF Stop, RefusedForReason, Reason, StartedMoves, Deciding, TypeOK, Goto, At, procVars, fileVars
  <2> QED
    BY <2>1, <2>2, <2>3, <2>4, <2>5
<1>10. ASSUME NEW p \in Procs, ReleaseRead(p) PROVE Goal
  <2>1. OldFilesGo'
    BY <1>a, <1>b, <1>10
       DEF ReleaseRead, OldFilesGo, Created, Creating, TypeOK, Goto, At, procVars, fileVars
  <2>2. FilesAreCreated'
    BY <1>a, <1>b, <1>10
       DEF ReleaseRead, FilesAreCreated, Deciding, TypeOK, Goto, At, procVars, fileVars
  <2>3. ReadingsAgree'
    BY <1>a, <1>b, <1>10 DEF ReleaseRead, ReadingsAgree, TypeOK, Goto, At, procVars, fileVars
  <2>4. StartedMoves'
    BY <1>a, <1>b, <1>10 DEF ReleaseRead, StartedMoves, TypeOK, Goto, At, procVars, fileVars
  <2>5. RefusedForReason'
    BY <1>a, <1>b, <1>10
       DEF ReleaseRead, RefusedForReason, Reason, StartedMoves, Deciding, TypeOK, Goto, At, procVars, fileVars
  <2> QED
    BY <2>1, <2>2, <2>3, <2>4, <2>5
<1>11. ASSUME NEW p \in Procs, ReleaseRemove(p) PROVE Goal
  <2>1. OldFilesGo'
    BY <1>a, <1>b, <1>11
       DEF ReleaseRemove, OldFilesGo, Created, Creating, TypeOK, Goto, At, procVars, fileVars
  <2>2. FilesAreCreated'
    BY <1>a, <1>b, <1>11
       DEF ReleaseRemove, FilesAreCreated, Deciding, TypeOK, Goto, At, procVars, fileVars
  <2>3. ReadingsAgree'
    BY <1>a, <1>b, <1>11 DEF ReleaseRemove, ReadingsAgree, TypeOK, Goto, At, procVars, fileVars
  <2>4. StartedMoves'
    BY <1>a, <1>b, <1>11 DEF ReleaseRemove, StartedMoves, TypeOK, Goto, At, procVars, fileVars
  <2>5. RefusedForReason'
    <3>1. Created
      BY <1>11 DEF ReleaseRemove, At, Created, Creating
    <3> QED
      BY <1>b, <3>1 DEF RefusedForReason, Reason
  <2> QED
    BY <2>1, <2>2, <2>3, <2>4, <2>5
<1>12. ASSUME UNCHANGED vars PROVE Goal
  <2>1. OldFilesGo' /\ FilesAreCreated'
    BY <1>a, <1>12 DEF vars, OldFilesGo, FilesAreCreated, Created
  <2>2. ReadingsAgree' /\ StartedMoves'
    BY <1>a, <1>12 DEF vars, ReadingsAgree, StartedMoves, Created
  <2>3. RefusedForReason'
    BY <1>a, <1>12 DEF vars, RefusedForReason, Reason, Created
  <2> QED
    BY <2>1, <2>2, <2>3
<1> QED
  BY <1>1, <1>2, <1>3, <1>4, <1>5, <1>6, <1>7, <1>8, <1>9, <1>10, <1>11, <1>12
     DEF Next, Step, BurstInv

\* Starts that decide together leave somebody running: as long as no process
\* has died or stopped, not everybody is refused, unless the path holds text
\* that is no lock.
THEOREM BurstLeavesASchedulerHolds == Spec => []BurstLeavesAScheduler
<1>1. Init => OldFilesGo /\ FilesAreCreated /\ ReadingsAgree /\ StartedMoves /\ RefusedForReason
  <2> SUFFICES ASSUME Init
               PROVE  /\ OldFilesGo /\ FilesAreCreated /\ ReadingsAgree
                      /\ StartedMoves /\ RefusedForReason
    OBVIOUS
  <2>1. \A p \in Procs : pc[p] = "off" /\ try[p] = 1 /\ diagnosed[p] = None
    BY DEF Init
  <2>2. ~Created
    BY <2>1 DEF Created, Creating
  <2>3. dir \in {None, Legacy, Garbage} /\ written = {Legacy, Garbage} /\ started = {}
    BY LockAssumption DEF Init
  <2> QED
    BY <2>1, <2>2, <2>3, LockAssumption
      
          DEF OldFilesGo, FilesAreCreated, ReadingsAgree, StartedMoves, RefusedForReason, Deciding, Files
<1>2. BurstInv => BurstLeavesAScheduler
  <2> SUFFICES ASSUME BurstInv, started # {}, up = started, dir # Garbage,
                      \A p \in started : pc[p] = "refused"
               PROVE  FALSE
    BY DEF BurstLeavesAScheduler
  <2>1. Reason
    BY DEF BurstInv, TypeOK, RefusedForReason
  <2> QED
    BY <2>1 DEF BurstInv, StartedMoves, Reason, Created, Creating, Deciding, TypeOK
<1>3. BurstInv /\ [Next]_vars /\ TypeOK' => BurstInv'
  BY BurstStep
<1> QED
  BY <1>1, <1>2, <1>3, LockTypeCorrect, PTL DEF Spec, BurstInv

-----------------------------------------------------------------------------
(* A start on its own.                                                     *)

\* A file that is no lock, or was left empty, and nobody who will change it.
DeadEnd ==
  /\ dir # None /\ Readable = None
  /\ \A q \in up : /\ pc[q] \in {"create", "read", "diagnose", "decide", "refused"}
                   /\ pc[q] = "decide" => diagnosed[q] = None

\* A process that has never seen another one running finds what it left, and
\* creates the lock at its second attempt.
LoneReads ==
  \A p \in alone \cap up :
    /\ up = {p}
    /\ pc[p] \in {"diagnose", "decide"} => payload[p] = Readable
    /\ pc[p] = "decide" => diagnosed[p] = Readable
    /\ try[p] = 2 => /\ pc[p] \notin {"read", "diagnose", "decide", "unlink"}
                     /\ pc[p] = "create" => dir = None

LoneRefused ==
  \A p \in alone : pc[p] = "refused" => diagnosed[p] = None /\ DeadEnd

FirstTry ==
  /\ alone \subseteq started
  /\ \A p \in Procs : p \notin started => try[p] = 1 /\ pc[p] = "off"

LoneInv == TypeOK /\ FirstTry /\ LoneReads /\ LoneRefused

\* At a dead end every step leaves the path alone.
LEMMA DeadEndStays ==
  ASSUME TypeOK, DeadEnd, [Next]_vars
  PROVE  DeadEnd'
<1> USE DEF TypeOK, DeadEnd, Readable, Goto, At, procVars, fileVars
<1>1. ASSUME NEW p \in Procs, NEW n \in Pids, Boot(p, n) PROVE DeadEnd'
  BY <1>1 DEF Boot
<1>2. ASSUME NEW p \in Procs, Crash(p) PROVE DeadEnd'
  BY <1>2 DEF Crash
<1>3. ASSUME NEW p \in Procs, Create(p) PROVE DeadEnd'
  BY <1>3 DEF Create
<1>4. ASSUME NEW p \in Procs, Write(p) PROVE DeadEnd'
  BY <1>4 DEF Write
<1>5. ASSUME NEW p \in Procs, Read(p) PROVE DeadEnd'
  BY <1>5 DEF Read
<1>6. ASSUME NEW p \in Procs, Diagnose(p) PROVE DeadEnd'
  BY <1>6 DEF Diagnose
<1>7. ASSUME NEW p \in Procs, Decide(p) PROVE DeadEnd'
  BY <1>7 DEF Decide, MustRefuse
<1>8. ASSUME NEW p \in Procs, Unlink(p) PROVE DeadEnd'
  BY <1>8 DEF Unlink
<1>9. ASSUME NEW p \in Procs, Stop(p) PROVE DeadEnd'
  BY <1>9 DEF Stop
<1>10. ASSUME NEW p \in Procs, ReleaseRead(p) PROVE DeadEnd'
  BY <1>10 DEF ReleaseRead
<1>11. ASSUME NEW p \in Procs, ReleaseRemove(p) PROVE DeadEnd'
  BY <1>11 DEF ReleaseRemove
<1>12. CASE UNCHANGED vars
  BY <1>12 DEF vars
<1> QED
  BY <1>1, <1>2, <1>3, <1>4, <1>5, <1>6, <1>7, <1>8, <1>9, <1>10, <1>11, <1>12
     DEF Next, Step

\* A lone start is refused for what it cannot read only: a lock it can read
\* names a process, and no other one runs.
LEMMA LoneDecides ==
  ASSUME LoneInv, NEW p \in alone, Decide(p), MustRefuse(p)
  PROVE  diagnosed[p] = None /\ dir # None /\ Readable = None /\ up = {p}
<1>1. p \in up /\ pc[p] = "decide"
  BY DEF Decide, At
<1>2. up = {p} /\ payload[p] = Readable /\ diagnosed[p] = Readable
  BY <1>1 DEF LoneInv, LoneReads
<1>3. ASSUME diagnosed[p] # None PROVE FALSE
  <2>1. OwnerAlive(diagnosed[p]) /\ ~MyPidIn(diagnosed[p], p)
    BY <1>2, <1>3 DEF MustRefuse
  <2> QED
    BY <1>2, <1>3, <2>1 DEF OwnerAlive, PidAlive, MyPidIn
<1> QED
  BY <1>2, <1>3 DEF MustRefuse

\* Every step keeps the invariant of a lone start, its own recovery and what its
\* predecessors left included.
LEMMA LoneStep ==
  ASSUME LoneInv, [Next]_vars, TypeOK'
  PROVE  LoneInv'
<1> DEFINE Goal == FirstTry' /\ LoneReads' /\ LoneRefused'
<1>a. TypeOK /\ FirstTry /\ LoneReads /\ LoneRefused
  BY DEF LoneInv
<1>b. DeadEnd => DeadEnd'
  BY <1>a, DeadEndStays
<1>d. /\ pc \in [Procs -> PCs] /\ try \in [Procs -> Tries]
      /\ payload \in [Procs -> Files \cup {None}] /\ diagnosed \in [Procs -> Files \cup {None}]
      /\ up \subseteq started /\ started \subseteq Procs /\ alone \subseteq Procs
  BY <1>a DEF TypeOK
<1> USE DEF Goto, At, procVars, fileVars
<1>1. ASSUME NEW p \in Procs, NEW n \in Pids, Boot(p, n) PROVE Goal
  <2>1. FirstTry'
    BY <1>a, <1>d, <1>1 DEF Boot, FirstTry
  <2>2. LoneReads'
    BY <1>a, <1>d, <1>1 DEF Boot, LoneReads, FirstTry, Readable
  <2>3. LoneRefused'
    BY <1>a, <1>b, <1>d, <1>1 DEF Boot, LoneRefused, FirstTry
  <2> QED
    BY <2>1, <2>2, <2>3
<1>2. ASSUME NEW p \in Procs, Crash(p) PROVE Goal
  <2>1. FirstTry'
    BY <1>a, <1>d, <1>2 DEF Crash, FirstTry
  <2>2. LoneReads'
    BY <1>a, <1>d, <1>2 DEF Crash, LoneReads, FirstTry, Readable
  <2>3. LoneRefused'
    BY <1>a, <1>b, <1>d, <1>2 DEF Crash, LoneRefused, FirstTry
  <2> QED
    BY <2>1, <2>2, <2>3
<1>3. ASSUME NEW p \in Procs, Create(p) PROVE Goal
  <2>1. FirstTry'
    BY <1>a, <1>d, <1>3 DEF Create, FirstTry
  <2>2. LoneReads'
    BY <1>a, <1>d, <1>3 DEF Create, LoneReads, FirstTry, Readable
  <2>3. LoneRefused'
    BY <1>a, <1>b, <1>d, <1>3 DEF Create, LoneRefused, FirstTry
  <2> QED
    BY <2>1, <2>2, <2>3
<1>4. ASSUME NEW p \in Procs, Write(p) PROVE Goal
  <2>1. FirstTry'
    BY <1>a, <1>d, <1>4 DEF Write, FirstTry
  <2>2. LoneReads'
    BY <1>a, <1>d, <1>4 DEF Write, LoneReads, FirstTry, Readable
  <2>3. LoneRefused'
    BY <1>a, <1>b, <1>d, <1>4 DEF Write, LoneRefused, FirstTry
  <2> QED
    BY <2>1, <2>2, <2>3
<1>5. ASSUME NEW p \in Procs, Read(p) PROVE Goal
  <2>1. FirstTry'
    BY <1>a, <1>d, <1>5 DEF Read, FirstTry
  <2>2. LoneReads'
    BY <1>a, <1>d, <1>5 DEF Read, LoneReads, FirstTry, Readable
  <2>3. LoneRefused'
    BY <1>a, <1>b, <1>d, <1>5 DEF Read, LoneRefused, FirstTry
  <2> QED
    BY <2>1, <2>2, <2>3
<1>6. ASSUME NEW p \in Procs, Diagnose(p) PROVE Goal
  <2>1. FirstTry'
    BY <1>a, <1>d, <1>6 DEF Diagnose, FirstTry
  <2>2. LoneReads'
    BY <1>a, <1>d, <1>6 DEF Diagnose, LoneReads, FirstTry, Readable
  <2>3. LoneRefused'
    BY <1>a, <1>b, <1>d, <1>6 DEF Diagnose, LoneRefused, FirstTry
  <2> QED
    BY <2>1, <2>2, <2>3
<1>7. ASSUME NEW p \in Procs, Decide(p) PROVE Goal
  <2>1. FirstTry'
    BY <1>a, <1>d, <1>7 DEF Decide, FirstTry
  <2>2. LoneReads'
    BY <1>a, <1>d, <1>7 DEF Decide, LoneReads, FirstTry, Readable
  <2>3. LoneRefused'
    <3> SUFFICES ASSUME NEW q \in alone, pc'[q] = "refused"
                 PROVE  diagnosed[q] = None /\ DeadEnd'
      BY <1>7 DEF Decide, LoneRefused
    <3>1. CASE pc[q] = "refused"
      BY <1>a, <1>b, <3>1 DEF LoneRefused
    <3>2. CASE pc[q] # "refused"
      <4>1. q = p /\ MustRefuse(p)
        BY <1>d, <1>7, <3>2 DEF Decide
      <4>2. diagnosed[q] = None /\ dir # None /\ Readable = None /\ up = {q}
        BY <1>7, <4>1, LoneDecides
      <4>3. UNCHANGED <<dir, written, up, diagnosed>>
        BY <1>7 DEF Decide
      <4> QED
        BY <4>2, <4>3 DEF DeadEnd, Readable
    <3> QED
      BY <3>1, <3>2
  <2> QED
    BY <2>1, <2>2, <2>3
<1>8. ASSUME NEW p \in Procs, Unlink(p) PROVE Goal
  <2>1. FirstTry'
    BY <1>a, <1>d, <1>8 DEF Unlink, FirstTry
  <2>2. LoneReads'
    BY <1>a, <1>d, <1>8 DEF Unlink, LoneReads, FirstTry, Readable
  <2>3. LoneRefused'
    <3>1. \A q \in alone : pc'[q] = "refused" => pc[q] = "refused"
      BY <1>a, <1>d, <1>8 DEF Unlink, LoneReads, Tries
    <3> QED
      BY <1>a, <1>b, <1>8, <3>1 DEF Unlink, LoneRefused
  <2> QED
    BY <2>1, <2>2, <2>3
<1>9. ASSUME NEW p \in Procs, Stop(p) PROVE Goal
  <2>1. FirstTry'
    BY <1>a, <1>d, <1>9 DEF Stop, FirstTry
  <2>2. LoneReads'
    BY <1>a, <1>d, <1>9 DEF Stop, LoneReads, FirstTry, Readable
  <2>3. LoneRefused'
    BY <1>a, <1>b, <1>d, <1>9 DEF Stop, LoneRefused, FirstTry
  <2> QED
    BY <2>1, <2>2, <2>3
<1>10. ASSUME NEW p \in Procs, ReleaseRead(p) PROVE Goal
  <2>1. FirstTry'
    BY <1>a, <1>d, <1>10 DEF ReleaseRead, FirstTry
  <2>2. LoneReads'
    BY <1>a, <1>d, <1>10 DEF ReleaseRead, LoneReads, FirstTry, Readable
  <2>3. LoneRefused'
    BY <1>a, <1>b, <1>d, <1>10 DEF ReleaseRead, LoneRefused, FirstTry
  <2> QED
    BY <2>1, <2>2, <2>3
<1>11. ASSUME NEW p \in Procs, ReleaseRemove(p) PROVE Goal
  <2>1. FirstTry'
    BY <1>a, <1>d, <1>11 DEF ReleaseRemove, FirstTry
  <2>2. LoneReads'
    BY <1>a, <1>d, <1>11 DEF ReleaseRemove, LoneReads, FirstTry, Readable
  <2>3. LoneRefused'
    BY <1>a, <1>b, <1>d, <1>11 DEF ReleaseRemove, LoneRefused, FirstTry
  <2> QED
    BY <2>1, <2>2, <2>3
<1>12. ASSUME UNCHANGED vars PROVE Goal
  BY <1>a, <1>b, <1>12 DEF vars, FirstTry, LoneReads, LoneRefused, Readable
<1> QED
  BY <1>1, <1>2, <1>3, <1>4, <1>5, <1>6, <1>7, <1>8, <1>9, <1>10, <1>11, <1>12
     DEF Next, Step, LoneInv

\* A scheduler beside which no other process runs is never refused by a lock that
\* can be read, whatever process it names; it is refused by a file that has no
\* readable content, the one that a predecessor left empty among them, and from
\* then on that file stays and nobody fills it.
THEOREM LoneStartAcquiresHolds == Spec => []LoneStartAcquires
<1>1. Init => FirstTry /\ LoneReads /\ LoneRefused
  BY DEF Init, FirstTry, LoneReads, LoneRefused
<1>2. LoneInv => LoneStartAcquires
  BY DEF LoneInv, LoneRefused, DeadEnd, LoneStartAcquires, Unreadable
<1>3. LoneInv /\ [Next]_vars /\ TypeOK' => LoneInv'
  BY LoneStep
<1> QED
  BY <1>1, <1>2, <1>3, LockTypeCorrect, PTL DEF Spec, LoneInv

=============================================================================
