-------------------------- MODULE HumanApplyProofs --------------------------
(***************************************************************************)
(* Proofs about HumanApply: for any proposals, files and diffs, any number *)
(* of approvals where nothing else is said, and every crash and failure of *)
(* the model.                                                              *)
(***************************************************************************)
EXTENDS HumanApply, TLAPS

\* Whoever does something about a diff has a diff that was made.
InHand == \A a \in Approvers : pc[a] # "off" => job[a] \in 1 .. made

NamesMade == \A c \in commits : c.names \in 1 .. made

ApplyInv == TypeOK /\ InHand /\ NamesMade

-----------------------------------------------------------------------------
(* What the operations on a source make of it.                             *)

\* A source with other files.
LEMMA OtherFiles ==
  ASSUME NEW s \in Sources, NEW g
  PROVE  [s EXCEPT !.file = g] = [file |-> g, version |-> s.version]
BY DEF Sources

\* With adds a diff to its target files.
LEMMA WithFacts ==
  ASSUME NEW s \in Sources, NEW d \in Diffs
  PROVE  /\ With(s, d) \in Sources
         /\ With(s, d).version = s.version
         /\ \A f \in Files : With(s, d).file[f] \subseteq s.file[f] \cup {d}
<1> DEFINE g == [f \in Files |-> IF f \in TargetsOf(d) THEN s.file[f] \cup {d} ELSE s.file[f]]
<1>1. With(s, d) = [file |-> g, version |-> s.version]
  <2>1. With(s, d) = [s EXCEPT !.file = g]
    BY DEF With
  <2> QED
    BY <2>1, OtherFiles
<1>2. s.file \in Contents /\ s.version \in Nat
  BY DEF Sources
<1>3. g \in Contents
  BY <1>2 DEF Contents
<1> QED
  BY <1>1, <1>2, <1>3 DEF Sources

\* Without takes a diff out of every file.
LEMMA WithoutFacts ==
  ASSUME NEW s \in Sources, NEW d \in Diffs
  PROVE  Without(s, d) \in Sources
<1> DEFINE g == [f \in Files |-> s.file[f] \ {d}]
<1>1. Without(s, d) = [file |-> g, version |-> s.version]
  <2>1. Without(s, d) = [s EXCEPT !.file = g]
    BY DEF Without
  <2> QED
    BY <2>1, OtherFiles
<1>2. s.file \in Contents /\ s.version \in Nat
  BY DEF Sources
<1>3. g \in Contents
  BY <1>2 DEF Contents
<1> QED
  BY <1>1, <1>2, <1>3 DEF Sources

\* Conflicted leaves a source.
LEMMA ConflictedFacts ==
  ASSUME NEW s \in Sources, NEW d \in Diffs
  PROVE  Conflicted(s, d) \in Sources
<1> DEFINE g == [f \in Files |-> IF f \in TargetsOf(d) THEN s.file[f] \cup {d, Conflict} ELSE s.file[f]]
<1>1. Conflicted(s, d) = [file |-> g, version |-> s.version]
  <2>1. Conflicted(s, d) = [s EXCEPT !.file = g]
    BY DEF Conflicted
  <2> QED
    BY <2>1, OtherFiles
<1>2. s.file \in Contents /\ s.version \in Nat
  BY DEF Sources
<1>3. g \in Contents
  BY <1>2 DEF Contents
<1> QED
  BY <1>1, <1>2, <1>3 DEF Sources

\* Restored takes each file from one of two sources.
LEMMA RestoredFacts ==
  ASSUME NEW s \in Sources, NEW t \in Sources, NEW d \in Diffs
  PROVE  /\ Restored(s, t, d) \in Sources
         /\ \A f \in Files : Restored(s, t, d).file[f] \in {s.file[f], t.file[f]}
<1>1. s.file \in Contents /\ t.file \in Contents /\ s.version \in Nat /\ t.version \in Nat
  BY DEF Sources
<1> QED
  BY <1>1 DEF Restored, Sources, Contents

\* The files of a proposal are contents.
LEMMA OfTargetsType ==
  ASSUME NEW p \in Proposals, NEW g \in Contents
  PROVE  OfTargets(p, g) \in Contents
BY DEF OfTargets, Contents

-----------------------------------------------------------------------------
(* What no step takes back.                                                *)

\* Diffs are only added, and a commit is never lost.
LEMMA HistoryGrows ==
  ASSUME TypeOK, [Next]_vars
  PROVE  /\ made <= made' /\ made' \in Nat
         /\ commits \subseteq commits'
         /\ \A d \in 1 .. made : diff'[d] = diff[d]
<1> DEFINE Goal == /\ made <= made' /\ made' \in Nat
                   /\ commits \subseteq commits'
                   /\ \A d \in 1 .. made : diff'[d] = diff[d]
<1>a. made \in Nat
  BY ApplyAssumption DEF TypeOK
<1> USE <1>a DEF repoVars, storeVars, approverVars
<1>1. ASSUME NEW p \in Proposals, Generate(p) PROVE Goal
  BY <1>1 DEF Generate
<1>2. ASSUME OpenSandbox PROVE Goal
  BY <1>2 DEF OpenSandbox
<1>3. ASSUME BuildProvenance PROVE Goal
  BY <1>3 DEF BuildProvenance
<1>4. ASSUME SavePreview PROVE Goal
  BY <1>4 DEF SavePreview
<1>5. ASSUME SaveInvalid PROVE Goal
  BY <1>5 DEF SaveInvalid
<1>6. ASSUME NEW a \in Approvers, NEW p \in Proposals, Approve(a, p) PROVE Goal
  BY <1>6 DEF Approve
<1>7. ASSUME NEW a \in Approvers, CheckClean(a) PROVE Goal
  BY <1>7 DEF CheckClean
<1>8. ASSUME NEW a \in Approvers, Apply(a) PROVE Goal
  BY <1>8 DEF Apply
<1>9. ASSUME NEW a \in Approvers, Bump(a) PROVE Goal
  BY <1>9 DEF Bump
<1>10. ASSUME NEW a \in Approvers, Validate(a) PROVE Goal
  BY <1>10 DEF Validate
<1>11. ASSUME NEW a \in Approvers, ReversePatch(a) PROVE Goal
  BY <1>11 DEF ReversePatch
<1>12. ASSUME NEW a \in Approvers, RestoreTargets(a) PROVE Goal
  BY <1>12 DEF RestoreTargets
<1>13. ASSUME NEW a \in Approvers, Reject(a) PROVE Goal
  BY <1>13 DEF Reject
<1>14. ASSUME NEW a \in Approvers, Stage(a) PROVE Goal
  BY <1>14 DEF Stage
<1>15. ASSUME NEW a \in Approvers, Commit(a) PROVE Goal
  BY <1>15 DEF Commit
<1>16. ASSUME NEW a \in Approvers, CommitFails(a) PROVE Goal
  BY <1>16 DEF CommitFails
<1>17. ASSUME NEW a \in Approvers, SaveChange(a) PROVE Goal
  BY <1>17 DEF SaveChange
<1>18. ASSUME NEW a \in Approvers, SetApplied(a) PROVE Goal
  BY <1>18 DEF SetApplied
<1>19. ASSUME NEW a \in Approvers, CountStale(a) PROVE Goal
  BY <1>19 DEF CountStale
<1>20. ASSUME NEW a \in Approvers, SaveStale(a) PROVE Goal
  BY <1>20 DEF SaveStale
<1>21. ASSUME NEW a \in Approvers, Invalidate(a) PROVE Goal
  BY <1>21 DEF Invalidate
<1>22. ASSUME NEW a \in Approvers, Crash(a) PROVE Goal
  BY <1>22 DEF Crash
<1>23. ASSUME NEW d \in Diffs, Expire(d) PROVE Goal
  BY <1>23 DEF Expire
<1>24. ASSUME CleanUp PROVE Goal
  BY <1>24 DEF CleanUp
<1>25. ASSUME UNCHANGED vars PROVE Goal
  BY <1>25 DEF vars
<1> QED
  BY <1>1, <1>2, <1>3, <1>4, <1>5, <1>6, <1>7, <1>8, <1>9, <1>10, <1>11, <1>12, <1>13, <1>14, <1>15, <1>16, <1>17, <1>18, <1>19, <1>20, <1>21, <1>22, <1>23, <1>24, <1>25
     DEF Next, Generator, Approver
-----------------------------------------------------------------------------
(* Types.                                                                 *)

\* A diff in hand is one of the diffs.
LEMMA JobsAreDiffs ==
  ASSUME ApplyInv, NEW a \in Approvers, pc[a] # "off"
  PROVE  job[a] \in Diffs /\ job[a] \in 1 .. made
BY ApplyAssumption DEF ApplyInv, TypeOK, InHand, Diffs

\* Every step keeps the types, if what is in hand was made.
LEMMA TypeStep ==
  ASSUME ApplyInv, [Next]_vars
  PROVE  TypeOK'
<1>a. TypeOK
  BY DEF ApplyInv
<1>b. head \in Sources /\ index \in Sources /\ tree \in Sources /\ made \in Nat
  BY <1>a, ApplyAssumption DEF TypeOK
<1>c. head.file \in Contents /\ tree.file \in Contents /\ tree.version \in Nat
  BY <1>b DEF Sources
<1>d. Idle \in [at : {"off"}, proposal : Proposals, base : Contents, version : Nat, seen : Contents]
  BY ApplyAssumption DEF Idle, NoSources, Contents
<1>e. \A a \in Approvers : pc[a] # "off" => ProposalOf(job[a]) \in Proposals
  BY <1>a, JobsAreDiffs DEF TypeOK, DiffRecords, ProposalOf
<1>f. 0 \in 0 .. MaxStale
  BY ApplyAssumption
<1> USE <1>a DEF TypeOK, repoVars, storeVars, approverVars, Goto, At, Resting, SetStatus
<1>1. ASSUME NEW p \in Proposals, Generate(p) PROVE TypeOK'
  BY <1>1 DEF Generate
<1>2. ASSUME OpenSandbox PROVE TypeOK'
  BY <1>2, <1>c, OfTargetsType DEF OpenSandbox
<1>3. ASSUME BuildProvenance PROVE TypeOK'
  BY <1>3, <1>c, OfTargetsType DEF BuildProvenance
<1>4. ASSUME SavePreview PROVE TypeOK'
  BY <1>4, <1>d, ApplyAssumption DEF SavePreview, DiffRecords
<1>5. ASSUME SaveInvalid PROVE TypeOK'
  BY <1>5, <1>d DEF SaveInvalid
<1>6. ASSUME NEW a \in Approvers, NEW p \in Proposals, Approve(a, p) PROVE TypeOK'
  BY <1>6 DEF Approve, Previews, PCs
<1>7. ASSUME NEW a \in Approvers, CheckClean(a) PROVE TypeOK'
  BY <1>7 DEF CheckClean, PCs
<1>8. ASSUME NEW a \in Approvers, Apply(a) PROVE TypeOK'
  <2>1. job[a] \in Diffs
    BY <1>8, JobsAreDiffs DEF Apply
  <2>2. {head', index', tree'} \subseteq Sources
    BY <1>8, <1>b, <2>1, WithFacts, ConflictedFacts DEF Apply
  <2>3. pc' \in [Approvers -> PCs]
    BY <1>8 DEF Apply, PCs
  <2> QED
    BY <1>8, <2>2, <2>3 DEF Apply
<1>9. ASSUME NEW a \in Approvers, Bump(a) PROVE TypeOK'
  <2>1. [tree EXCEPT !.version = @ + 1] \in Sources
    <3>1. tree.version + 1 \in Nat
      BY <1>c
    <3>2. [tree EXCEPT !.version = tree.version + 1] = [file |-> tree.file, version |-> tree.version + 1]
      BY <1>b DEF Sources
    <3> QED
      BY <1>c, <3>1, <3>2 DEF Sources
  <2>2. tree' \in Sources
    BY <1>9, <1>b, <2>1 DEF Bump
  <2>3. pc' \in [Approvers -> PCs]
    BY <1>9 DEF Bump, PCs
  <2> QED
    BY <1>9, <2>2, <2>3 DEF Bump
<1>10. ASSUME NEW a \in Approvers, Validate(a) PROVE TypeOK'
  BY <1>10 DEF Validate, PCs
<1>11. ASSUME NEW a \in Approvers, ReversePatch(a) PROVE TypeOK'
  BY <1>11, <1>b, JobsAreDiffs, WithoutFacts DEF ReversePatch, PCs
<1>12. ASSUME NEW a \in Approvers, RestoreTargets(a) PROVE TypeOK'
  <2>1. job[a] \in Diffs
    BY <1>12, JobsAreDiffs DEF RestoreTargets
  <2>2. {head', index', tree'} \subseteq Sources
    <3>1. /\ Restored(tree, head, job[a]) \in Sources
          /\ Restored(index, head, job[a]) \in Sources
      BY <1>b, <2>1, RestoredFacts
    <3> QED
      BY <1>12, <1>b, <3>1 DEF RestoreTargets
  <2>3. pc' \in [Approvers -> PCs]
    BY <1>12 DEF RestoreTargets, PCs
  <2> QED
    BY <1>12, <2>2, <2>3 DEF RestoreTargets
<1>13. ASSUME NEW a \in Approvers, Reject(a) PROVE TypeOK'
  BY <1>13 DEF Reject, PCs, Statuses
<1>14. ASSUME NEW a \in Approvers, Stage(a) PROVE TypeOK'
  <2>1. job[a] \in Diffs
    BY <1>14, JobsAreDiffs DEF Stage
  <2>2. index' \in Sources
    BY <1>14, <1>b, <2>1, RestoredFacts DEF Stage
  <2>3. pc' \in [Approvers -> PCs]
    BY <1>14 DEF Stage, PCs
  <2> QED
    BY <1>14, <2>2, <2>3 DEF Stage
<1>15. ASSUME NEW a \in Approvers, Commit(a) PROVE TypeOK'
  BY <1>15, <1>b, JobsAreDiffs DEF Commit, Brought, Sources, Contents, PCs
<1>16. ASSUME NEW a \in Approvers, CommitFails(a) PROVE TypeOK'
  BY <1>16 DEF CommitFails, PCs
<1>17. ASSUME NEW a \in Approvers, SaveChange(a) PROVE TypeOK'
  BY <1>17, JobsAreDiffs DEF SaveChange, PCs
<1>18. ASSUME NEW a \in Approvers, SetApplied(a) PROVE TypeOK'
  BY <1>18 DEF SetApplied, PCs, Statuses
<1>19. ASSUME NEW a \in Approvers, CountStale(a) PROVE TypeOK'
  BY <1>19, <1>e, JobsAreDiffs DEF CountStale, PCs
<1>20. ASSUME NEW a \in Approvers, SaveStale(a) PROVE TypeOK'
  <2>1. stale' \in [Proposals -> 0 .. MaxStale]
    BY <1>20, <1>e, ApplyAssumption DEF SaveStale
  <2>2. pc' \in [Approvers -> PCs]
    BY <1>20 DEF SaveStale, PCs
  <2> QED
    BY <1>20, <2>1, <2>2 DEF SaveStale
<1>21. ASSUME NEW a \in Approvers, Invalidate(a) PROVE TypeOK'
  BY <1>21, <1>f DEF Invalidate, PCs, Statuses
<1>22. ASSUME NEW a \in Approvers, Crash(a) PROVE TypeOK'
  BY <1>22, <1>f DEF Crash, PCs
<1>23. ASSUME NEW d \in Diffs, Expire(d) PROVE TypeOK'
  BY <1>23 DEF Expire
<1>24. ASSUME CleanUp PROVE TypeOK'
  BY <1>24 DEF CleanUp, PCs
<1>25. ASSUME UNCHANGED vars PROVE TypeOK'
  BY <1>25 DEF vars
<1> QED
  BY <1>1, <1>2, <1>3, <1>4, <1>5, <1>6, <1>7, <1>8, <1>9, <1>10, <1>11, <1>12, <1>13, <1>14, <1>15, <1>16, <1>17, <1>18, <1>19, <1>20, <1>21, <1>22, <1>23, <1>24, <1>25
     DEF Next, Generator, Approver

\* Every step leaves something to do only about a diff that was made.
LEMMA InHandStep ==
  ASSUME ApplyInv, [Next]_vars
  PROVE  InHand'
<1>a. /\ made \in Nat /\ made' \in Nat /\ made <= made'
      /\ pc \in [Approvers -> PCs] /\ job \in [Approvers -> 0 .. made]
  BY HistoryGrows, ApplyAssumption DEF ApplyInv, TypeOK
<1>b. InHand
  BY DEF ApplyInv
<1> USE <1>a, <1>b DEF InHand, repoVars, storeVars, approverVars, Goto, At, Resting
<1>1. ASSUME NEW p \in Proposals, Generate(p) PROVE InHand'
  BY <1>1 DEF Generate
<1>2. ASSUME OpenSandbox PROVE InHand'
  BY <1>2 DEF OpenSandbox
<1>3. ASSUME BuildProvenance PROVE InHand'
  BY <1>3 DEF BuildProvenance
<1>4. ASSUME SavePreview PROVE InHand'
  BY <1>4 DEF SavePreview
<1>5. ASSUME SaveInvalid PROVE InHand'
  BY <1>5 DEF SaveInvalid
<1>6. ASSUME NEW a \in Approvers, NEW p \in Proposals, Approve(a, p) PROVE InHand'
  BY <1>6 DEF Approve, Previews
<1>7. ASSUME NEW a \in Approvers, CheckClean(a) PROVE InHand'
  BY <1>7 DEF CheckClean
<1>8. ASSUME NEW a \in Approvers, Apply(a) PROVE InHand'
  BY <1>8 DEF Apply
<1>9. ASSUME NEW a \in Approvers, Bump(a) PROVE InHand'
  BY <1>9 DEF Bump
<1>10. ASSUME NEW a \in Approvers, Validate(a) PROVE InHand'
  BY <1>10 DEF Validate
<1>11. ASSUME NEW a \in Approvers, ReversePatch(a) PROVE InHand'
  BY <1>11 DEF ReversePatch
<1>12. ASSUME NEW a \in Approvers, RestoreTargets(a) PROVE InHand'
  BY <1>12 DEF RestoreTargets
<1>13. ASSUME NEW a \in Approvers, Reject(a) PROVE InHand'
  BY <1>13 DEF Reject
<1>14. ASSUME NEW a \in Approvers, Stage(a) PROVE InHand'
  BY <1>14 DEF Stage
<1>15. ASSUME NEW a \in Approvers, Commit(a) PROVE InHand'
  BY <1>15 DEF Commit
<1>16. ASSUME NEW a \in Approvers, CommitFails(a) PROVE InHand'
  BY <1>16 DEF CommitFails
<1>17. ASSUME NEW a \in Approvers, SaveChange(a) PROVE InHand'
  BY <1>17 DEF SaveChange
<1>18. ASSUME NEW a \in Approvers, SetApplied(a) PROVE InHand'
  BY <1>18 DEF SetApplied
<1>19. ASSUME NEW a \in Approvers, CountStale(a) PROVE InHand'
  BY <1>19 DEF CountStale
<1>20. ASSUME NEW a \in Approvers, SaveStale(a) PROVE InHand'
  BY <1>20 DEF SaveStale
<1>21. ASSUME NEW a \in Approvers, Invalidate(a) PROVE InHand'
  BY <1>21 DEF Invalidate
<1>22. ASSUME NEW a \in Approvers, Crash(a) PROVE InHand'
  BY <1>22 DEF Crash
<1>23. ASSUME NEW d \in Diffs, Expire(d) PROVE InHand'
  BY <1>23 DEF Expire
<1>24. ASSUME CleanUp PROVE InHand'
  BY <1>24 DEF CleanUp
<1>25. ASSUME UNCHANGED vars PROVE InHand'
  BY <1>25 DEF vars
<1> QED
  BY <1>1, <1>2, <1>3, <1>4, <1>5, <1>6, <1>7, <1>8, <1>9, <1>10, <1>11, <1>12, <1>13, <1>14, <1>15, <1>16, <1>17, <1>18, <1>19, <1>20, <1>21, <1>22, <1>23, <1>24, <1>25
     DEF Next, Generator, Approver

\* Every commit names a diff that was made.
LEMMA NamesMadeStep ==
  ASSUME ApplyInv, [Next]_vars
  PROVE  NamesMade'
<1>a. made \in Nat /\ made' \in Nat /\ made <= made'
  BY HistoryGrows, ApplyAssumption DEF ApplyInv, TypeOK
<1>b. NamesMade
  BY DEF ApplyInv
<1> USE <1>a, <1>b DEF NamesMade, repoVars, storeVars, approverVars
<1>1. ASSUME NEW p \in Proposals, Generate(p) PROVE NamesMade'
  BY <1>1 DEF Generate
<1>2. ASSUME OpenSandbox PROVE NamesMade'
  BY <1>2 DEF OpenSandbox
<1>3. ASSUME BuildProvenance PROVE NamesMade'
  BY <1>3 DEF BuildProvenance
<1>4. ASSUME SavePreview PROVE NamesMade'
  BY <1>4 DEF SavePreview
<1>5. ASSUME SaveInvalid PROVE NamesMade'
  BY <1>5 DEF SaveInvalid
<1>6. ASSUME NEW a \in Approvers, NEW p \in Proposals, Approve(a, p) PROVE NamesMade'
  BY <1>6 DEF Approve
<1>7. ASSUME NEW a \in Approvers, CheckClean(a) PROVE NamesMade'
  BY <1>7 DEF CheckClean
<1>8. ASSUME NEW a \in Approvers, Apply(a) PROVE NamesMade'
  BY <1>8 DEF Apply
<1>9. ASSUME NEW a \in Approvers, Bump(a) PROVE NamesMade'
  BY <1>9 DEF Bump
<1>10. ASSUME NEW a \in Approvers, Validate(a) PROVE NamesMade'
  BY <1>10 DEF Validate
<1>11. ASSUME NEW a \in Approvers, ReversePatch(a) PROVE NamesMade'
  BY <1>11 DEF ReversePatch
<1>12. ASSUME NEW a \in Approvers, RestoreTargets(a) PROVE NamesMade'
  BY <1>12 DEF RestoreTargets
<1>13. ASSUME NEW a \in Approvers, Reject(a) PROVE NamesMade'
  BY <1>13 DEF Reject
<1>14. ASSUME NEW a \in Approvers, Stage(a) PROVE NamesMade'
  BY <1>14 DEF Stage
<1>15. ASSUME NEW a \in Approvers, Commit(a) PROVE NamesMade'
  BY <1>15, JobsAreDiffs DEF Commit, At
<1>16. ASSUME NEW a \in Approvers, CommitFails(a) PROVE NamesMade'
  BY <1>16 DEF CommitFails
<1>17. ASSUME NEW a \in Approvers, SaveChange(a) PROVE NamesMade'
  BY <1>17 DEF SaveChange
<1>18. ASSUME NEW a \in Approvers, SetApplied(a) PROVE NamesMade'
  BY <1>18 DEF SetApplied
<1>19. ASSUME NEW a \in Approvers, CountStale(a) PROVE NamesMade'
  BY <1>19 DEF CountStale
<1>20. ASSUME NEW a \in Approvers, SaveStale(a) PROVE NamesMade'
  BY <1>20 DEF SaveStale
<1>21. ASSUME NEW a \in Approvers, Invalidate(a) PROVE NamesMade'
  BY <1>21 DEF Invalidate
<1>22. ASSUME NEW a \in Approvers, Crash(a) PROVE NamesMade'
  BY <1>22 DEF Crash
<1>23. ASSUME NEW d \in Diffs, Expire(d) PROVE NamesMade'
  BY <1>23 DEF Expire
<1>24. ASSUME CleanUp PROVE NamesMade'
  BY <1>24 DEF CleanUp
<1>25. ASSUME UNCHANGED vars PROVE NamesMade'
  BY <1>25 DEF vars
<1> QED
  BY <1>1, <1>2, <1>3, <1>4, <1>5, <1>6, <1>7, <1>8, <1>9, <1>10, <1>11, <1>12, <1>13, <1>14, <1>15, <1>16, <1>17, <1>18, <1>19, <1>20, <1>21, <1>22, <1>23, <1>24, <1>25
     DEF Next, Generator, Approver

\* The inductive invariant: the types, and that what is in hand or committed
\* is a diff the generator has made.
THEOREM ApplyInvHolds == Spec => []ApplyInv
<1>1. Init => ApplyInv
  <2> SUFFICES ASSUME Init PROVE ApplyInv
    OBVIOUS
  <2>1. NoSources \in Sources /\ NoSources.file \in Contents
    BY DEF NoSources, Sources, Contents
  <2>2. Idle \in [at : {"off"}, proposal : Proposals, base : Contents, version : Nat, seen : Contents]
    BY <2>1, ApplyAssumption DEF Idle
  <2>3. DOMAIN diff = 1 .. made /\ \A d \in 1 .. made : diff[d] \in DiffRecords
    BY DEF Init
  <2>4. TypeOK
    BY <2>1, <2>2, <2>3, ApplyAssumption DEF Init, TypeOK, PCs, Statuses
  <2>5. InHand /\ NamesMade
    BY DEF Init, InHand, NamesMade
  <2> QED
    BY <2>4, <2>5 DEF ApplyInv
<1>2. ApplyInv /\ [Next]_vars => ApplyInv'
  BY TypeStep, InHandStep, NamesMadeStep DEF ApplyInv
<1> QED
  BY <1>1, <1>2, PTL DEF Spec

\* Everything the generator, the approvals and the repository hold keeps its
\* type: a proposal has one of its statuses, an approval works on a diff that
\* was made, and commits and records name diffs.
THEOREM ApplyTypeCorrect == Spec => []TypeOK
<1>1. ApplyInv => TypeOK
  BY DEF ApplyInv
<1> QED
  BY <1>1, ApplyInvHolds, PTL

-----------------------------------------------------------------------------
(* What is recorded as applied.                                            *)

Committed(d) == \E c \in commits : c.names = d

\* Whoever has something to record has committed it.
CommittedBefore ==
  \A a \in Approvers : pc[a] \in {"record", "applied"} => Committed(job[a])

ChangesCommitted == \A d \in changes : Committed(d)

AppliedHasCommit ==
  \A p \in Proposals : status[p] = "APPLIED" =>
    \E c \in commits : ProposalOf(c.names) = p

RecordInv == ApplyInv /\ CommittedBefore /\ ChangesCommitted /\ AppliedHasCommit

\* What was committed stays so.
LEMMA CommittedStays ==
  ASSUME TypeOK, [Next]_vars, NEW d, Committed(d)
  PROVE  Committed(d)'
BY HistoryGrows DEF Committed

\* Only a commit leads to the records, and what is to be recorded stays.
LEMMA CommittedBeforeStep ==
  ASSUME RecordInv, [Next]_vars
  PROVE  CommittedBefore'
<1>a. /\ pc \in [Approvers -> PCs] /\ job \in [Approvers -> 0 .. made]
      /\ \A d : Committed(d) => Committed(d)'
  BY CommittedStays DEF RecordInv, ApplyInv, TypeOK
<1>b. CommittedBefore
  BY DEF RecordInv
<1> USE <1>a, <1>b DEF CommittedBefore, repoVars, storeVars, approverVars, Goto, At, Resting
<1>1. ASSUME NEW p \in Proposals, Generate(p) PROVE CommittedBefore'
  BY <1>1 DEF Generate
<1>2. ASSUME OpenSandbox PROVE CommittedBefore'
  BY <1>2 DEF OpenSandbox
<1>3. ASSUME BuildProvenance PROVE CommittedBefore'
  BY <1>3 DEF BuildProvenance
<1>4. ASSUME SavePreview PROVE CommittedBefore'
  BY <1>4 DEF SavePreview
<1>5. ASSUME SaveInvalid PROVE CommittedBefore'
  BY <1>5 DEF SaveInvalid
<1>6. ASSUME NEW a \in Approvers, NEW p \in Proposals, Approve(a, p) PROVE CommittedBefore'
  BY <1>6 DEF Approve
<1>7. ASSUME NEW a \in Approvers, CheckClean(a) PROVE CommittedBefore'
  BY <1>7 DEF CheckClean
<1>8. ASSUME NEW a \in Approvers, Apply(a) PROVE CommittedBefore'
  BY <1>8 DEF Apply
<1>9. ASSUME NEW a \in Approvers, Bump(a) PROVE CommittedBefore'
  BY <1>9 DEF Bump
<1>10. ASSUME NEW a \in Approvers, Validate(a) PROVE CommittedBefore'
  BY <1>10 DEF Validate
<1>11. ASSUME NEW a \in Approvers, ReversePatch(a) PROVE CommittedBefore'
  BY <1>11 DEF ReversePatch
<1>12. ASSUME NEW a \in Approvers, RestoreTargets(a) PROVE CommittedBefore'
  BY <1>12 DEF RestoreTargets
<1>13. ASSUME NEW a \in Approvers, Reject(a) PROVE CommittedBefore'
  BY <1>13 DEF Reject
<1>14. ASSUME NEW a \in Approvers, Stage(a) PROVE CommittedBefore'
  BY <1>14 DEF Stage
<1>15. ASSUME NEW a \in Approvers, Commit(a) PROVE CommittedBefore'
  <2>1. Committed(job[a])'
    BY <1>15 DEF Commit, Committed
  <2> QED
    BY <1>15, <2>1 DEF Commit
<1>16. ASSUME NEW a \in Approvers, CommitFails(a) PROVE CommittedBefore'
  BY <1>16 DEF CommitFails
<1>17. ASSUME NEW a \in Approvers, SaveChange(a) PROVE CommittedBefore'
  BY <1>17 DEF SaveChange
<1>18. ASSUME NEW a \in Approvers, SetApplied(a) PROVE CommittedBefore'
  BY <1>18 DEF SetApplied
<1>19. ASSUME NEW a \in Approvers, CountStale(a) PROVE CommittedBefore'
  BY <1>19 DEF CountStale
<1>20. ASSUME NEW a \in Approvers, SaveStale(a) PROVE CommittedBefore'
  BY <1>20 DEF SaveStale
<1>21. ASSUME NEW a \in Approvers, Invalidate(a) PROVE CommittedBefore'
  BY <1>21 DEF Invalidate
<1>22. ASSUME NEW a \in Approvers, Crash(a) PROVE CommittedBefore'
  BY <1>22 DEF Crash
<1>23. ASSUME NEW d \in Diffs, Expire(d) PROVE CommittedBefore'
  BY <1>23 DEF Expire
<1>24. ASSUME CleanUp PROVE CommittedBefore'
  BY <1>24 DEF CleanUp
<1>25. ASSUME UNCHANGED vars PROVE CommittedBefore'
  BY <1>25 DEF vars
<1> QED
  BY <1>1, <1>2, <1>3, <1>4, <1>5, <1>6, <1>7, <1>8, <1>9, <1>10, <1>11, <1>12, <1>13, <1>14, <1>15, <1>16, <1>17, <1>18, <1>19, <1>20, <1>21, <1>22, <1>23, <1>24, <1>25
     DEF Next, Generator, Approver

\* A row of applied changes is written behind its commit only.
LEMMA ChangesCommittedStep ==
  ASSUME RecordInv, [Next]_vars
  PROVE  ChangesCommitted'
<1>a. \A d : Committed(d) => Committed(d)'
  BY CommittedStays DEF RecordInv, ApplyInv
<1>b. ChangesCommitted /\ CommittedBefore
  BY DEF RecordInv
<1> USE <1>a, <1>b DEF ChangesCommitted, repoVars, storeVars, approverVars, At
<1>1. ASSUME NEW p \in Proposals, Generate(p) PROVE ChangesCommitted'
  BY <1>1 DEF Generate
<1>2. ASSUME OpenSandbox PROVE ChangesCommitted'
  BY <1>2 DEF OpenSandbox
<1>3. ASSUME BuildProvenance PROVE ChangesCommitted'
  BY <1>3 DEF BuildProvenance
<1>4. ASSUME SavePreview PROVE ChangesCommitted'
  BY <1>4 DEF SavePreview
<1>5. ASSUME SaveInvalid PROVE ChangesCommitted'
  BY <1>5 DEF SaveInvalid
<1>6. ASSUME NEW a \in Approvers, NEW p \in Proposals, Approve(a, p) PROVE ChangesCommitted'
  BY <1>6 DEF Approve
<1>7. ASSUME NEW a \in Approvers, CheckClean(a) PROVE ChangesCommitted'
  BY <1>7 DEF CheckClean
<1>8. ASSUME NEW a \in Approvers, Apply(a) PROVE ChangesCommitted'
  BY <1>8 DEF Apply
<1>9. ASSUME NEW a \in Approvers, Bump(a) PROVE ChangesCommitted'
  BY <1>9 DEF Bump
<1>10. ASSUME NEW a \in Approvers, Validate(a) PROVE ChangesCommitted'
  BY <1>10 DEF Validate
<1>11. ASSUME NEW a \in Approvers, ReversePatch(a) PROVE ChangesCommitted'
  BY <1>11 DEF ReversePatch
<1>12. ASSUME NEW a \in Approvers, RestoreTargets(a) PROVE ChangesCommitted'
  BY <1>12 DEF RestoreTargets
<1>13. ASSUME NEW a \in Approvers, Reject(a) PROVE ChangesCommitted'
  BY <1>13 DEF Reject
<1>14. ASSUME NEW a \in Approvers, Stage(a) PROVE ChangesCommitted'
  BY <1>14 DEF Stage
<1>15. ASSUME NEW a \in Approvers, Commit(a) PROVE ChangesCommitted'
  BY <1>15 DEF Commit
<1>16. ASSUME NEW a \in Approvers, CommitFails(a) PROVE ChangesCommitted'
  BY <1>16 DEF CommitFails
<1>17. ASSUME NEW a \in Approvers, SaveChange(a) PROVE ChangesCommitted'
  BY <1>17 DEF SaveChange, CommittedBefore
<1>18. ASSUME NEW a \in Approvers, SetApplied(a) PROVE ChangesCommitted'
  BY <1>18 DEF SetApplied
<1>19. ASSUME NEW a \in Approvers, CountStale(a) PROVE ChangesCommitted'
  BY <1>19 DEF CountStale
<1>20. ASSUME NEW a \in Approvers, SaveStale(a) PROVE ChangesCommitted'
  BY <1>20 DEF SaveStale
<1>21. ASSUME NEW a \in Approvers, Invalidate(a) PROVE ChangesCommitted'
  BY <1>21 DEF Invalidate
<1>22. ASSUME NEW a \in Approvers, Crash(a) PROVE ChangesCommitted'
  BY <1>22 DEF Crash
<1>23. ASSUME NEW d \in Diffs, Expire(d) PROVE ChangesCommitted'
  BY <1>23 DEF Expire
<1>24. ASSUME CleanUp PROVE ChangesCommitted'
  BY <1>24 DEF CleanUp
<1>25. ASSUME UNCHANGED vars PROVE ChangesCommitted'
  BY <1>25 DEF vars
<1> QED
  BY <1>1, <1>2, <1>3, <1>4, <1>5, <1>6, <1>7, <1>8, <1>9, <1>10, <1>11, <1>12, <1>13, <1>14, <1>15, <1>16, <1>17, <1>18, <1>19, <1>20, <1>21, <1>22, <1>23, <1>24, <1>25
     DEF Next, Generator, Approver

\* A proposal is set to applied behind a commit of one of its diffs only.
LEMMA AppliedHasCommitStep ==
  ASSUME RecordInv, [Next]_vars
  PROVE  AppliedHasCommit'
<1>a. TypeOK /\ NamesMade /\ status \in [Proposals -> Statuses]
  BY DEF RecordInv, ApplyInv, TypeOK
<1>b. AppliedHasCommit /\ CommittedBefore
  BY DEF RecordInv
<1>c. \A c \in commits : c \in commits' /\ ProposalOf(c.names)' = ProposalOf(c.names)
  BY <1>a, HistoryGrows DEF NamesMade, ProposalOf
<1>d. ASSUME \A p \in Proposals : status'[p] = "APPLIED" =>
               status[p] = "APPLIED" \/ \E c \in commits : ProposalOf(c.names) = p
      PROVE  AppliedHasCommit'
  BY <1>b, <1>c, <1>d DEF AppliedHasCommit
<1> DEFINE Goal == \A p \in Proposals : status'[p] = "APPLIED" =>
               status[p] = "APPLIED" \/ \E c \in commits : ProposalOf(c.names) = p
<1> USE <1>a DEF repoVars, storeVars, approverVars, SetStatus, Statuses
<1>1. ASSUME NEW p \in Proposals, Generate(p) PROVE Goal
  BY <1>1 DEF Generate
<1>2. ASSUME OpenSandbox PROVE Goal
  BY <1>2 DEF OpenSandbox
<1>3. ASSUME BuildProvenance PROVE Goal
  BY <1>3 DEF BuildProvenance
<1>4. ASSUME SavePreview PROVE Goal
  BY <1>4 DEF SavePreview
<1>5. ASSUME SaveInvalid PROVE Goal
  BY <1>5 DEF SaveInvalid
<1>6. ASSUME NEW a \in Approvers, NEW p \in Proposals, Approve(a, p) PROVE Goal
  BY <1>6 DEF Approve
<1>7. ASSUME NEW a \in Approvers, CheckClean(a) PROVE Goal
  BY <1>7 DEF CheckClean
<1>8. ASSUME NEW a \in Approvers, Apply(a) PROVE Goal
  BY <1>8 DEF Apply
<1>9. ASSUME NEW a \in Approvers, Bump(a) PROVE Goal
  BY <1>9 DEF Bump
<1>10. ASSUME NEW a \in Approvers, Validate(a) PROVE Goal
  BY <1>10 DEF Validate
<1>11. ASSUME NEW a \in Approvers, ReversePatch(a) PROVE Goal
  BY <1>11 DEF ReversePatch
<1>12. ASSUME NEW a \in Approvers, RestoreTargets(a) PROVE Goal
  BY <1>12 DEF RestoreTargets
<1>13. ASSUME NEW a \in Approvers, Reject(a) PROVE Goal
  BY <1>13 DEF Reject
<1>14. ASSUME NEW a \in Approvers, Stage(a) PROVE Goal
  BY <1>14 DEF Stage
<1>15. ASSUME NEW a \in Approvers, Commit(a) PROVE Goal
  BY <1>15 DEF Commit
<1>16. ASSUME NEW a \in Approvers, CommitFails(a) PROVE Goal
  BY <1>16 DEF CommitFails
<1>17. ASSUME NEW a \in Approvers, SaveChange(a) PROVE Goal
  BY <1>17 DEF SaveChange
<1>18. ASSUME NEW a \in Approvers, SetApplied(a) PROVE Goal
  <2>1. \E c \in commits : c.names = job[a]
    BY <1>18, <1>b DEF SetApplied, CommittedBefore, Committed, At
  <2>2. \E c \in commits : ProposalOf(c.names) = ProposalOf(job[a])
    BY <2>1
  <2> QED
    BY <1>18, <2>2 DEF SetApplied
<1>19. ASSUME NEW a \in Approvers, CountStale(a) PROVE Goal
  BY <1>19 DEF CountStale
<1>20. ASSUME NEW a \in Approvers, SaveStale(a) PROVE Goal
  BY <1>20 DEF SaveStale
<1>21. ASSUME NEW a \in Approvers, Invalidate(a) PROVE Goal
  BY <1>21 DEF Invalidate
<1>22. ASSUME NEW a \in Approvers, Crash(a) PROVE Goal
  BY <1>22 DEF Crash
<1>23. ASSUME NEW d \in Diffs, Expire(d) PROVE Goal
  BY <1>23 DEF Expire
<1>24. ASSUME CleanUp PROVE Goal
  BY <1>24 DEF CleanUp
<1>25. ASSUME UNCHANGED vars PROVE Goal
  BY <1>25 DEF vars
<1>26. Goal
  BY <1>1, <1>2, <1>3, <1>4, <1>5, <1>6, <1>7, <1>8, <1>9, <1>10, <1>11, <1>12, <1>13, <1>14, <1>15, <1>16, <1>17, <1>18, <1>19, <1>20, <1>21, <1>22, <1>23, <1>24, <1>25
     DEF Next, Generator, Approver
<1> QED
  BY <1>d, <1>26

\* A row of applied changes, and the status APPLIED, stand for a commit of
\* that diff, or of a diff of that proposal: for any number of approvals that
\* crash, fail, overlap or are repeated at any point.
THEOREM AppliedIsCommittedHolds == Spec => []AppliedIsCommitted
<1>1. Init => CommittedBefore /\ ChangesCommitted /\ AppliedHasCommit
  BY DEF Init, CommittedBefore, ChangesCommitted, AppliedHasCommit
<1>2. RecordInv /\ [Next]_vars /\ ApplyInv' => RecordInv'
  BY CommittedBeforeStep, ChangesCommittedStep, AppliedHasCommitStep DEF RecordInv
<1>3. RecordInv => AppliedIsCommitted
  <2> SUFFICES ASSUME RecordInv PROVE AppliedIsCommitted
    OBVIOUS
  <2>1. changes \subseteq {c.names : c \in commits}
    BY DEF RecordInv, ChangesCommitted, Committed
  <2>2. ASSUME NEW p \in Proposals, status[p] = "APPLIED"
        PROVE  \E d \in {c.names : c \in commits} : ProposalOf(d) = p
    BY <2>2 DEF RecordInv, AppliedHasCommit
  <2> QED
    BY <2>1, <2>2 DEF AppliedIsCommitted
<1>4. Spec => []RecordInv
  <2>1. Init /\ ApplyInv => RecordInv
    BY <1>1 DEF RecordInv
  <2> QED
    BY <1>2, <2>1, ApplyInvHolds, PTL DEF Spec
<1> QED
  BY <1>3, <1>4, PTL

-----------------------------------------------------------------------------
(* What a commit brings.                                                   *)

\* Two approvals never work at once: the command is given by one person.
OneApprover == \A a, b \in Approvers : a = b

Only(source, d) == \A f \in Files : source.file[f] \ head.file[f] \subseteq {d}

\* From the check of the working tree to the commit, the tree and the index
\* differ from the last commit by the approved diff only.
NothingElse ==
  \A a \in Approvers :
    /\ pc[a] = "apply" => Clean
    /\ pc[a] \in {"bump", "validate", "stage", "commit"} =>
         Only(tree, job[a]) /\ Only(index, job[a])

BringInv == ApplyInv /\ NothingElse /\ OneChangePerCommit

\* The check of the working tree is not undone before the commit by anybody
\* but the approval itself.
LEMMA NothingElseStep ==
  ASSUME OneApprover, BringInv, [Next]_vars
  PROVE  NothingElse'
<1>a. /\ pc \in [Approvers -> PCs] /\ job \in [Approvers -> 0 .. made]
      /\ head \in Sources /\ index \in Sources /\ tree \in Sources
  BY DEF BringInv, ApplyInv, TypeOK
<1>b. NothingElse /\ ApplyInv
  BY DEF BringInv
<1> USE <1>a, <1>b, OneApprover DEF NothingElse, OneApprover, Only, Clean, repoVars, storeVars, approverVars, Goto, At, Resting
<1>1. ASSUME NEW p \in Proposals, Generate(p) PROVE NothingElse'
  BY <1>1 DEF Generate
<1>2. ASSUME OpenSandbox PROVE NothingElse'
  BY <1>2 DEF OpenSandbox
<1>3. ASSUME BuildProvenance PROVE NothingElse'
  BY <1>3 DEF BuildProvenance
<1>4. ASSUME SavePreview PROVE NothingElse'
  BY <1>4 DEF SavePreview
<1>5. ASSUME SaveInvalid PROVE NothingElse'
  BY <1>5 DEF SaveInvalid
<1>6. ASSUME NEW a \in Approvers, NEW p \in Proposals, Approve(a, p) PROVE NothingElse'
  BY <1>6 DEF Approve
<1>7. ASSUME NEW a \in Approvers, CheckClean(a) PROVE NothingElse'
  BY <1>7 DEF CheckClean
<1>8. ASSUME NEW a \in Approvers, Apply(a) PROVE NothingElse'
  <2>1. job[a] \in Diffs /\ tree = head /\ index = head
    BY <1>8, JobsAreDiffs DEF Apply
  <2>2. \A f \in Files : With(head, job[a]).file[f] \subseteq head.file[f] \cup {job[a]}
    BY <2>1, WithFacts
  <2>3. pc'[a] = "bump" => tree' = With(head, job[a]) /\ index' = With(head, job[a])
    BY <1>8, <2>1 DEF Apply
  <2>4. pc'[a] \in {"bump", "reject"} /\ head' = head /\ job' = job
    BY <1>8 DEF Apply
  <2>5. \A b \in Approvers : b = a
    OBVIOUS
  <2> QED
    BY <2>2, <2>3, <2>4, <2>5
<1>9. ASSUME NEW a \in Approvers, Bump(a) PROVE NothingElse'
  <2>1. tree'.file = tree.file
    BY <1>9 DEF Bump, Sources
  <2> QED
    BY <1>9, <2>1 DEF Bump
<1>10. ASSUME NEW a \in Approvers, Validate(a) PROVE NothingElse'
  BY <1>10 DEF Validate
<1>11. ASSUME NEW a \in Approvers, ReversePatch(a) PROVE NothingElse'
  BY <1>11 DEF ReversePatch
<1>12. ASSUME NEW a \in Approvers, RestoreTargets(a) PROVE NothingElse'
  BY <1>12 DEF RestoreTargets
<1>13. ASSUME NEW a \in Approvers, Reject(a) PROVE NothingElse'
  BY <1>13 DEF Reject
<1>14. ASSUME NEW a \in Approvers, Stage(a) PROVE NothingElse'
  <2>1. job[a] \in Diffs
    BY <1>14, JobsAreDiffs DEF Stage
  <2>2. \A f \in Files : index'.file[f] \in {index.file[f], tree.file[f]}
    BY <1>14, <2>1, RestoredFacts DEF Stage
  <2> QED
    BY <1>14, <2>2 DEF Stage
<1>15. ASSUME NEW a \in Approvers, Commit(a) PROVE NothingElse'
  BY <1>15 DEF Commit
<1>16. ASSUME NEW a \in Approvers, CommitFails(a) PROVE NothingElse'
  BY <1>16 DEF CommitFails
<1>17. ASSUME NEW a \in Approvers, SaveChange(a) PROVE NothingElse'
  BY <1>17 DEF SaveChange
<1>18. ASSUME NEW a \in Approvers, SetApplied(a) PROVE NothingElse'
  BY <1>18 DEF SetApplied
<1>19. ASSUME NEW a \in Approvers, CountStale(a) PROVE NothingElse'
  BY <1>19 DEF CountStale
<1>20. ASSUME NEW a \in Approvers, SaveStale(a) PROVE NothingElse'
  BY <1>20 DEF SaveStale
<1>21. ASSUME NEW a \in Approvers, Invalidate(a) PROVE NothingElse'
  BY <1>21 DEF Invalidate
<1>22. ASSUME NEW a \in Approvers, Crash(a) PROVE NothingElse'
  BY <1>22 DEF Crash
<1>23. ASSUME NEW d \in Diffs, Expire(d) PROVE NothingElse'
  BY <1>23 DEF Expire
<1>24. ASSUME CleanUp PROVE NothingElse'
  BY <1>24 DEF CleanUp
<1>25. ASSUME UNCHANGED vars PROVE NothingElse'
  BY <1>25 DEF vars
<1> QED
  BY <1>1, <1>2, <1>3, <1>4, <1>5, <1>6, <1>7, <1>8, <1>9, <1>10, <1>11, <1>12, <1>13, <1>14, <1>15, <1>16, <1>17, <1>18, <1>19, <1>20, <1>21, <1>22, <1>23, <1>24, <1>25
     DEF Next, Generator, Approver

\* With one approval at a time, a commit brings the change of the diff it
\* names and nothing else: no residue of a crash, no marker of a conflict.
THEOREM OneChangePerCommitHolds == OneApprover => (Spec => []OneChangePerCommit)
<1> SUFFICES ASSUME OneApprover PROVE Spec => []OneChangePerCommit
  OBVIOUS
<1>1. Init => NothingElse /\ OneChangePerCommit
  BY DEF Init, NothingElse, OneChangePerCommit
<1>2. ASSUME BringInv, [Next]_vars PROVE OneChangePerCommit'
  <2> USE DEF BringInv, OneChangePerCommit, repoVars
  <2>1. ASSUME NEW a \in Approvers, Commit(a) PROVE OneChangePerCommit'
    BY <1>2, <2>1 DEF Commit, Brought, NothingElse, Only, At
  <2>2. ASSUME ~\E a \in Approvers : Commit(a) PROVE commits' = commits
    BY <1>2, <2>2 DEF Next, Generator, Approver, vars, Generate, OpenSandbox, BuildProvenance,
       SavePreview, SaveInvalid, Approve, CheckClean, Apply, Bump, Validate, ReversePatch,
       RestoreTargets, Reject, Stage, CommitFails, SaveChange, SetApplied, CountStale,
       SaveStale, Invalidate, Crash, Expire, CleanUp
  <2> QED
    BY <1>2, <2>1, <2>2
<1>3. BringInv /\ [Next]_vars /\ ApplyInv' => BringInv'
  BY <1>2, NothingElseStep DEF BringInv
<1>4. BringInv => OneChangePerCommit
  BY DEF BringInv
<1>5. Init /\ ApplyInv => BringInv
  BY <1>1 DEF BringInv
<1> QED
  BY <1>3, <1>4, <1>5, ApplyInvHolds, PTL DEF Spec

=============================================================================
