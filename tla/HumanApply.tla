---------------------------- MODULE HumanApply ----------------------------
(***************************************************************************)
(* How a code change of the laboratory gets into the repository: the       *)
(* generator makes a diff of a proposal in a worktree of its own           *)
(* (codegen.py, CodeDiffPreviewAgent in experiments.py) and a person's     *)
(* command approves it: it is applied to the working tree, the suite is    *)
(* run, and the change is committed and recorded, or reverted              *)
(* (human_apply.py).  The generator and the command share the working      *)
(* tree and the tables, and nothing locks either.                          *)
(*                                                                         *)
(* The contents of a file are the set of the diffs that have changed it,   *)
(* Conflict among them for conflict markers; a file that a proposal adds   *)
(* is absent while its contents are empty.                                 *)
(***************************************************************************)
EXTENDS Naturals, FiniteSets

CONSTANTS
  Proposals,  \* proposals of a code change
  Files,      \* the files they change, the version file apart
  Targets,    \* proposal -> the files its diffs change
  Added,      \* files that are not there until a proposal adds them
  Bumping,    \* the proposals whose files require a new version
  Approvers,  \* the processes of the approve command
  MaxDiffs,   \* bound on the diffs generated
  MaxStale    \* bound on the stale marks of a proposal

ASSUME ApplyAssumption ==
  /\ Proposals # {} /\ Targets \in [Proposals -> SUBSET Files]
  /\ Added \subseteq Files /\ Bumping \subseteq Proposals
  /\ MaxDiffs \in Nat /\ MaxStale \in Nat

Diffs == 1 .. MaxDiffs
Conflict == 0
Contents == [Files -> SUBSET (Diffs \cup {Conflict})]
Sources == [file : Contents, version : Nat]
Statuses == {"READY_TO_APPLY", "APPLIED", "REJECTED", "REJECTED_BY_TESTS"}

VARIABLES
  head, index, tree, \* the last commit, the index and the working tree
  commits,    \* history: the diff a commit names and the diffs it brings
  made,       \* how many diffs there are: the diffs are 1 .. made
  diff,       \* diff -> its proposal, what it was made from, its provenance
  expired,    \* the diffs of more than max_age_hours
  status,     \* proposal -> its status
  stale,      \* proposal -> its code_diff_stale artifacts
  changes,    \* the diffs that have a row of applied changes
  gen,        \* the generator: where it is and what it has read
  pc, job,    \* where an approval is and the diff it has read
  seen        \* the stale artifacts it has counted

repoVars == <<head, index, tree, commits>>
storeVars == <<made, diff, status, stale, changes>>
approverVars == <<pc, job, seen>>
vars == <<head, index, tree, commits, made, diff, expired, status, stale,
          changes, gen, pc, job, seen>>

PCs == {"off", "clean", "apply", "bump", "validate", "revert", "restore",
        "reject", "rejected", "stage", "commit", "record", "applied",
        "count", "stale", "invalidate"}

DiffRecords == [proposal : Proposals, base : Contents, version : Nat, seen : Contents]

NoSources == [file |-> [f \in Files |-> {}], version |-> 0]

\* A generator that has read nothing.
Idle == [at |-> "off", proposal |-> CHOOSE p \in Proposals : TRUE,
         base |-> NoSources.file, version |-> 0, seen |-> NoSources.file]

TypeOK ==
  /\ {head, index, tree} \subseteq Sources
  /\ commits \subseteq [names : Diffs, brings : SUBSET (Diffs \cup {Conflict})]
  /\ made \in 0 .. MaxDiffs
  /\ DOMAIN diff = 1 .. made
  /\ \A d \in 1 .. made : diff[d] \in DiffRecords
  /\ expired \subseteq Diffs
  /\ status \in [Proposals -> Statuses]
  /\ stale \in [Proposals -> 0 .. MaxStale]
  /\ changes \subseteq Diffs
  /\ gen \in [at : {"off", "open", "made", "validate"}, proposal : Proposals,
              base : Contents, version : Nat, seen : Contents]
  /\ pc \in [Approvers -> PCs]
  /\ job \in [Approvers -> 0 .. made]
  /\ seen \in [Approvers -> 0 .. MaxStale]

-----------------------------------------------------------------------------

ProposalOf(d) == diff[d].proposal

TargetsOf(d) == Targets[ProposalOf(d)]

Absent(source, f) == f \in Added /\ source.file[f] = {}

\* The files of a proposal, in a working tree or a commit.
OfTargets(p, file) == [f \in Files |-> IF f \in Targets[p] THEN file[f] ELSE {}]

With(source, d) ==
  [source EXCEPT !.file = [f \in Files |-> IF f \in TargetsOf(d) THEN @[f] \cup {d} ELSE @[f]]]

Without(source, d) ==
  [source EXCEPT !.file = [f \in Files |-> @[f] \ {d}]]

\* A three-way merge that leaves its markers.
Conflicted(source, d) ==
  [source EXCEPT !.file = [f \in Files |-> IF f \in TargetsOf(d) THEN @[f] \cup {d, Conflict} ELSE @[f]]]

\* from, with the target files of d and the version file as in to.
Restored(from, to, d) ==
  [file |-> [f \in Files |-> IF f \in TargetsOf(d) THEN to.file[f] ELSE from.file[f]],
   version |-> IF ProposalOf(d) \in Bumping THEN to.version ELSE from.version]

\* Mutant: git diff instead of git status.
CleanOfUnstaged == tree = index

\* git status --porcelain is empty.
Clean == tree = index /\ index = head

\* validate_diff_provenance.
IsFresh(d) ==
  /\ d \notin expired
  /\ diff[d].version = tree.version
  /\ \A f \in TargetsOf(d) : diff[d].seen[f] = tree.file[f]

Previews(p) == {d \in 1 .. made : ProposalOf(d) = p}

At(a, place) == pc[a] = place

Goto(a, place) == pc' = [pc EXCEPT ![a] = place]

Resting(a) == pc[a] \in {"off", "rejected"}

SetStatus(p, s) == status' = [status EXCEPT ![p] = s]

-----------------------------------------------------------------------------
(* The generator.                                                          *)

\* The proposal is read once, and must be ready.
Generate(p) ==
  /\ gen.at = "off" /\ status[p] = "READY_TO_APPLY"
  /\ gen' = [gen EXCEPT !.at = "open", !.proposal = p]
  /\ UNCHANGED <<repoVars, storeVars, expired, approverVars>>

\* GitSandbox.open and the edits of the model: a worktree of the last commit.
OpenSandbox ==
  /\ gen.at = "open"
  /\ gen' = [gen EXCEPT !.at = "made", !.base = OfTargets(gen.proposal, head.file)]
  /\ UNCHANGED <<repoVars, storeVars, expired, approverVars>>

\* build_diff_provenance reads the working tree, not the worktree.
BuildProvenance ==
  /\ gen.at = "made"
  /\ gen' = [gen EXCEPT !.at = "validate", !.version = tree.version,
                       !.seen = OfTargets(gen.proposal, tree.file)]
  /\ UNCHANGED <<repoVars, storeVars, expired, approverVars>>

\* The suite of the worktree passes: the diff can be reviewed.
SavePreview ==
  /\ gen.at = "validate" /\ made < MaxDiffs
  /\ made' = made + 1
  /\ diff' = [d \in 1 .. made' |->
                IF d <= made THEN diff[d]
                ELSE [proposal |-> gen.proposal, base |-> gen.base,
                      version |-> gen.version, seen |-> gen.seen]]
  /\ gen' = Idle
  /\ UNCHANGED <<repoVars, expired, status, stale, changes, approverVars>>

\* It does not, or something raises: another round of the model, or the end.
SaveInvalid ==
  /\ gen.at \in {"open", "made", "validate"}
  /\ \/ gen' = [gen EXCEPT !.at = "open"]
     \/ gen' = Idle
  /\ UNCHANGED <<repoVars, storeVars, expired, approverVars>>

-----------------------------------------------------------------------------
(* The approve command.                                                    *)

\* The last diff that can be reviewed, whatever the status of its proposal,
\* and its provenance.
Approve(a, p) ==
  /\ Resting(a) /\ stale[p] < MaxStale
  /\ \E d \in Previews(p) :
       /\ \A e \in Previews(p) : e <= d
       /\ job' = [job EXCEPT ![a] = d]
       /\ Goto(a, IF IsFresh(d) THEN "clean" ELSE "count")
  /\ UNCHANGED <<repoVars, storeVars, expired, gen, seen>>

\* A dirty tree ends the command.
CheckClean(a) ==
  /\ At(a, "clean")
  /\ Goto(a, IF Clean THEN "apply" ELSE "off")
  /\ UNCHANGED <<repoVars, storeVars, expired, gen, job, seen>>

\* git apply --index --3way, and without --3way if that fails.
Apply(a) ==
  /\ At(a, "apply")
  /\ LET d == job[a]
         moved == \E f \in TargetsOf(d) : diff[d].base[f] # tree.file[f]
     IN \/ /\ \A f \in TargetsOf(d) : tree.file[f] = index.file[f]
           /\ tree' = With(tree, d) /\ index' = With(index, d)
           /\ Goto(a, "bump")
        \/ /\ UNCHANGED <<tree, index>>
           /\ Goto(a, "reject")
        \/ /\ moved
           /\ tree' = Conflicted(tree, d) /\ index' = Conflicted(index, d)
           /\ Goto(a, "reject")
  /\ UNCHANGED <<head, commits, storeVars, expired, gen, job, seen>>

\* bump_version_in_file writes the working tree only.
Bump(a) ==
  /\ At(a, "bump")
  /\ tree' = IF ProposalOf(job[a]) \in Bumping
             THEN [tree EXCEPT !.version = @ + 1] ELSE tree
  /\ Goto(a, "validate")
  /\ UNCHANGED <<head, index, commits, storeVars, expired, gen, job, seen>>

\* The whole suite, in the working tree.
Validate(a) ==
  /\ At(a, "validate")
  /\ \/ Goto(a, "stage")
     \/ Goto(a, "revert")
  /\ UNCHANGED <<repoVars, storeVars, expired, gen, job, seen>>

\* _reverse_patch, whose result is not looked at.
ReversePatch(a) ==
  /\ At(a, "revert")
  /\ IF \A f \in TargetsOf(job[a]) : tree.file[f] = index.file[f] /\ job[a] \in tree.file[f]
     THEN tree' = Without(tree, job[a]) /\ index' = Without(index, job[a])
     ELSE UNCHANGED <<tree, index>>
  /\ Goto(a, "restore")
  /\ UNCHANGED <<head, commits, storeVars, expired, gen, job, seen>>

\* _restore_targets.  git restore refuses every path if it does not know
\* one of them, which is the case of an added file; its result is not
\* looked at either.
RestoreTargets(a) ==
  /\ At(a, "restore")
  /\ IF \E f \in TargetsOf(job[a]) : Absent(index, f) /\ Absent(head, f)
     THEN UNCHANGED <<tree, index>>
     ELSE /\ tree' = Restored(tree, head, job[a])
          /\ index' = Restored(index, head, job[a])
  /\ Goto(a, "reject")
  /\ UNCHANGED <<head, commits, storeVars, expired, gen, job, seen>>

\* _reject_tests.
Reject(a) ==
  /\ At(a, "reject")
  /\ SetStatus(ProposalOf(job[a]), "REJECTED_BY_TESTS")
  /\ Goto(a, "rejected")
  /\ UNCHANGED <<repoVars, made, diff, stale, changes, expired, gen, job, seen>>

\* git add -A of the targets.
Stage(a) ==
  /\ At(a, "stage")
  /\ index' = Restored(index, tree, job[a])
  /\ Goto(a, "commit")
  /\ UNCHANGED <<head, tree, commits, storeVars, expired, gen, job, seen>>

Brought == UNION {index.file[f] \ head.file[f] : f \in Files}

\* git commit: everything that is staged.
Commit(a) ==
  /\ At(a, "commit")
  /\ head' = index
  /\ commits' = commits \cup {[names |-> job[a], brings |-> Brought]}
  /\ Goto(a, "record")
  /\ UNCHANGED <<index, tree, storeVars, expired, gen, job, seen>>

\* Mutant: the result of git is not looked at.
CommitFailsUnnoticed(a) ==
  /\ pc[a] \in {"stage", "commit"}
  /\ Goto(a, "record")
  /\ UNCHANGED <<repoVars, storeVars, expired, gen, job, seen>>

\* A git command fails: the command ends with the tree as it is.
CommitFails(a) ==
  /\ pc[a] \in {"stage", "commit"}
  /\ Goto(a, "off")
  /\ UNCHANGED <<repoVars, storeVars, expired, gen, job, seen>>

\* save_continuous_improvement_applied_change.
SaveChange(a) ==
  /\ At(a, "record")
  /\ changes' = changes \cup {job[a]}
  /\ Goto(a, "applied")
  /\ UNCHANGED <<repoVars, made, diff, status, stale, expired, gen, job, seen>>

SetApplied(a) ==
  /\ At(a, "applied")
  /\ SetStatus(ProposalOf(job[a]), "APPLIED")
  /\ Goto(a, "off")
  /\ UNCHANGED <<repoVars, made, diff, stale, changes, expired, gen, job, seen>>

-----------------------------------------------------------------------------
(* _invalidate_stale_diff: three transactions.                             *)

CountStale(a) ==
  /\ At(a, "count")
  /\ seen' = [seen EXCEPT ![a] = stale[ProposalOf(job[a])]]
  /\ Goto(a, "stale")
  /\ UNCHANGED <<repoVars, storeVars, expired, gen, job>>

SaveStale(a) ==
  /\ At(a, "stale") /\ stale[ProposalOf(job[a])] < MaxStale
  /\ stale' = [stale EXCEPT ![ProposalOf(job[a])] = @ + 1]
  /\ Goto(a, "invalidate")
  /\ UNCHANGED <<repoVars, made, diff, status, changes, expired, gen, job, seen>>

\* One regeneration is allowed.
Invalidate(a) ==
  /\ At(a, "invalidate")
  /\ SetStatus(ProposalOf(job[a]), IF seen[a] >= 1 THEN "REJECTED" ELSE "READY_TO_APPLY")
  /\ seen' = [seen EXCEPT ![a] = 0]
  /\ Goto(a, "off")
  /\ UNCHANGED <<repoVars, made, diff, stale, changes, expired, gen, job>>

-----------------------------------------------------------------------------
(* The environment.                                                        *)

\* The command is killed, or something it calls raises.
Crash(a) ==
  /\ ~Resting(a)
  /\ seen' = [seen EXCEPT ![a] = 0]
  /\ Goto(a, "off")
  /\ UNCHANGED <<repoVars, storeVars, expired, gen, job>>

Expire(d) ==
  /\ d \in 1 .. made
  /\ expired' = expired \cup {d}
  /\ UNCHANGED <<repoVars, storeVars, gen, approverVars>>

\* Somebody takes the working tree back to the last commit.
CleanUp ==
  /\ \A a \in Approvers : Resting(a)
  /\ ~Clean
  /\ tree' = head /\ index' = head
  /\ pc' = [a \in Approvers |-> "off"]
  /\ UNCHANGED <<head, commits, storeVars, expired, gen, job, seen>>

-----------------------------------------------------------------------------

Init ==
  /\ head = NoSources /\ index = NoSources /\ tree = NoSources
  /\ commits = {}
  /\ made = 0 /\ diff = [d \in 1 .. 0 |-> d] /\ expired = {}
  /\ status = [p \in Proposals |-> "READY_TO_APPLY"]
  /\ stale = [p \in Proposals |-> 0]
  /\ changes = {}
  /\ gen = Idle
  /\ pc = [a \in Approvers |-> "off"]
  /\ job = [a \in Approvers |-> 0]
  /\ seen = [a \in Approvers |-> 0]

Generator ==
  \/ \E p \in Proposals : Generate(p)
  \/ OpenSandbox
  \/ BuildProvenance
  \/ SavePreview
  \/ SaveInvalid

Approver(a) ==
  \/ \E p \in Proposals : Approve(a, p)
  \/ CheckClean(a)
  \/ Apply(a)
  \/ Bump(a)
  \/ Validate(a)
  \/ ReversePatch(a)
  \/ RestoreTargets(a)
  \/ Reject(a)
  \/ Stage(a)
  \/ Commit(a)
  \/ CommitFails(a)
  \/ SaveChange(a)
  \/ SetApplied(a)
  \/ CountStale(a)
  \/ SaveStale(a)
  \/ Invalidate(a)
  \/ Crash(a)

Next ==
  \/ Generator
  \/ \E a \in Approvers : Approver(a)
  \/ \E d \in Diffs : Expire(d)
  \/ CleanUp

Spec == Init /\ [][Next]_vars

-----------------------------------------------------------------------------
(* Properties.                                                             *)

\* A commit brings the change of the diff that was approved and nothing
\* else: neither what a crashed approval left staged nor the markers of a
\* conflict (approve_and_apply_code_diff: the check of the working tree).
OneChangePerCommit ==
  \A c \in commits : c.brings \subseteq {c.names}

\* A row of applied changes and the status APPLIED stand for a commit of the
\* diff, or of a diff of the proposal, whatever failed or crashed meanwhile
\* (approve_and_apply_code_diff: the records follow the commit).
AppliedIsCommitted ==
  LET committed == {c.names : c \in commits} IN
  /\ changes \subseteq committed
  /\ \A p \in Proposals : status[p] = "APPLIED" =>
       \E d \in committed : ProposalOf(d) = p

\* An approval that ended because of the suite has left the working tree as
\* it was (informe_codex_fase2b_apply_2026-06-30.md:80; _restore_targets).
RejectedLeavesTreeClean ==
  \A a \in Approvers : At(a, "rejected") => Clean

=============================================================================
