--------------------------- MODULE ReviewPackage ---------------------------
(***************************************************************************)
(* review_package.py, the `package` and `review-guard` verbs, and the      *)
(* conductor's two runs they connect: EXECUTE cuts the branch's diff in    *)
(* its dispatch root, records which commit it covers and stops; REVIEW, a  *)
(* later run, asks review-guard before it hands that diff to reviewers.    *)
(* Between the runs anyone may commit, a run may die anywhere, and the     *)
(* record is a trail that outlives its sprint.                             *)
(*                                                                         *)
(* A commit is a number, never reused. The sprint's other state is only    *)
(* the stage it is at; ids are one, since every id has its own trail.      *)
(***************************************************************************)
EXTENDS Naturals, SequencesExt

CONSTANTS Roots,        \* the repository root and the worktrees EXECUTE isolates into
          StateRoot,    \* the one that holds .supskill/
          None,         \* Python's None, and a file that is not there
          MaxCommits,   \* bound: commits after the first
          MaxDeaths,    \* bound: runs that die
          MaxSprints,   \* bound: sprints that use the id
          MaxRows       \* bound: lines of the trail

ASSUME RootAssumption == StateRoot \in Roots /\ None \notin Roots /\ None \notin Nat
ASSUME BoundAssumption == MaxCommits \in Nat /\ MaxDeaths \in Nat /\ MaxSprints \in Nat \ {0} /\ MaxRows \in Nat

INSTANCE Trails

VARIABLES head,           \* HEAD of every root
          commits,        \* the newest commit anywhere
          diff,           \* <scratch>/review-final.diff in every root: the commit it runs to
          package_jsonl,  \* runs/<id>/package.jsonl
          sprints,        \* the sprints that used the id so far
          dispatch_root,  \* where the sprint's EXECUTE works
          stage,          \* "REVIEWED" once Gate 3 closed the sprint
          told,           \* what the last refusal told the operator to do
          pc,             \* where the run stands, "stopped" between two runs
          deaths,
          calm            \* so far every EXECUTE recorded its package, no append tore and
                          \* nobody else committed during a run; for the properties alone

vars == <<head, commits, diff, package_jsonl, sprints, dispatch_root, stage, told, pc, deaths, calm>>
git == <<head, commits>>
sprint == <<sprints, dispatch_root>>

Commit == 0..MaxCommits
PackageRow == [head : Commit, dispatch_root : Roots \cup {None}]

ASSUME RowAssumption == None \notin PackageRow

Init ==
    /\ head = [r \in Roots |-> 0]
    /\ commits = 0
    /\ diff = [r \in Roots |-> None]
    /\ package_jsonl = <<>>
    /\ sprints = 1
    /\ dispatch_root \in Roots
    /\ stage = "EXECUTE"
    /\ told = None
    /\ pc = "stopped"
    /\ deaths = 0
    /\ calm = TRUE

----------------------------------------------------------------------------
(* EXECUTE: drain the tasks, cut the package, record it, advance, stop.    *)

NewCommit(r) ==
    /\ commits < MaxCommits
    /\ commits' = commits + 1
    /\ head' = [head EXCEPT ![r] = commits + 1]

execute ==
    /\ pc = "stopped" /\ stage = "EXECUTE"
    /\ pc' = "draining"
    /\ UNCHANGED <<git, diff, package_jsonl, sprint, stage, told, deaths, calm>>

commit_task ==
    /\ pc = "draining"
    /\ NewCommit(dispatch_root)
    /\ UNCHANGED <<diff, package_jsonl, sprint, stage, told, pc, deaths, calm>>

\* review-package <merge-base> HEAD <scratch>/review-final.diff
CutsPackage(r) == diff' = [diff EXCEPT ![r] = head[r]]

cut_package ==
    /\ pc = "draining"
    /\ CutsPackage(dispatch_root)
    /\ pc' = "cut"
    /\ UNCHANGED <<git, package_jsonl, sprint, stage, told, deaths, calm>>

\* record_package: one append.
Records(row) == /\ Len(package_jsonl) < MaxRows
                /\ package_jsonl' = Written(package_jsonl, [row |-> row, ended |-> TRUE])

\* --head $(git -C <dispatch-root> rev-parse HEAD), read after the diff was cut. The state
\* root need not be named.
RowOfExecute ==
    [head : {head[dispatch_root]},
     dispatch_root : {dispatch_root} \cup {r \in {None} : dispatch_root = StateRoot}]

\* Variant: the record does not say where the package was cut.
record_package_NoRoot ==
    /\ pc = "cut"
    /\ Records([head |-> head[dispatch_root], dispatch_root |-> None])
    /\ pc' = "recorded"
    /\ UNCHANGED <<git, diff, sprint, stage, told, deaths, calm>>

record_package ==
    /\ pc = "cut"
    /\ \E row \in RowOfExecute : Records(row)
    /\ pc' = "recorded"
    /\ UNCHANGED <<git, diff, sprint, stage, told, deaths, calm>>

\* `advance` does not ask whether a package was recorded, or even cut.
advance_to_review ==
    /\ pc \in {"draining", "cut", "recorded"}
    /\ stage' = "REVIEW"
    /\ told' = None
    /\ pc' = "stopped"
    /\ calm' = (calm /\ pc = "recorded")
    /\ UNCHANGED <<git, diff, package_jsonl, sprint, deaths>>

----------------------------------------------------------------------------
(* REVIEW: the guard, then the reviewers.                                  *)

\* last_record: the last line that parses.
HasRecord == Readable(package_jsonl) # {}
LastRecord == LastRow(package_jsonl, PackageRow)

\* dispatch_root_for: a record without one means the state root.
RootOf(record) == IF record.dispatch_root = None THEN StateRoot ELSE record.dispatch_root

\* Variant: the package is taken as found, whatever has been committed since.
is_stale_Never(record) == FALSE

is_stale(record) == record.head # head[RootOf(record)]

\* The guard's answer, in the order the verb asks.
Verdict ==
    IF ~HasRecord THEN "missing"
    ELSE IF diff[RootOf(LastRecord)] = None THEN "missing file"
    ELSE IF is_stale(LastRecord) THEN "stale"
    ELSE "matches"

\* The commands a refusal prints: a stale record's own root and the HEAD it was compared
\* with; otherwise placeholders, which the operator fills with the sprint's root.
Remedy ==
    IF Verdict = "stale"
    THEN [root |-> IF LastRecord.dispatch_root = None THEN dispatch_root ELSE LastRecord.dispatch_root,
          sha |-> head[RootOf(LastRecord)]]
    ELSE [root |-> dispatch_root, sha |-> None]

GuardRuns == pc = "stopped" /\ stage = "REVIEW"

refuse ==
    /\ GuardRuns
    /\ Verdict # "matches"
    /\ told' = Remedy
    /\ UNCHANGED <<git, diff, package_jsonl, sprint, stage, pc, deaths, calm>>

pass ==
    /\ GuardRuns
    /\ Verdict = "matches"
    /\ told' = None
    /\ pc' = "passed"
    /\ UNCHANGED <<git, diff, package_jsonl, sprint, stage, deaths, calm>>

\* The reviewers read the diff; Gate 3 then closes the sprint.
review ==
    /\ pc = "passed"
    /\ stage' = "REVIEWED"
    /\ pc' = "stopped"
    /\ UNCHANGED <<git, diff, package_jsonl, sprint, told, deaths, calm>>

----------------------------------------------------------------------------
(* The operator.                                                           *)

\* A commit nobody recorded: out of band, between the runs or during one.
commit_out_of_band(r) ==
    /\ NewCommit(r)
    /\ calm' = (calm /\ pc = "stopped")
    /\ UNCHANGED <<diff, package_jsonl, sprint, stage, told, pc, deaths>>

\* The refusal's two commands, in their order.
recut ==
    /\ pc = "stopped" /\ told # None
    /\ CutsPackage(told.root)
    /\ pc' = "recut"
    /\ UNCHANGED <<git, package_jsonl, sprint, stage, told, deaths, calm>>

RowOfRemedy ==
    [head |-> IF told.sha = None THEN head[told.root] ELSE told.sha, dispatch_root |-> told.root]

\* Variant: the command names no dispatch root.
rerecord_NoRoot ==
    /\ pc = "recut"
    /\ Records([RowOfRemedy EXCEPT !.dispatch_root = None])
    /\ told' = None
    /\ pc' = "stopped"
    /\ UNCHANGED <<git, diff, sprint, stage, deaths, calm>>

\* Variant: the SHA is the refusal's, read or not.
rerecord_Literal ==
    /\ pc = "recut"
    /\ Records([RowOfRemedy EXCEPT !.head = told.sha])
    /\ told' = None
    /\ pc' = "stopped"
    /\ UNCHANGED <<git, diff, sprint, stage, deaths, calm>>

rerecord ==
    /\ pc = "recut"
    /\ Records(RowOfRemedy)
    /\ told' = None
    /\ pc' = "stopped"
    /\ UNCHANGED <<git, diff, sprint, stage, deaths, calm>>

\* init --archive and the way back to EXECUTE: package.jsonl stays where it is.
next_sprint ==
    /\ pc = "stopped" /\ stage = "REVIEWED"
    /\ sprints < MaxSprints
    /\ sprints' = sprints + 1
    /\ dispatch_root' \in Roots
    /\ stage' = "EXECUTE"
    /\ UNCHANGED <<git, diff, package_jsonl, told, pc, deaths, calm>>

\* The worktree of a closed sprint is removed, its scratch with it.
discard_worktree(r) ==
    /\ pc = "stopped" /\ stage = "REVIEWED"
    /\ r # StateRoot /\ diff[r] # None
    /\ diff' = [diff EXCEPT ![r] = None]
    /\ UNCHANGED <<git, package_jsonl, sprint, stage, told, pc, deaths, calm>>

\* A run dies: what it wrote stays, and an append may stop short of its newline.
die ==
    /\ pc # "stopped"
    /\ deaths < MaxDeaths
    /\ deaths' = deaths + 1
    /\ pc' = "stopped"
    /\ \/ UNCHANGED <<package_jsonl, calm>>
       \/ /\ calm' = FALSE
          /\ pc \in {"cut", "recut"}
          /\ \E row \in {None} \cup (IF pc = "cut" THEN RowOfExecute ELSE {RowOfRemedy}) :
                 package_jsonl' = Written(package_jsonl, [row |-> row, ended |-> FALSE])
    /\ UNCHANGED <<git, diff, sprint, stage, told>>

Next ==
    \/ execute \/ commit_task \/ cut_package \/ record_package \/ advance_to_review
    \/ refuse \/ pass \/ review
    \/ \E r \in Roots : commit_out_of_band(r) \/ discard_worktree(r)
    \/ recut \/ rerecord \/ next_sprint \/ die

\* A run is invoked again until the sprint is through, a run that goes on takes its next
\* step, and the operator does what a refusal says. Commits and deaths owe nothing.
Fairness == /\ WF_vars(execute \/ cut_package \/ record_package \/ (pc = "recorded" /\ advance_to_review))
            /\ WF_vars(refuse \/ pass \/ review)
            /\ WF_vars(recut \/ rerecord)

Spec == Init /\ [][Next]_vars
FairSpec == Spec /\ Fairness

----------------------------------------------------------------------------
TypeOK ==
    /\ head \in [Roots -> Commit]
    /\ commits \in Commit
    /\ diff \in [Roots -> Commit \cup {None}]
    /\ package_jsonl \in Seq(LineOf(PackageRow))
    /\ sprints \in 1..MaxSprints
    /\ dispatch_root \in Roots
    /\ stage \in {"EXECUTE", "REVIEW", "REVIEWED"}
    /\ told \in {None} \cup [root : Roots, sha : Commit \cup {None}]
    /\ pc \in {"stopped", "draining", "cut", "recorded", "passed", "recut"}
    /\ deaths \in 0..MaxDeaths
    /\ calm \in BOOLEAN

\* review_package.py's question, "is the recorded review package still this branch?": what
\* reviewers are handed after a pass runs to the HEAD of the sprint's own dispatch root,
\* as long as things are calm.
PassedIsTheBranch == calm /\ pc = "passed" => diff[dispatch_root] = head[dispatch_root]

\* review-guard takes what EXECUTE has just recorded, in a worktree as at the state root
\* and whatever earlier sprints left on the trail of the id, as long as things are calm.
RecordedMatches == calm /\ pc = "recorded" => Verdict = "matches"

\* Doing what its refusals say gets every sprint past review-guard: no refusal repeats for
\* ever, whatever was committed, torn, discarded or left by an earlier sprint of the id.
EverySprintIsReviewed == []<>(stage = "REVIEWED")
=============================================================================
