------------------------------- MODULE Guards -------------------------------
(***************************************************************************)
(* The questions supskill-state answers for the conductor without writing  *)
(* anything: plan_guard.py, commit_scope.py, artifact_tracking.py,         *)
(* replan_guard.py, preflight.py, and the table of stop_classes.py with    *)
(* what record_action makes of it. Drain and Conductor ask them.           *)
(*                                                                         *)
(* git is what the guards see of it: a commit is the set of the watched    *)
(* paths its tree holds, so a path a commit only edits is no change here.  *)
(* A git that fails makes every guard refuse and is left out.              *)
(***************************************************************************)
EXTENDS SprintState

CONSTANT Foreign   \* the watched paths under one of FOREIGN_PREFIXES

ASSUME ForeignAssumption == Foreign \subseteq Path

----------------------------------------------------------------------------
(* plan_guard.py and commit_scope.py: what a dispatched agent committed.   *)

head_moved(before, after) == before # after

\* git diff --name-only: added and removed paths alike.
git_changed_paths(before, after) == (before \ after) \cup (after \ before)

foreign_paths(changed) == changed \cap Foreign

\* The same denylist, before the conductor's own commit.
guard_conductor_commit(paths) == foreign_paths(paths)

----------------------------------------------------------------------------
(* artifact_tracking.py: which recorded artifacts git does not know. git   *)
(* ls-files answers from the index: what is staged is tracked.             *)

Recorded(s) == {s.artifacts[a] : a \in ARTIFACT_KEYS} \ {None}

\* Variant: the sprint doc is not asked about.
untracked_DevPlan(s, index) == {s.artifacts["dev_plan"]} \ (index \cup {None})

untracked(s, index) == Recorded(s) \ index

----------------------------------------------------------------------------
(* replan_guard.py: what an answer to Gate 3 may ask of the backlog.       *)

AMENDING_SHAPES == {"generative-writeback", "park-at-boundary", "fork-on-live-evidence"}
REPLAN_SHAPES == AMENDING_SHAPES \cup {"north-star-reset"}

is_supersede(shape) == shape = "north-star-reset"
lacks_backlog_target(s, shape) == ~is_supersede(shape) /\ ~s.backlog

----------------------------------------------------------------------------
(* preflight.py: the skills the rest of the run dispatches. A skill is     *)
(* installed when it loads and carries its artifacts.                      *)

STAGE_SKILLS == [SCOPE   |-> {},
                 PLAN    |-> {"writing-plans"},
                 EXECUTE |-> {"subagent-driven-development"},
                 REVIEW  |-> {}]

Skill == UNION {STAGE_SKILLS[stage] : stage \in Stage}

\* Variant: the stage the run starts at, and not the ones it goes on to.
required_skills_Now(stage) == STAGE_SKILLS[stage]

required_skills(stage) ==
    UNION {STAGE_SKILLS[later] : later \in {x \in Stage : StageIndex[x] >= StageIndex[stage]}}

unresolved(stage, installed) == required_skills(stage) \ installed

----------------------------------------------------------------------------
(* stop_classes.py and commands.py record_action.                          *)

REMEDIABLE == {"init.archive.decided", "artifact-guard.untracked",
               "replan-guard.writeback-uncommitted"}
EVIDENTIAL == {"init.archive.undecided", "review-guard.stale", "plan-guard.commits",
               "commit-scope-guard.foreign", "conductor-commit-guard.foreign",
               "replan-guard.north-star", "preflight.unresolvable", "tasks.coverage"}

classify(stop) == CASE stop \in REMEDIABLE -> "remediable"
                    [] stop \in EVIDENTIAL -> "evidential"
                    [] OTHER -> "no_stop"

\* record_action takes a remediable stop, and only with an operator's answer.
TakesAction(stop, answered) == answered /\ classify(stop) = "remediable"
=============================================================================
