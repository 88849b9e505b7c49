----------------------------- MODULE Conductor -----------------------------
(***************************************************************************)
(* The conductor of SKILL.md: one sprint that enters at SCOPE, from its    *)
(* first /supskill run to the ruling at Gate 3, over the guards and the    *)
(* EXECUTE stage of Drain. A run dispatches on the stage in state.json,    *)
(* goes on through the stages until something stops it, and may die        *)
(* between any two of its steps; the next one knows what is on disk.       *)
(*                                                                         *)
(* Between the runs the operator edits documents, commits, installs        *)
(* skills and does what a refusal says. What the agents write is           *)
(* arbitrary; Fairness says what must happen in the end.                   *)
(***************************************************************************)
EXTENDS Drain

CONSTANTS Isolated,     \* whether EXECUTE works in a worktree: the branch check's outcome
          Attests,      \* whether a run may pass --operator-answered before it has asked
          MaxDeaths,    \* bound: runs that die
          MaxEdits      \* bound: documents the operator changes for the worse

ASSUME ChoiceAssumption == Isolated \in BOOLEAN /\ Attests \subseteq BOOLEAN
ASSUME BoundAssumption == MaxDeaths \in Nat /\ MaxEdits \in Nat
ASSUME NoTreeAssumption == \A tree \in SUBSET Path : tree # None

VARIABLES repo_tree,   \* the branch of the repository root, once EXECUTE has left it
          staged,      \* what the repository root's index holds and its branch does not
          decided,     \* tasks with a decision row in blockers.jsonl
          installed,   \* skills that resolve
          lost,        \* commits whose run died before it accounted for them
          deaths, edits

conductor_vars == <<repo_tree, staged, decided, installed, lost, deaths, edits>>
vars == <<drain_vars, conductor_vars>>

Document == {SprintDoc, DevPlan}

\* An audit fails on a flawed document; a holed plan passes it and drops a story.
QualityOf(p) == {"flawed", "sound"} \cup {q \in {"holed"} : p = DevPlan}

Init ==
    /\ \E id \in SprintId : state = NewSprint(id, "SCOPE", TRUE, None)
    /\ plan \in Plans
    /\ docs = [p \in Document |-> "missing"]
    /\ log = <<>>
    /\ anchor = None
    /\ ran = {}
    /\ package = None
    /\ run = Stopped
    /\ repo_tree = None
    /\ staged = {}
    /\ decided = {}
    /\ installed \in SUBSET Skill
    /\ lost = {}
    /\ deaths = 0
    /\ edits = 0

----------------------------------------------------------------------------
(* The run checklist: preflight, then the dispatch table.                  *)

FirstStep == [SCOPE |-> "scope", PLAN |-> "plan", EXECUTE |-> "execute", REVIEW |-> "guard"]

invoke ==
    /\ At("stopped")
    /\ state.gates["G3"] = None
    /\ unresolved(state.stage, installed) = {}
    /\ Goes(FirstStep[state.stage])
    /\ UNCHANGED <<state, plan, docs, log, anchor, ran, package, conductor_vars>>

\* A step that moves the conversation and the state and nothing else.
OnlyState == UNCHANGED <<plan, docs, log, anchor, ran, package, conductor_vars>>
OnlyRun == UNCHANGED state /\ OnlyState

Artifact(a) == state.artifacts[a] # None /\ state.artifacts[a] \in OnDisk

----------------------------------------------------------------------------
(* SCOPE. *)

scope_resumes ==
    /\ At("scope") /\ Artifact("sprint_doc")
    /\ Goes("audit_doc")
    /\ OnlyRun

\* The scoping agent writes the document, or leaves what is there. A re-dispatch is audited again
\* without being recorded again.
dispatch_scope(quality) ==
    /\ \/ At("scope") /\ ~Artifact("sprint_doc") /\ Goes("record_doc")
       \/ At("scope_again") /\ Goes("audit_doc")
    /\ docs' = [docs EXCEPT ![SprintDoc] = quality]
    /\ UNCHANGED <<state, plan, log, anchor, ran, package, conductor_vars>>

record_doc ==
    /\ At("record_doc")
    /\ IF SprintDoc \in OnDisk
       THEN state' = WithArtifact(state, "sprint_doc", SprintDoc) /\ Goes("audit_doc")
       ELSE Stops /\ UNCHANGED state
    /\ OnlyState

\* One re-dispatch with the audit's failures, never a third.
audit_doc ==
    /\ At("audit_doc")
    /\ \/ docs[SprintDoc] = "sound" /\ Goes("gate1")
       \/ docs[SprintDoc] # "sound" /\ ~run.retried
          /\ run' = [run EXCEPT !.pc = "scope_again", !.retried = TRUE]
       \/ docs[SprintDoc] # "sound" /\ run.retried /\ Stops
    /\ OnlyRun

----------------------------------------------------------------------------
(* Gates 1 and 2. *)

GateOf == [gate1 |-> "G1", gate2 |-> "G2"]

\* An empty answer is no decision.
gate_unanswered ==
    /\ run.pc \in {"gate1", "gate2", "gate3"}
    /\ Stops
    /\ OnlyRun

gate_rejected(gate) ==
    /\ run.pc \in DOMAIN GateOf /\ gate = GateOf[run.pc]
    /\ state' = WithGate(state, gate, "rejected")
    /\ Stops
    /\ OnlyState

gate_approved(gate) ==
    /\ run.pc \in DOMAIN GateOf /\ gate = GateOf[run.pc]
    /\ state' = WithGate(state, gate, "approved")
    /\ Goes("cross")
    /\ OnlyState

\* advance --to, and on to the next stage in the same run.
cross ==
    /\ At("cross")
    /\ LET to == NextStage[state.stage] IN
       IF MayEnter(state, to, OnDisk)
       THEN /\ state' = WithStage(state, to)
            /\ run' = [Stopped EXCEPT !.pc = FirstStep[to]]
       ELSE Stops /\ UNCHANGED state
    /\ OnlyState

----------------------------------------------------------------------------
(* PLAN. *)

\* Variant: a recorded plan goes straight back to its gate.
plan_resumes_Unaudited ==
    /\ At("plan") /\ Artifact("dev_plan")
    /\ Goes("gate2")
    /\ OnlyRun

\* A recorded plan is audited again, and tasks[] loaded again.
plan_resumes ==
    /\ At("plan") /\ Artifact("dev_plan")
    /\ Goes("audit_plan")
    /\ OnlyRun

plan_without_doc ==
    /\ At("plan") /\ ~Artifact("dev_plan") /\ ~Artifact("sprint_doc")
    /\ Stops
    /\ OnlyRun

dispatch_plan ==
    /\ At("plan") /\ ~Artifact("dev_plan") /\ Artifact("sprint_doc")
    /\ run' = [run EXCEPT !.pc = "planning", !.base = HEAD]
    /\ OnlyRun

planner_commits ==
    /\ At("planning")
    /\ \E tree \in {Tree, Tree \cup OnDisk} : Commits("planner", 0, tree)
    /\ UNCHANGED <<state, plan, docs, anchor, ran, package, run, conductor_vars>>

planner_writes(quality) ==
    /\ At("planning")
    /\ docs' = [docs EXCEPT ![DevPlan] = quality]
    /\ Goes("head_guard")
    /\ UNCHANGED <<state, plan, log, anchor, ran, package, conductor_vars>>

\* plan-guard.commits: the commits are told to the operator and the run stops.
stop_on_commits ==
    /\ At("head_guard") /\ head_moved(run.base, HEAD)
    /\ Shows(run.base)
    /\ Stops
    /\ UNCHANGED <<state, plan, docs, anchor, ran, package, conductor_vars>>

\* Variant: the HEAD before is the one the stage began with, read after the dispatch.
head_unmoved_Reread ==
    /\ At("head_guard") /\ ~head_moved(HEAD, HEAD)
    /\ Goes("audit_plan")
    /\ OnlyRun

head_unmoved ==
    /\ At("head_guard") /\ ~head_moved(run.base, HEAD)
    /\ Goes("audit_plan")
    /\ OnlyRun

audit_plan ==
    /\ At("audit_plan")
    /\ IF docs[DevPlan] \in {"holed", "sound"}
       THEN state' = WithArtifact(state, "dev_plan", DevPlan) /\ Goes("tasks")
       ELSE Stops /\ UNCHANGED state
    /\ OnlyState

\* tasks --from reads both documents. A plan with a hole stops the run.
load_tasks ==
    /\ At("tasks")
    /\ SprintDoc \in OnDisk /\ docs[DevPlan] = "sound" /\ NoneStarted(state)
    /\ state' = WithTasks(state, UNION ToSet(plan))
    /\ Goes("gate2")
    /\ OnlyState

\* What an audit would not pass in the sprint doc may be one of its proof lines, or not.
load_refused ==
    /\ At("tasks")
    /\ docs[SprintDoc] # "sound" \/ docs[DevPlan] # "sound" \/ ~NoneStarted(state)
    /\ Stops
    /\ OnlyRun

----------------------------------------------------------------------------
(* EXECUTE: the branch check. A worktree starts from the HEAD it is cut    *)
(* from and is given both documents; the repository root keeps its branch. *)

enter_execute ==
    /\ At("execute")
    /\ IF (IF Isolated THEN Document ELSE {DevPlan}) \subseteq OnDisk
       THEN Goes("scan") /\ repo_tree' = IF Isolated /\ repo_tree = None THEN Tree ELSE repo_tree
       ELSE Stops /\ UNCHANGED repo_tree
    /\ UNCHANGED <<state, plan, docs, log, anchor, ran, package,
                   staged, decided, installed, lost, deaths, edits>>

execute_stage == DrainNext /\ UNCHANGED conductor_vars

----------------------------------------------------------------------------
(* REVIEW. *)

\* Variant: there is a package, so there is a review.
review_guard_AnyPackage ==
    /\ At("guard")
    /\ IF package = None THEN Stops ELSE Goes("artifacts")
    /\ OnlyRun

\* review-guard.stale: relayed, never repaired. Else the reviewers read the package.
review_guard ==
    /\ At("guard")
    /\ IF package # HEAD THEN Stops ELSE Goes("artifacts")
    /\ OnlyRun

\* The branch checked out where .supskill/ is, and the index git ls-files asks there.
RepoTree == IF Isolated /\ repo_tree # None THEN repo_tree ELSE Tree
Index == RepoTree \cup staged
Untracked == untracked(state, Index)

artifacts_tracked ==
    /\ At("artifacts") /\ Untracked = {}
    /\ Goes("gate3")
    /\ OnlyRun

\* `git commit` there takes the whole index, whoever filled it.
CommitsIndex(who, index) ==
    /\ staged' = {}
    /\ IF Isolated /\ repo_tree # None
       THEN repo_tree' = index /\ UNCHANGED log
       ELSE log' = Append(log, CommitOf(who, 0, index)) /\ UNCHANGED repo_tree

\* artifact-guard.untracked: exactly the untracked artifacts are staged, then committed, then
\* the commit is recorded.
stage_artifacts(attested) ==
    /\ At("artifacts") /\ Untracked # {}
    /\ Untracked \subseteq OnDisk
    /\ guard_conductor_commit(Untracked) = {}
    /\ TakesAction("artifact-guard.untracked", run.answered \/ attested)
    /\ run' = [run EXCEPT !.pc = "commit", !.base = HEAD]
    /\ staged' = staged \cup Untracked
    /\ UNCHANGED <<state, plan, docs, log, anchor, ran, package,
                   repo_tree, decided, installed, lost, deaths, edits>>

commit_artifacts ==
    /\ At("commit")
    /\ CommitsIndex("conductor", Index)
    /\ Goes("action")
    /\ UNCHANGED <<state, plan, docs, anchor, ran, package,
                   decided, installed, lost, deaths, edits>>

\* A hook or git itself says no; what was staged stays staged.
commit_refused ==
    /\ At("commit")
    /\ Stops
    /\ OnlyRun

record_action ==
    /\ At("action")
    /\ Shows(run.base)
    /\ IF state.gates["G3"] = None THEN Goes("gate3") ELSE Stops
    /\ UNCHANGED <<state, plan, docs, anchor, ran, package, conductor_vars>>

\* Nobody answered yet, a file that is gone, a path of the denylist: relay and stop.
stop_on_untracked ==
    /\ At("artifacts") /\ Untracked # {}
    /\ Stops
    /\ OnlyRun

----------------------------------------------------------------------------
(* Gate 3: every blocker's own answer, then the ruling.                    *)

\* The answer names every open blocker, those without an answer yet, or none: a bound,
\* not a rule. What it rules is read off it last.
ask(named) ==
    /\ At("gate3")
    /\ LET open == {b.task : b \in OpenBlockers(state)} IN named \in {{}, open \ decided, open}
    /\ run' = [run EXCEPT !.pc = "decide", !.todo = named, !.answered = TRUE]
    /\ OnlyRun

\* A blocker already decided refuses a second answer, and a refusal stops the run.
decide(t) ==
    /\ At("decide")
    /\ t \in run.todo
    /\ IF t \in decided THEN Stops /\ UNCHANGED decided
       ELSE run' = [run EXCEPT !.todo = @ \ {t}] /\ decided' = decided \cup {t}
    /\ UNCHANGED <<state, plan, docs, log, anchor, ran, package,
                   repo_tree, staged, installed, lost, deaths, edits>>

Ruling == At("decide") /\ run.todo = {}

approve ==
    /\ Ruling
    /\ state' = WithGate(state, "G3", "approved")
    /\ Stops
    /\ OnlyState

\* replan-guard refuses shape 4, and a backlog nobody named: no gate call.
refuse_replan(shape) ==
    /\ Ruling
    /\ is_supersede(shape) \/ lacks_backlog_target(state, shape)
    /\ Stops
    /\ OnlyRun

\* Parking needs the blocker its note names.
replan(shape) ==
    /\ Ruling
    /\ shape \in AMENDING_SHAPES
    /\ shape = "park-at-boundary" => OpenBlockers(state) # {}
    /\ ~lacks_backlog_target(state, shape)
    /\ state' = WithGate(state, "G3", "replan")
    /\ IF shape = "fork-on-live-evidence" THEN Stops ELSE Goes(shape)
    /\ OnlyState

\* replan-guard.writeback-uncommitted: the backlog's new rows, committed and recorded.
write_back ==
    /\ At("generative-writeback")
    /\ TakesAction("replan-guard.writeback-uncommitted", run.answered)
    /\ run' = [run EXCEPT !.pc = "action", !.base = HEAD]
    /\ CommitsIndex("conductor", Index)
    /\ UNCHANGED <<state, plan, docs, anchor, ran, package,
                   decided, installed, lost, deaths, edits>>

park(t) ==
    /\ At("park-at-boundary")
    /\ \E b \in OpenBlockers(state) : b.task = t
    /\ state' = WithStatus(state, t, "PARKED")
    /\ anchor' = HEAD
    /\ Stops
    /\ UNCHANGED <<plan, docs, log, ran, package, conductor_vars>>

----------------------------------------------------------------------------
(* A run dies, in its own time or by /clear.                               *)

Unaccounted == {i \in DOMAIN log : log[i].who \in {"planner", "conductor"} /\ ~log[i].seen}

die ==
    /\ ~At("stopped")
    /\ deaths < MaxDeaths
    /\ deaths' = deaths + 1
    /\ lost' = lost \cup Unaccounted
    /\ LosesBase
    /\ Stops
    /\ UNCHANGED <<state, plan, docs, anchor, ran, package,
                   repo_tree, staged, decided, installed, edits>>

----------------------------------------------------------------------------
(* The operator, between the runs. *)

Between == At("stopped") /\ state.gates["G3"] = None

\* The stages that read what a document says. In the others only whether it is there is
\* asked; the headings of a plan EXECUTE walks are not edited.
ReadIn(p) == IF p = SprintDoc THEN {"SCOPE", "PLAN"} ELSE {"PLAN"}

edit(p, quality) ==
    /\ Between
    /\ edits < MaxEdits
    /\ state.stage \in ReadIn(p) \/ quality = "missing"
    /\ edits' = edits + 1
    /\ docs[p] # quality
    /\ docs' = [docs EXCEPT ![p] = quality]
    /\ UNCHANGED <<state, plan, log, anchor, ran, package, run,
                   repo_tree, staged, decided, installed, lost, deaths>>

\* A recorded document an audit, the coverage join or a crossing refused is put right.
repair(p) ==
    /\ Between
    /\ p \in Recorded(state) /\ docs[p] # "sound"
    /\ docs' = [docs EXCEPT ![p] = "sound"]
    /\ UNCHANGED <<state, plan, log, anchor, ran, package, run, conductor_vars>>

install(skill) ==
    /\ Between
    /\ skill \notin installed
    /\ installed' = installed \cup {skill}
    /\ UNCHANGED <<drain_vars, repo_tree, staged, decided, lost, deaths, edits>>

\* Work of the operator's own, or the remedy commit-scope-guard names. On the branch of the
\* repository root it may take what the index holds along.
commit_out_of_band ==
    /\ Between
    /\ edits < MaxEdits
    /\ edits' = edits + 1
    /\ \E tree \in {Tree, Tree \ Foreign}, swept \in {{}, IF Isolated THEN {} ELSE staged} :
           Commits("operator", 0, tree \cup swept) /\ staged' = staged \ swept
    /\ UNCHANGED <<state, plan, docs, anchor, ran, package, run,
                   repo_tree, decided, installed, lost, deaths>>

\* "stage and commit the paths above yourself, then re-run this stage"
track ==
    /\ Between /\ state.stage = "REVIEW"
    /\ Untracked # {} /\ Untracked \subseteq OnDisk
    /\ CommitsIndex("operator", Index \cup Untracked)
    /\ UNCHANGED <<state, plan, docs, anchor, ran, package, run,
                   decided, installed, lost, deaths, edits>>

\* What review-guard's refusal prints; ReviewPackage has its two commands.
recut ==
    /\ Between /\ state.stage = "REVIEW"
    /\ package # HEAD
    /\ package' = HEAD
    /\ UNCHANGED <<state, plan, docs, log, anchor, ran, run, conductor_vars>>

----------------------------------------------------------------------------
\* What a run does of its own.
Runs ==
    \/ invoke
    \/ scope_resumes \/ record_doc \/ audit_doc
    \/ \E quality \in {docs[SprintDoc]} \cup QualityOf(SprintDoc) : dispatch_scope(quality)
    \/ gate_unanswered
    \/ \E gate \in {"G1", "G2"} : gate_rejected(gate) \/ gate_approved(gate)
    \/ cross
    \/ plan_resumes \/ plan_without_doc \/ dispatch_plan \/ planner_commits
    \/ \E quality \in {docs[DevPlan]} \cup QualityOf(DevPlan) : planner_writes(quality)
    \/ stop_on_commits \/ head_unmoved \/ audit_plan \/ load_tasks \/ load_refused
    \/ enter_execute \/ execute_stage
    \/ review_guard \/ artifacts_tracked \/ stop_on_untracked
    \/ \E attested \in Attests : stage_artifacts(attested)
    \/ commit_artifacts \/ commit_refused \/ record_action
    \/ \E named \in SUBSET Story : ask(named)
    \/ \E t \in Story : decide(t) \/ park(t)
    \/ approve \/ write_back
    \/ \E shape \in REPLAN_SHAPES : refuse_replan(shape) \/ replan(shape)

\* What happens between the runs.
Attended ==
    \/ \E p \in Document :
           \/ repair(p)
           \/ \E quality \in ({"missing"} \cup QualityOf(p)) \ {"sound"} : edit(p, quality)
    \/ \E skill \in Skill : install(skill)
    \/ commit_out_of_band \/ track \/ recut

Next == Runs \/ Attended \/ die

Spec == Init /\ [][Next]_vars

----------------------------------------------------------------------------
(* What the code's users must do for a sprint to end.                      *)

\* A run goes on until it stops, and a stopped sprint is invoked again. What agents commit
\* meanwhile is theirs.
Resume == Runs /\ run' # run

\* The operator does what a refusal names. None of it can be done for ever.
Attend == \/ track \/ recut
          \/ \E p \in Document : repair(p)
          \/ \E skill \in Skill : install(skill)

\* What an agent or the operator does well when asked often enough.
Succeed == \/ dispatch_scope("sound") \/ planner_writes("sound")
           \/ \E gate \in {"G1", "G2"} : gate_approved(gate)
           \/ approve_task /\ UNCHANGED conductor_vars
           \/ \E named \in SUBSET (Story \ decided) : ask(named)

Rule == approve \/ \E shape \in AMENDING_SHAPES : replan(shape)

\* Deaths, edits, commits and bad answers owe nothing.
Fairness == WF_vars(Resume) /\ SF_vars(Attend) /\ SF_vars(Succeed) /\ SF_vars(Rule)

FairSpec == Spec /\ Fairness

----------------------------------------------------------------------------
(* Properties, with those of Drain. *)

Pc == {"stopped", "scope", "record_doc", "audit_doc", "scope_again", "gate1", "cross", "plan",
       "planning", "head_guard", "audit_plan", "tasks", "gate2", "execute", "scan", "walk",
       "implement", "review", "scoped", "record", "halt", "guard", "artifacts", "commit", "action", "gate3",
       "decide", "generative-writeback", "park-at-boundary"}

TypeOK ==
    /\ state \in Sprint
    /\ plan \in Plans
    /\ docs \in [Document -> {"missing", "flawed", "holed", "sound"}]
    /\ log \in Seq(Commit)
    /\ anchor \in Nat \cup {None}
    /\ ran \subseteq DOMAIN plan
    /\ package \in Nat \cup {None}
    /\ run \in [pc : Pc, n : Nat, base : Nat, todo : SUBSET Story,
               report : TaskStatus \cup {None},
               checked : BOOLEAN, retried : BOOLEAN, answered : BOOLEAN]
    /\ repo_tree \in (SUBSET Path) \cup {None}
    /\ staged \subseteq Path
    /\ decided \subseteq DOMAIN state.tasks
    /\ installed \subseteq Skill
    /\ lost \subseteq DOMAIN log
    /\ deaths \in 0..MaxDeaths /\ edits \in 0..MaxEdits

\* preflight.py: "a stage that cannot load the skill it dispatches improvises". A run that
\* started at an earlier stage dispatches nothing that does not resolve either.
NoImprovising ==
    /\ At("planning") => STAGE_SKILLS.PLAN \subseteq installed
    /\ run.pc \in {"scan", "walk", "implement", "review"} => STAGE_SKILLS.EXECUTE \subseteq installed

\* plan_guard.py and actions.jsonl: what a planner committed is told to the operator and
\* what the conductor committed is on record, before that run does anything else. Only a
\* run that died in between leaves a commit nobody accounts for.
CommitsAreAccounted ==
    \A i \in Unaccounted :
        i \in lost \/ (run.pc \in {"planning", "head_guard", "action"} /\ i > run.base)

\* SKILL.md "PLAN" step 8: "the operator never approves a plan with a hole in it". PLAN is
\* entered over a doc that passes its audit, EXECUTE over a plan that passes it and covers
\* the stories, whatever was approved, edited or left half done by a run that died.
CrossedOnSound ==
    [][/\ state.stage = "SCOPE" /\ state'.stage = "PLAN" => docs[SprintDoc] = "sound"
       /\ state.stage = "PLAN" /\ state'.stage = "EXECUTE" =>
              docs[DevPlan] = "sound" /\ DOMAIN state.tasks = UNION ToSet(plan)]_vars

RulesNow == state.gates["G3"] = None /\ state'.gates["G3"] # None

\* review_package.py: PAR must not be "handed a diff that is not this branch". The branch
\* the operator rules on is the one that was reviewed, but for the conductor's own commit
\* of the documents.
RuledOnReviewed ==
    [][RulesNow => /\ package # None
                   /\ \A i \in DOMAIN log : i > package => log[i].who = "conductor"]_vars

\* artifact_tracking.py: a sprint is not ruled on while "the documents that authorize this
\* work are not in the branch that implements it".
PlanIsInTheBranch == [][RulesNow => Recorded(state) \subseteq Tree]_vars

\* What the guard can promise of it: at the ruling each recorded document is in the branch of
\* the repository root, or a run that did not get from `git add` to its commit staged it there.
OnlyStagedIsMissing ==
    [][RulesNow => Recorded(state) \subseteq RepoTree \cup staged]_vars

\* What the conductor makes of state.json, verb after verb and run after run, is what
\* SprintLifecycle allows a sprint: StateSpine shows that of each verb's writes.
Lifecycle == INSTANCE SprintLifecycle WITH
                 None <- None, SprintId <- SprintId, Story <- Story, Path <- Path,
                 Option <- Option, state <- state
DrivesTheLifecycle == [][Lifecycle!Next]_state

\* Every sprint gets its ruling: no refusal, death, half-done task, edit or tainted commit
\* leaves it where invoking it again and doing what it says does not help.
EverySprintIsRuled == <>(state.gates["G3"] # None)
=============================================================================
