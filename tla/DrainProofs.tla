---------------------------- MODULE DrainProofs ----------------------------
(***************************************************************************)
(* What TLAPS proves of the walk of EXECUTE: which work may be recorded    *)
(* done, whatever runs die and whatever the plan's headings share. What    *)
(* the prose itself lets go of is marked adrift in Drain, and no theorem   *)
(* here speaks of it.                                                      *)
(***************************************************************************)
EXTENDS ConductorProofs

----------------------------------------------------------------------------
(* The inductive invariant. *)

Cycle == {"implement", "review", "scoped"}
AtNamed == run.n \in DOMAIN plan /\ plan[run.n] # {}

\* Some story of the heading is BLOCKED or PARKED, which nothing takes back.
Stuck(n) == \E t \in plan[n] \cap DOMAIN state.tasks : state.tasks[t] \in {"BLOCKED", "PARKED"}

Tainted(i) == \E f \in Foreign : Introduced(i, f)

\* A commit that must not come to stand behind a done task, and may still.
Owed(i) == /\ log[i].who = "implementer" /\ plan[log[i].n] # {} /\ ~log[i].adrift
           /\ ~Stuck(log[i].n)
           /\ ~log[i].seen \/ Tainted(i)

\* The heading of such a commit is the first one that waits: a new run walks into it.
OwedIsFirst ==
    \A i \in DOMAIN log : Owed(i) => /\ Pending(log[i].n) # {}
                                     /\ \A k \in DOMAIN plan : k < log[i].n => Pending(k) = {}

\* It is the work of the cycle that is going on, or about to be blocked, or there is a
\* recorded status to tell by: the run does not know about the commit yet, and will see at
\* the heading that HEAD has moved.
OwedIsWatched ==
    \A i \in DOMAIN log : Owed(i) =>
        /\ anchor # None => i > anchor
        /\ \/ run.pc \in Cycle /\ run.n = log[i].n /\ i > run.base
           \/ /\ run.pc = "record" /\ run.n = log[i].n /\ run.report = "BLOCKED"
              /\ anchor = None => i > run.base
           \/ /\ anchor # None
              /\ \/ run.pc \in {"stopped", "execute", "scan"}
                 \/ run.pc = "walk" /\ ~run.checked /\ run.n <= log[i].n
                 \/ run.pc \in Cycle /\ ~AtNamed /\ ~run.checked /\ run.n <= log[i].n

Headings == \A i \in DOMAIN log :
                log[i].who = "implementer" => log[i].n \in DOMAIN plan

\* Where the walk is, everything before it is terminal.
WalkInv ==
    /\ run.pc \in {"walk", "record"} \cup Cycle =>
           run.n >= 1 /\ \A k \in DOMAIN plan : k < run.n => Pending(k) = {}
    /\ run.pc \in {"record"} \cup Cycle => run.n \in DOMAIN plan
    /\ run.pc \notin {"walk", "record", "halt"} \cup Cycle => ~run.checked

CycleInv ==
    run.pc \in Cycle =>
        /\ \A j \in DOMAIN log : j > run.base => log[j].who = "implementer" /\ log[j].n = run.n
        /\ AtNamed => Pending(run.n) # {} /\ run.checked /\ (anchor # None => anchor <= run.base)
        /\ run.pc \in {"review", "scoped"} => run.report \in RESOLVING_STATUSES \cup {"BLOCKED"}
        /\ run.pc = "scoped" /\ run.report # "BLOCKED" =>
               \A j \in DOMAIN log : j > run.base => log[j].seen

RecordInv ==
    run.pc = "record" => /\ Pending(run.n) \subseteq run.todo
                         /\ run.todo \subseteq plan[run.n] /\ run.todo # {}
                         /\ run.report \in RESOLVING_STATUSES \cup {"BLOCKED"}
                         /\ run.checked

DrainInv == Headings /\ OwedIsFirst /\ OwedIsWatched /\ WalkInv /\ CycleInv /\ RecordInv

----------------------------------------------------------------------------
(* What a step makes of the log: commits are added, some are shown and     *)
(* some are let go of.                                                     *)

LogGrows ==
    /\ HEAD \in Nat /\ HEAD' \in Nat /\ HEAD' >= HEAD
    /\ DOMAIN log = 1..HEAD /\ DOMAIN log' = 1..HEAD'
    /\ \A i \in DOMAIN log : /\ log'[i].who = log[i].who /\ log'[i].n = log[i].n
                             /\ log'[i].tree = log[i].tree /\ (log[i].seen => log'[i].seen)
                             /\ (log[i].adrift => log'[i].adrift)

\* The steps that write to the branch.
LEMMA LogWriters ==
    ASSUME Next, log' # log
    PROVE  \/ planner_commits \/ commit_out_of_band \/ track \/ write_back \/ commit_artifacts
           \/ stop_on_commits \/ record_action \/ die
           \/ implementer_commits \/ approve_task \/ send_back \/ escalate
           \/ report_needs_context \/ stop_on_foreign
  <1>1. CASE execute_stage
    BY <1>1 DEF execute_stage, DrainNext, scan_plan, start_drain, skip_heading, block_half_done,
       dispatch, report_done, report_blocked, end_cycle, record, cut_package, advance_to_review
  <1>2. CASE ~execute_stage
    BY <1>2 DEF Next, Runs, Attended, invoke, scope_resumes, record_doc, audit_doc, dispatch_scope,
       gate_unanswered, gate_rejected, gate_approved, cross, plan_resumes, plan_without_doc,
       dispatch_plan, planner_writes, head_unmoved, audit_plan, load_tasks, load_refused, enter_execute,
       review_guard, artifacts_tracked, stop_on_untracked, stage_artifacts, commit_refused, ask,
       decide, park, approve, refuse_replan, replan, repair, edit, install, recut, OnlyRun, OnlyState,
       drain_vars
  <1> QED BY <1>1, <1>2

LEMMA AppendGrows ==
    ASSUME IInv, NEW who \in {"implementer", "planner", "conductor", "operator"}, NEW n \in Nat,
           NEW tree \in SUBSET Path, log' = Append(log, CommitOf(who, n, tree))
    PROVE  LogGrows /\ DOMAIN log' \ DOMAIN log = {HEAD + 1}
           /\ log'[HEAD + 1].who = who /\ log'[HEAD + 1].n = n /\ log'[HEAD + 1].tree = tree
  <1>1. /\ HEAD' = HEAD + 1 /\ HEAD \in Nat
        /\ DOMAIN log' = DOMAIN log \cup {HEAD + 1} /\ DOMAIN log = 1..HEAD
        /\ \A i \in DOMAIN log : log'[i] = log[i]
        /\ log'[HEAD + 1] = CommitOf(who, n, tree)
    BY AppendType
  <1> QED BY <1>1 DEF LogGrows, CommitOf

LEMMA ShowsGrows == ASSUME IInv, NEW base, Shows(base) PROVE LogGrows /\ DOMAIN log' = DOMAIN log
  <1>1. \A i \in DOMAIN log : log[i].seen => log'[i].seen
    BY ShowsType, Zenon
  <1>2. \A i \in DOMAIN log : log[i].adrift => log'[i].adrift
    BY ShowsType, Zenon
  <1> QED BY <1>1, <1>2, ShowsType DEF LogGrows

LEMMA LeavesGrows == ASSUME IInv, LeavesBehind PROVE LogGrows /\ DOMAIN log' = DOMAIN log
  <1>1. \A i \in DOMAIN log : log[i].seen => log'[i].seen
    BY LeavesType, Zenon
  <1>2. \A i \in DOMAIN log : log[i].adrift => log'[i].adrift
    BY LeavesType, Zenon
  <1> QED BY <1>1, <1>2, LeavesType DEF LogGrows

LEMMA SameGrows == ASSUME IInv, UNCHANGED log PROVE LogGrows /\ DOMAIN log' = DOMAIN log
  <1>1. log \in Seq(Commit)
    BY DEF IInv, TypeOK
  <1> QED BY <1>1 DEF LogGrows, HEAD

LEMMA LosesGrows == ASSUME IInv, LosesBase PROVE LogGrows /\ DOMAIN log' = DOMAIN log
  <1>1. CASE anchor = None
    BY <1>1, LeavesGrows DEF LosesBase
  <1>2. CASE anchor # None
    BY <1>2, SameGrows DEF LosesBase
  <1> QED BY <1>1, <1>2

\* Nobody but an implementer, from its cycle, adds a commit of an implementer.
LEMMA LogGrowth ==
    ASSUME IInv, Next
    PROVE  /\ LogGrows
           /\ ~implementer_commits => \A i \in DOMAIN log' \ DOMAIN log : log'[i].who # "implementer"
  <1>1. CASE UNCHANGED log
    BY <1>1, SameGrows
  <1>2. CASE planner_commits
    <2>1. PICK tree \in {Tree, Tree \cup OnDisk} : log' = Append(log, CommitOf("planner", 0, tree))
      BY <1>2 DEF planner_commits, Commits
    <2>2. tree \in SUBSET Path
      BY <2>1, TreeType
    <2> QED BY <2>1, <2>2, AppendGrows
  <1>3. CASE commit_out_of_band
    <2>1. PICK tree \in {Tree, Tree \ Foreign}, swept \in {{}, IF Isolated THEN {} ELSE staged} :
              log' = Append(log, CommitOf("operator", 0, tree \cup swept))
      BY <1>3 DEF commit_out_of_band, Commits
    <2>2. staged \subseteq Path
      BY DEF IInv, TypeOK
    <2>3. (tree \cup swept) \in SUBSET Path
      BY <2>1, <2>2, TreeType
    <2>4. 0 \in Nat /\ "operator" \in {"implementer", "planner", "conductor", "operator"}
          /\ "operator" # "implementer"
      OBVIOUS
    <2> DEFINE taken == tree \cup swept
    <2>5. taken \in SUBSET Path /\ log' = Append(log, CommitOf("operator", 0, taken))
      BY <2>1, <2>3
    <2> HIDE DEF taken
    <2>6. LogGrows /\ DOMAIN log' \ DOMAIN log = {HEAD + 1} /\ log'[HEAD + 1].who = "operator"
      BY <2>4, <2>5, AppendGrows
    <2> QED BY <2>4, <2>6
  <1>4. ASSUME NEW who \in {"conductor", "operator"}, NEW index \in SUBSET Path,
               CommitsIndex(who, index), log' # log
        PROVE  LogGrows /\ \A i \in DOMAIN log' \ DOMAIN log : log'[i].who # "implementer"
    <2>1. log' = Append(log, CommitOf(who, 0, index))
      BY <1>4 DEF CommitsIndex
    <2>2. 0 \in Nat /\ who \in {"implementer", "planner", "conductor", "operator"} /\ who # "implementer"
      OBVIOUS
    <2>3. LogGrows /\ DOMAIN log' \ DOMAIN log = {HEAD + 1} /\ log'[HEAD + 1].who = who
      BY <2>1, <2>2, AppendGrows
    <2> QED BY <2>2, <2>3
  <1>5. CASE (track \/ write_back \/ commit_artifacts) /\ log' # log
    <2>1. Index \in SUBSET Path /\ Index \cup Untracked \in SUBSET Path
      BY IndexType
    <2> QED BY <1>4, <1>5, <2>1 DEF track, write_back, commit_artifacts
  <1>6. CASE \/ stop_on_commits \/ record_action \/ approve_task \/ send_back \/ escalate
             \/ report_needs_context \/ stop_on_foreign \/ die
    BY <1>6, ShowsGrows, LeavesGrows, LosesGrows
       DEF stop_on_commits, record_action, approve_task, send_back, escalate, report_needs_context,
       stop_on_foreign, die
  <1>7. CASE implementer_commits
    <2>1. PICK tree \in {Tree, Tree \ Foreign, Tree \cup Foreign \cup OnDisk} :
              log' = Append(log, CommitOf("implementer", run.n, tree))
      BY <1>7 DEF implementer_commits, Commits
    <2>2. tree \in SUBSET Path /\ run.n \in Nat
      BY <2>1, TreeType, ForeignAssumption DEF IInv, TypeOK
    <2> QED BY <1>7, <2>1, <2>2, AppendGrows
  <1> QED BY <1>1, <1>2, <1>3, <1>4, <1>5, <1>6, <1>7, LogWriters

----------------------------------------------------------------------------
(* What a step makes of the tasks: a task that is terminal stays so, and a *)
(* BLOCKED or PARKED one stays one of the two.                             *)

LEMMA TaskWriters ==
    ASSUME IInv, Next, state'.tasks # state.tasks
    PROVE  \/ load_tasks
           \/ \E t \in Story : park(t) \/ scan_plan(t)
           \/ \E t \in Story, status \in TERMINAL_STATUSES : record(t, status)
  <1>1. state \in Sprint
    BY DEF IInv, TypeOK
  <1>2. \A g, d, a, p, to : /\ WithGate(state, g, d).tasks = state.tasks
                            /\ WithArtifact(state, a, p).tasks = state.tasks
                            /\ WithStage(state, to).tasks = state.tasks
    BY <1>1 DEF WithGate, WithArtifact, WithStage, Sprint
  <1> QED BY <1>2, Writers DEF record_doc, audit_plan, cross, approve, gate_rejected, gate_approved,
          replan, advance_to_review

\* What recording a report makes of a task that is BLOCKED or PARKED.
LEMMA RollUpIs ==
    ASSUME IInv, RecordInv, run.pc = "record", NEW t, NEW status \in RollUp(t),
           state.tasks[t] \in {"BLOCKED", "PARKED"}
    PROVE  status \in {"BLOCKED", "PARKED"}
  <1>1. run.report \in {"DONE", "DONE_WITH_CONCERNS", "BLOCKED"}
    BY DEF RecordInv, RESOLVING_STATUSES
  <1>2. Weight[state.tasks[t]] >= Weight[run.report] \/ run.report = "BLOCKED"
    BY <1>1 DEF Weight
  <1> QED BY <1>2 DEF RollUp

TasksEnd ==
    /\ DOMAIN state'.tasks = DOMAIN state.tasks
    /\ \A u \in DOMAIN state.tasks :
          \/ state'.tasks[u] = state.tasks[u]
          \/ /\ state'.tasks[u] \in TERMINAL_STATUSES
             /\ state.tasks[u] \in {"BLOCKED", "PARKED"} => state'.tasks[u] \in {"BLOCKED", "PARKED"}

LEMMA TasksStep == ASSUME IInv, RecordInv, Next, ~load_tasks PROVE TasksEnd
  <1>1. state \in Sprint /\ {"BLOCKED", "PARKED"} \subseteq TERMINAL_STATUSES
        /\ TERMINAL_STATUSES \subseteq TaskStatus
    BY DEF IInv, TypeOK, TERMINAL_STATUSES, TaskStatus
  <1>2. CASE state'.tasks = state.tasks
    BY <1>2 DEF TasksEnd
  <1>3. ASSUME NEW t \in Story, park(t) PROVE TasksEnd
    <2>1. state' = WithStatus(state, t, "PARKED")
      BY <1>3 DEF park
    <2> QED BY <1>1, <2>1, WithStatusFields DEF TasksEnd
  <1>4. ASSUME NEW t \in Story, scan_plan(t) PROVE TasksEnd
    <2>1. state' = WithBlocker(state, t, Option) /\ Option \in SUBSET Option
      BY <1>4 DEF scan_plan
    <2> QED BY <1>1, <2>1, WithBlockerTasks DEF TasksEnd
  <1>5. ASSUME NEW t \in Story, NEW status \in TERMINAL_STATUSES, record(t, status) PROVE TasksEnd
    <2>1. state.tasks[t] \in {"BLOCKED", "PARKED"} => status \in {"BLOCKED", "PARKED"}
      BY <1>5, RollUpIs DEF record, At
    <2>2. Option \in SUBSET Option
      OBVIOUS
    <2>3. \/ state' = state
          \/ state' = WithBlocker(state, t, Option)
          \/ state' = WithStatus(state, t, status)
      BY <1>5 DEF record
    <2> QED BY <1>1, <2>1, <2>2, <2>3, WithBlockerTasks, WithStatusFields DEF TasksEnd
  <1> QED BY <1>2, <1>3, <1>4, <1>5, TaskWriters

\* The plan is read when the sprint starts and does not change.
LEMMA PlanStays == ASSUME Next PROVE plan' = plan
  <1>1. CASE execute_stage
    BY <1>1 DEF execute_stage, DrainNext, scan_plan, start_drain, skip_heading, block_half_done,
       dispatch, implementer_commits, report_done, report_blocked, report_needs_context,
       approve_task, send_back, escalate, stop_on_foreign, end_cycle, record, cut_package,
       advance_to_review
  <1>2. CASE ~execute_stage
    BY <1>2 DEF Next, Runs, Attended, invoke, die, scope_resumes, record_doc, audit_doc, dispatch_scope,
       gate_unanswered, gate_rejected, gate_approved, cross, plan_resumes, plan_without_doc,
       dispatch_plan, planner_commits, planner_writes, stop_on_commits, head_unmoved, audit_plan,
       load_tasks, load_refused, enter_execute, review_guard, artifacts_tracked, stop_on_untracked,
       record_action, stage_artifacts, commit_artifacts, commit_refused, ask, decide, park, approve, write_back, refuse_replan, replan, repair, edit,
       install, commit_out_of_band, track, recut, OnlyRun, OnlyState, drain_vars
  <1> QED BY <1>1, <1>2

LEMMA StuckStays ==
    ASSUME IInv, plan' = plan, TasksEnd, NEW n \in DOMAIN plan, Stuck(n)
    PROVE  Stuck(n)'
  <1>1. PICK t \in plan[n] \cap DOMAIN state.tasks : state.tasks[t] \in {"BLOCKED", "PARKED"}
    BY DEF Stuck
  <1>2. state'.tasks[t] \in {"BLOCKED", "PARKED"} /\ t \in plan'[n] \cap DOMAIN state'.tasks
    BY <1>1 DEF TasksEnd
  <1> QED BY <1>2 DEF Stuck

LEMMA PendingShrinks ==
    ASSUME plan' = plan, TasksEnd, NEW n
    PROVE  Pending(n)' \subseteq Pending(n)
  BY DEF Pending, Unfinished, TasksEnd

\* Nothing comes to be owed but what an implementer commits.
LEMMA OwedShrinks ==
    ASSUME IInv, plan' = plan, Headings, TasksEnd, LogGrows, NEW i \in DOMAIN log, Owed(i)'
    PROVE  Owed(i) /\ i \in DOMAIN log'
  <1>1. /\ log[i].who = "implementer" /\ plan[log[i].n] # {} /\ log'[i].n = log[i].n
        /\ i \in DOMAIN log' /\ log[i].n \in DOMAIN plan
    BY DEF Owed, LogGrows, Headings
  <1>2. ~Stuck(log[i].n)
    BY <1>1, StuckStays DEF Owed
  <1>3. ASSUME NEW f \in Foreign, Introduced(i, f)' PROVE Introduced(i, f)
    <2>0. HEAD \in Nat /\ HEAD' \in Nat /\ i \in 1..HEAD /\ HEAD \in i..HEAD'
          /\ \A j \in 1..HEAD : j \in DOMAIN log
      BY DEF LogGrows
    <2>1. \A j \in i..HEAD : j \in i..HEAD' /\ j \in DOMAIN log
      BY <2>0 DEF LogGrows
    <2>2. \A j \in i..HEAD : f \in log[j].tree
      BY <1>3, <2>1 DEF Introduced, LogGrows
    <2>3. f \in Tree
      BY <2>0, <2>2 DEF Tree, TreeAt
    <2>4. ASSUME NEW k \in 1..i, log[k].who = "implementer", log[k].n = log[i].n
          PROVE  f \notin TreeAt(k - 1)
      <3>1. k \in DOMAIN log /\ (k - 1 # 0 => k - 1 \in DOMAIN log)
        BY <2>0 DEF LogGrows
      <3>2. f \notin TreeAt(k - 1)'
        BY <1>1, <1>3, <2>4, <3>1 DEF Introduced, LogGrows
      <3> QED BY <3>1, <3>2 DEF TreeAt, LogGrows
    <2> QED BY <2>2, <2>3, <2>4 DEF Introduced
  <1>4. ~log'[i].seen => ~log[i].seen
    BY DEF LogGrows
  <1>5. Tainted(i)' => Tainted(i)
    BY <1>3 DEF Tainted
  <1>6. ~log[i].adrift /\ (~log[i].seen \/ Tainted(i))
    BY <1>4, <1>5 DEF Owed, LogGrows
  <1> QED BY <1>1, <1>2, <1>6 DEF Owed

----------------------------------------------------------------------------
(* The steps outside the walk. *)

LEMMA OwedInExecute ==
    ASSUME IInv, OwedIsFirst, NEW i \in DOMAIN log, Owed(i)
    PROVE  state.stage = "EXECUTE"
  <1>1. state.stage \in Stage /\ log[i].who = "implementer" /\ Pending(log[i].n) # {}
    BY DEF IInv, TypeOK, Sprint, Owed, OwedIsFirst
  <1>2. state.stage \notin {"SCOPE", "PLAN"}
    BY <1>1 DEF IInv, Untouched
  <1>3. state.stage # "REVIEW"
    BY <1>1 DEF IInv, Planned, Pending
  <1> QED BY <1>1, <1>2, <1>3 DEF Stage

EarlyPc == {"scope", "record_doc", "audit_doc", "scope_again", "gate1", "cross", "plan",
            "planning", "head_guard", "audit_plan", "tasks", "gate2"}
LatePc == {"guard", "artifacts", "commit", "action", "gate3", "decide", "generative-writeback",
           "park-at-boundary"}

LEMMA OutsideSteps ==
    ASSUME Next, ~execute_stage
    PROVE  \/ run' = run /\ run.pc = "stopped" /\ UNCHANGED <<state, anchor>>
           \/ die \/ invoke \/ enter_execute
           \/ run.pc \in EarlyPc
           \/ run.pc \in LatePc
  <1>1. \/ die \/ invoke \/ enter_execute \/ run.pc \in EarlyPc \/ run.pc \in LatePc
        \/ \E p \in Document : \/ repair(p)
                               \/ \E quality \in ({"missing"} \cup QualityOf(p)) \ {"sound"} :
                                      edit(p, quality)
        \/ \E skill \in Skill : install(skill)
        \/ commit_out_of_band \/ track \/ recut
    BY DEF Next, Runs, Attended, scope_resumes, record_doc, audit_doc, dispatch_scope, gate_unanswered,
       gate_rejected, gate_approved, cross, plan_resumes, plan_without_doc, dispatch_plan,
       planner_commits, planner_writes, stop_on_commits, head_unmoved, audit_plan, load_tasks,
       load_refused, review_guard, artifacts_tracked, stop_on_untracked, record_action,
       stage_artifacts, commit_artifacts, commit_refused, ask, decide, park, approve, write_back, refuse_replan, replan, At, Ruling, EarlyPc, LatePc, GateOf
  <1> QED BY <1>1 DEF repair, edit, install, commit_out_of_band, track, recut, Between, At, drain_vars

\* Only the walk finds out where HEAD comes from.
LEMMA OutsideChecked ==
    ASSUME IInv, Next, ~execute_stage
    PROVE  run'.checked \in {run.checked, FALSE}
  <1>0. run \in Conversation
    BY DEF IInv, TypeOK, Conversation
  <1>1. Stops => run'.checked = FALSE
    BY StopsType
  <1>2. \A pc : Goes(pc) => run'.checked = run.checked
    BY <1>0 DEF Goes, Conversation
  <1>3. audit_doc => run'.checked \in {run.checked, FALSE}
    BY <1>0, <1>1, <1>2 DEF audit_doc, Conversation
  <1>4. cross => run'.checked \in {run.checked, FALSE}
    BY <1>1 DEF cross, Stopped
  <1>5. dispatch_plan => run'.checked = run.checked
    BY <1>0 DEF dispatch_plan, Conversation
  <1>6. \A attested \in Attests : stage_artifacts(attested) => run'.checked = run.checked
    BY <1>0 DEF stage_artifacts, Conversation
  <1>7. \A named \in SUBSET Story : ask(named) => run'.checked = run.checked
    BY <1>0 DEF ask, Conversation
  <1>8. \A t \in Story : decide(t) => run'.checked \in {run.checked, FALSE}
    BY <1>0, <1>1 DEF decide, Conversation
  <1>9. write_back => run'.checked = run.checked
    BY <1>0 DEF write_back, Conversation
  <1>10. CASE \/ die \/ scope_resumes \/ record_doc \/ gate_unanswered
              \/ \E quality \in {docs[SprintDoc]} \cup QualityOf(SprintDoc) : dispatch_scope(quality)
              \/ \E gate \in {"G1", "G2"} : gate_rejected(gate) \/ gate_approved(gate)
              \/ invoke
    BY <1>1, <1>2, <1>10 DEF die, scope_resumes, record_doc, gate_unanswered, dispatch_scope,
       gate_rejected, gate_approved, invoke
  <1>11. CASE \/ plan_resumes \/ plan_without_doc \/ planner_commits \/ stop_on_commits \/ head_unmoved
              \/ audit_plan \/ load_tasks \/ load_refused \/ enter_execute
              \/ \E quality \in {docs[DevPlan]} \cup QualityOf(DevPlan) : planner_writes(quality)
    BY <1>1, <1>2, <1>11 DEF plan_resumes, plan_without_doc, planner_commits, stop_on_commits,
       head_unmoved, audit_plan, load_tasks, load_refused, enter_execute, planner_writes
  <1>12. CASE \/ review_guard \/ artifacts_tracked \/ stop_on_untracked \/ record_action \/ approve
              \/ commit_artifacts \/ commit_refused
              \/ \E shape \in REPLAN_SHAPES : refuse_replan(shape) \/ replan(shape)
              \/ \E t \in Story : park(t)
    BY <1>1, <1>2, <1>12 DEF review_guard, artifacts_tracked, stop_on_untracked, record_action,
       commit_artifacts, commit_refused, approve, refuse_replan, replan, park
  <1>13. CASE \/ \E p \in Document : \/ repair(p)
                                     \/ \E quality \in ({"missing"} \cup QualityOf(p)) \ {"sound"} :
                                            edit(p, quality)
              \/ \E skill \in Skill : install(skill)
              \/ commit_out_of_band \/ track \/ recut
    BY <1>13 DEF repair, edit, install, commit_out_of_band, track, recut, drain_vars
  <1> QED BY <1>3, <1>4, <1>5, <1>6, <1>7, <1>8, <1>9, <1>10, <1>11, <1>12, <1>13
      DEF Next, Runs, Attended

\* The walk is entered through its own first step only.
LEMMA OutsideWalk ==
    ASSUME IInv, IInv', Next, ~execute_stage
    PROVE  run'.pc \notin {"walk", "record", "halt"} \cup Cycle
  <1>0. run \in Conversation /\ state.stage \in Stage
    BY DEF IInv, TypeOK, Conversation, Sprint
  <1>1. CASE run.pc \in EarlyPc /\ state'.stage = state.stage
    <2>1. state.stage \in {"SCOPE", "PLAN"}
      BY <1>1, StageIs DEF EarlyPc
    <2>2. state'.stage \in {"SCOPE", "PLAN"} /\ run'.pc \in StagePc[state'.stage] \cup {"stopped"}
      BY <1>1, <2>1 DEF IInv, PcFits
    <2> QED BY <2>2 DEF StagePc, Cycle
  <1>2. CASE run.pc \in EarlyPc /\ state'.stage # state.stage
    <2>1. state.stage \in {"SCOPE", "PLAN"} /\ run.pc # "halt"
      BY <1>2, StageIs DEF EarlyPc
    <2>2. cross
      BY <1>2, <2>1, StageMoves DEF advance_to_review, At
    <2>3. run' = [Stopped EXCEPT !.pc = FirstStep[NextStage[state.stage]]]
      BY <1>2, <2>2 DEF cross
    <2>4. FirstStep[NextStage[state.stage]] \in {"plan", "execute"}
      BY <2>1 DEF FirstStep, NextStage
    <2>5. run'.pc \in {"plan", "execute"}
      BY <2>3, <2>4 DEF Stopped
    <2> QED BY <2>5 DEF Cycle
  <1>3. CASE run.pc \in LatePc
    <2>1. state.stage = "REVIEW" /\ run.pc \notin {"cross", "halt"}
      BY <1>3, StageIs DEF LatePc
    <2>2. state'.stage = "REVIEW"
      BY <2>1, StageMoves DEF cross, advance_to_review, At
    <2>3. run'.pc \in StagePc["REVIEW"] \cup {"stopped"}
      BY <2>2 DEF IInv, PcFits
    <2> QED BY <2>3 DEF StagePc, Cycle
  <1>4. CASE die \/ invoke \/ enter_execute
    <2>1. FirstStep[state.stage] \in {"scope", "plan", "execute", "guard"}
      BY <1>0 DEF Stage, FirstStep
    <2>2. \A pc : Goes(pc) => run'.pc = pc
      BY <1>0 DEF Goes, Conversation
    <2>3. run'.pc \in {"stopped", "scan", "scope", "plan", "execute", "guard"}
      BY <1>4, <2>1, <2>2, StopsType DEF die, invoke, enter_execute
    <2> QED BY <2>3 DEF Cycle
  <1>5. CASE run' = run /\ run.pc = "stopped"
    BY <1>5 DEF Cycle
  <1> QED BY <1>1, <1>2, <1>3, <1>4, <1>5, OutsideSteps

\* The walk is over, and with it what is said of a cycle and of a record.
LEMMA NoWalk ==
    ASSUME run'.pc \notin {"walk", "record", "halt"} \cup Cycle, ~run'.checked
    PROVE  WalkInv' /\ CycleInv' /\ RecordInv'
  BY DEF WalkInv, CycleInv, RecordInv, Cycle

\* Before EXECUTE no implementer has committed.
LEMMA EarlyKeeps ==
    ASSUME IInv, IInv', DrainInv, Next, ~execute_stage, run.pc \in EarlyPc
    PROVE  DrainInv'
  <1>1. state.stage \in {"SCOPE", "PLAN"} /\ run.pc # "implement"
    BY StageIs DEF EarlyPc
  <1>2. \A i \in DOMAIN log' : log'[i].who # "implementer"
    <2>1. \A i \in DOMAIN log : log[i].who # "implementer"
      BY <1>1 DEF IInv, Untouched
    <2>2. ~implementer_commits
      BY <1>1 DEF implementer_commits, At
    <2> QED BY <2>1, <2>2, LogGrowth DEF LogGrows
  <1>3. Headings' /\ OwedIsFirst' /\ OwedIsWatched'
    BY <1>2 DEF Headings, OwedIsFirst, OwedIsWatched, Owed
  <1>4. run'.pc \notin {"walk", "record", "halt"} \cup Cycle
    BY OutsideWalk
  <1>5. ~run.checked
    BY DEF DrainInv, WalkInv, EarlyPc, Cycle
  <1>6. WalkInv' /\ CycleInv' /\ RecordInv'
    BY <1>4, <1>5, OutsideChecked, NoWalk
  <1> QED BY <1>3, <1>6 DEF DrainInv

\* After EXECUTE nothing is owed: every task is terminal.
LEMMA LateKeeps ==
    ASSUME IInv, IInv', DrainInv, Next, ~execute_stage, run.pc \in LatePc
    PROVE  DrainInv'
  <1>1. state.stage = "REVIEW"
    BY StageIs DEF LatePc
  <1>2. /\ ~implementer_commits /\ ~load_tasks /\ ~cross /\ ~advance_to_review /\ ~run.checked
    BY DEF implementer_commits, load_tasks, cross, advance_to_review, At, LatePc, DrainInv, WalkInv,
       Cycle
  <1>3. state'.stage = "REVIEW"
    BY <1>1, <1>2, StageMoves
  <1>4. /\ LogGrows /\ TasksEnd /\ plan' = plan
        /\ \A i \in DOMAIN log' \ DOMAIN log : log'[i].who # "implementer"
    BY <1>2, LogGrowth, TasksStep, PlanStays DEF DrainInv
  <1>5. Headings'
    BY <1>4 DEF DrainInv, Headings, LogGrows
  <1>6. \A i \in DOMAIN log' : ~Owed(i)'
    <2>1. ASSUME NEW i \in DOMAIN log, Owed(i)' PROVE FALSE
      <3>1. Owed(i)
        BY <1>4, <2>1, OwedShrinks DEF DrainInv
      <3> QED BY <1>1, <3>1, OwedInExecute DEF DrainInv
    <2> QED BY <1>4, <2>1 DEF Owed
  <1>7. run'.pc \notin {"walk", "record", "halt"} \cup Cycle
    BY OutsideWalk
  <1>8. WalkInv' /\ CycleInv' /\ RecordInv'
    BY <1>2, <1>7, OutsideChecked, NoWalk
  <1> QED BY <1>5, <1>6, <1>8 DEF DrainInv, OwedIsFirst, OwedIsWatched

\* Runs that start, enter EXECUTE or die, and the operator between them.
LEMMA BetweenKeeps ==
    ASSUME IInv, IInv', DrainInv, Next, ~execute_stage,
           \/ run' = run /\ run.pc = "stopped" /\ UNCHANGED <<state, anchor>>
           \/ die \/ invoke \/ enter_execute
    PROVE  DrainInv'
  <1>0. run \in Conversation /\ state.stage \in Stage
    BY DEF IInv, TypeOK, Conversation, Sprint
  <1>1. UNCHANGED <<state, anchor>>
    BY DEF die, invoke, enter_execute
  <1>2. run'.pc \in {"stopped", "scan", "scope", "plan", "execute", "guard"}
    <2>1. FirstStep[state.stage] \in {"scope", "plan", "execute", "guard"}
      BY <1>0 DEF Stage, FirstStep
    <2>2. \A pc : Goes(pc) => run'.pc = pc
      BY <1>0 DEF Goes, Conversation
    <2> QED BY <2>1, <2>2, StopsType DEF die, invoke, enter_execute
  <1>3. state.stage = "EXECUTE" => run'.pc \in {"stopped", "execute", "scan"}
    BY <1>1, <1>2 DEF IInv, PcFits, StagePc
  <1>4. run'.pc = "stopped" \/ run.pc \in {"stopped", "execute"}
    BY DEF die, invoke, enter_execute, At, Stops, Stopped
  <1>5. WalkInv' /\ CycleInv' /\ RecordInv'
    <2>1. ~run'.checked
      <3>1. CASE Stops
        BY <3>1, StopsType
      <3>2. CASE run.pc \in {"stopped", "execute"}
        BY <3>2, OutsideChecked DEF DrainInv, WalkInv, Cycle
      <3> QED BY <3>1, <3>2 DEF die, invoke, enter_execute, At
    <2> QED BY <1>2, <2>1, NoWalk DEF Cycle
  <1>6. /\ LogGrows /\ TasksEnd /\ plan' = plan
        /\ \A i \in DOMAIN log' \ DOMAIN log : log'[i].who # "implementer"
    <2>1. ~implementer_commits
      BY <1>1, <1>2, <1>4 DEF implementer_commits, At
    <2> QED BY <1>1, <2>1, LogGrowth, PlanStays DEF TasksEnd
  <1>7. Headings'
    BY <1>6 DEF DrainInv, Headings, LogGrows
  <1>8. ASSUME NEW i \in DOMAIN log', Owed(i)'
        PROVE  i \in DOMAIN log /\ Owed(i) /\ log'[i].n = log[i].n /\ state.stage = "EXECUTE"
    <2>1. i \in DOMAIN log
      BY <1>6, <1>8 DEF Owed
    <2>2. Owed(i) /\ log'[i].n = log[i].n
      BY <1>6, <1>8, <2>1, OwedShrinks DEF DrainInv, LogGrows
    <2> QED BY <2>1, <2>2, OwedInExecute DEF DrainInv
  <1>9. \A n : Pending(n)' = Pending(n)
    BY <1>1, <1>6 DEF Pending, Unfinished
  <1>10. OwedIsFirst'
    BY <1>6, <1>8, <1>9 DEF DrainInv, OwedIsFirst
  <1>11. ASSUME NEW i \in DOMAIN log, Owed(i)' PROVE anchor # None
    <2>1. Owed(i)
      BY <1>8, <1>6, <1>11 DEF LogGrows
    <2>2. CASE die
      <3>1. anchor = None => SinceBase(i)
        BY <2>1 DEF DrainInv, OwedIsWatched, Owed, SinceBase
      <3>2. anchor = None /\ SinceBase(i) => log'[i].adrift
        BY <2>2, LosesType DEF die
      <3> QED BY <1>11, <3>1, <3>2 DEF Owed
    <2>3. CASE ~die
      BY <1>4, <2>1, <2>3 DEF DrainInv, OwedIsWatched, Cycle, invoke, enter_execute, At
    <2> QED BY <2>2, <2>3
  <1>12. OwedIsWatched'
    BY <1>1, <1>3, <1>8, <1>11 DEF DrainInv, OwedIsWatched
  <1> QED BY <1>5, <1>7, <1>10, <1>12 DEF DrainInv

LEMMA OutsideKeeps == ASSUME IInv, IInv', DrainInv, Next, ~execute_stage PROVE DrainInv'
  BY OutsideSteps, EarlyKeeps, LateKeeps, BetweenKeeps

----------------------------------------------------------------------------
(* The walk. *)

LEMMA OwedIs ==
    ASSUME IInv, DrainInv, NEW i \in DOMAIN log, Owed(i)
    PROVE  /\ i \in Nat /\ i <= HEAD /\ HEAD \in Nat
           /\ log[i].n \in DOMAIN plan /\ log[i].n \in Nat /\ log[i].n >= 1
           /\ plan[log[i].n] # {} /\ Pending(log[i].n) # {}
           /\ \A k \in DOMAIN plan : k < log[i].n => Pending(k) = {}
           /\ anchor # None => anchor \in Nat /\ i > anchor
           /\ log[i].who = "implementer" /\ (~log[i].seen \/ Tainted(i)) /\ ~Stuck(log[i].n)
  <1>1. log[i].n \in DOMAIN plan /\ log \in Seq(Commit) /\ anchor \in Nat \cup {None}
    BY DEF DrainInv, Headings, Owed, IInv, TypeOK
  <1>2. log[i].n \in Nat /\ log[i].n >= 1
    BY <1>1, NamedHeadings
  <1>3. i \in Nat /\ i <= HEAD /\ HEAD \in Nat
    BY <1>1 DEF HEAD
  <1> QED BY <1>1, <1>2, <1>3 DEF DrainInv, OwedIsFirst, OwedIsWatched, Owed

\* A step that moves the run and nothing that is owed or pending.
LEMMA RunStepKeeps ==
    ASSUME DrainInv, UNCHANGED <<state, plan, log, anchor>>,
           \A i \in DOMAIN log : Owed(i) =>
               \/ run'.pc \in Cycle /\ run'.n = log[i].n /\ i > run'.base
               \/ /\ run'.pc = "record" /\ run'.n = log[i].n /\ run'.report = "BLOCKED"
                  /\ anchor = None => i > run'.base
               \/ /\ anchor # None
                  /\ \/ run'.pc \in {"stopped", "execute", "scan"}
                     \/ run'.pc = "walk" /\ ~run'.checked /\ run'.n <= log[i].n
                     \/ run'.pc \in Cycle /\ ~AtNamed' /\ ~run'.checked /\ run'.n <= log[i].n,
           WalkInv', CycleInv', RecordInv'
    PROVE  DrainInv'
  <1>1. \A i : Owed(i)' => Owed(i)
    BY DEF Owed, Stuck, Tainted, Introduced, Tree, TreeAt, HEAD
  <1>2. \A n : Pending(n)' = Pending(n)
    BY DEF Pending, Unfinished
  <1>3. Headings'
    BY DEF DrainInv, Headings
  <1>4. OwedIsFirst'
    BY <1>1, <1>2 DEF DrainInv, OwedIsFirst
  <1>5. OwedIsWatched'
    BY <1>1 DEF DrainInv, OwedIsWatched
  <1> QED BY <1>3, <1>4, <1>5 DEF DrainInv

LEMMA StartDrainKeeps == ASSUME IInv, DrainInv, start_drain PROVE DrainInv'
  <1>1. /\ UNCHANGED <<state, plan, log, anchor>> /\ run.pc = "scan" /\ ~run.checked
        /\ Walks(FirstHeading) /\ run \in Conversation
    BY DEF start_drain, At, DrainInv, WalkInv, Cycle, IInv, TypeOK, Conversation
  <1>2. run'.pc = "walk" /\ run'.n = FirstHeading /\ ~run'.checked
    BY <1>1, FirstHeadingIs, WalksType
  <1>3. \A i \in DOMAIN log : Owed(i) => run'.n <= log[i].n /\ anchor # None
    BY <1>1, <1>2, OwedIs, FirstHeadingIs DEF DrainInv, OwedIsWatched, Cycle
  <1>4. WalkInv' /\ CycleInv' /\ RecordInv'
    BY <1>1, <1>2, FirstHeadingIs DEF WalkInv, CycleInv, RecordInv, Cycle, Pending, Unfinished
  <1> QED BY <1>1, <1>2, <1>3, <1>4, RunStepKeeps

\* What the walk knows at a heading.
LEMMA AtHeading ==
    ASSUME IInv, DrainInv, Heading
    PROVE  /\ run \in Conversation /\ run.pc = "walk" /\ run.n \in Nat /\ run.n >= 1
           /\ run.n \in DOMAIN plan /\ \A k \in DOMAIN plan : k \in Nat
           /\ \A k \in DOMAIN plan : k < run.n => Pending(k) = {}
           /\ \A i \in DOMAIN log : Owed(i) => /\ ~run.checked /\ run.n <= log[i].n
                                              /\ log[i].n \in Nat /\ anchor # None
           /\ \A i \in DOMAIN log : Owed(i) /\ Pending(run.n) # {} => run.n = log[i].n
  <1>1. /\ run \in Conversation /\ run.pc = "walk" /\ run.n \in Nat /\ run.n >= 1
        /\ run.n \in DOMAIN plan /\ \A k \in DOMAIN plan : k \in Nat
    BY NamedHeadings DEF Heading, At, IInv, TypeOK, Conversation
  <1>2. \A k \in DOMAIN plan : k < run.n => Pending(k) = {}
    BY <1>1 DEF DrainInv, WalkInv
  <1>3. \A i \in DOMAIN log : Owed(i) => /\ ~run.checked /\ run.n <= log[i].n
                                         /\ log[i].n \in Nat /\ anchor # None
    BY <1>1, OwedIs DEF DrainInv, OwedIsWatched, Cycle
  <1>4. \A i \in DOMAIN log : Owed(i) /\ Pending(run.n) # {} => run.n = log[i].n
    BY <1>1, <1>3, OwedIs
  <1> QED BY <1>1, <1>2, <1>3, <1>4

LEMMA SkipHeadingKeeps == ASSUME IInv, DrainInv, skip_heading PROVE DrainInv'
  <1>1. /\ UNCHANGED <<state, plan, log, anchor>> /\ Heading /\ Pending(run.n) = {}
        /\ Walks(run.n + 1)
    BY DEF skip_heading
  <1>2. run.n + 1 \in Nat /\ run \in Conversation
    BY <1>1, AtHeading
  <1>3. run'.pc = "walk" /\ run'.n = run.n + 1 /\ run'.checked = run.checked
    BY <1>1, <1>2, WalksType
  <1>4. ASSUME NEW i \in DOMAIN log, Owed(i)
        PROVE  ~run'.checked /\ run'.n <= log[i].n /\ anchor # None
    <2>1. ~run.checked /\ run.n <= log[i].n /\ log[i].n \in Nat /\ run.n \in Nat /\ anchor # None
      BY <1>1, <1>4, AtHeading
    <2>2. run.n # log[i].n
      BY <1>1, <1>4, OwedIs
    <2> QED BY <1>3, <2>1, <2>2
  <1>5. WalkInv' /\ CycleInv' /\ RecordInv'
    <2>1. \A k \in DOMAIN plan : k < run.n + 1 => Pending(k) = {}
      BY <1>1, AtHeading
    <2>2. \A k : Pending(k)' = Pending(k)
      BY <1>1 DEF Pending, Unfinished
    <2>3. run.n + 1 >= 1
      BY <1>1, AtHeading
    <2> QED BY <1>1, <1>3, <2>1, <2>2, <2>3 DEF WalkInv, CycleInv, RecordInv, Cycle
  <1> QED BY <1>1, <1>3, <1>4, <1>5, RunStepKeeps

\* A resumed run that finds HEAD moved has found the one heading something is owed at.
LEMMA BlockHalfDoneKeeps == ASSUME IInv, DrainInv, block_half_done PROVE DrainInv'
  <1>1. /\ UNCHANGED <<state, plan, log, anchor>> /\ Heading /\ Pending(run.n) # {}
        /\ run' = [run EXCEPT !.pc = "record", !.todo = Pending(run.n), !.report = "BLOCKED",
                              !.checked = TRUE]
    BY DEF block_half_done
  <1>2. /\ run'.pc = "record" /\ run'.n = run.n /\ run'.report = "BLOCKED"
        /\ run'.todo = Pending(run.n) /\ run'.checked
    BY <1>1, AtHeading DEF Conversation
  <1>3. WalkInv' /\ CycleInv' /\ RecordInv'
    <2>1. \A k : Pending(k)' = Pending(k)
      BY <1>1 DEF Pending, Unfinished
    <2>2. WalkInv' /\ CycleInv'
      BY <1>1, <1>2, <2>1, AtHeading DEF WalkInv, CycleInv, Cycle
    <2>3. RecordInv'
      BY <1>1, <1>2, <2>1 DEF RecordInv, Pending
    <2> QED BY <2>2, <2>3
  <1>4. anchor # None
    BY DEF block_half_done, Moved
  <1> QED BY <1>1, <1>2, <1>3, <1>4, AtHeading, RunStepKeeps

\* No dispatch at a heading that names a story while something is owed there.
LEMMA DispatchKeeps == ASSUME IInv, DrainInv, dispatch PROVE DrainInv'
  <1>0. HEAD \in Nat /\ (anchor # None => anchor <= HEAD /\ anchor \in Nat) /\ DOMAIN log = 1..HEAD
    BY DEF IInv, Behind, TypeOK, HEAD
  <1>1. /\ UNCHANGED <<state, plan, log, anchor>> /\ Heading
        /\ plan[run.n] = {} \/ (Pending(run.n) # {} /\ (run.checked \/ ~Moved))
    BY DEF dispatch
  <1>2. /\ run'.pc = "implement" /\ run'.base = HEAD /\ run'.n = run.n
        /\ run'.checked = (run.checked \/ plan[run.n] # {})
    BY <1>0, <1>1, AtHeading, DispatchType
  <1>3. ASSUME NEW i \in DOMAIN log, Owed(i)
        PROVE  ~AtNamed' /\ ~run'.checked /\ run'.n <= log[i].n /\ anchor # None
    <2>1. ~run.checked /\ run.n <= log[i].n /\ anchor # None
      BY <1>1, <1>3, AtHeading
    <2>2. Moved
      BY <1>0, <1>3, <2>1, OwedIs DEF Moved
    <2>3. plan[run.n] = {}
      BY <1>1, <2>1, <2>2
    <2> QED BY <1>1, <1>2, <2>1, <2>3 DEF AtNamed
  <1>4. WalkInv' /\ RecordInv'
    <2>1. \A k : Pending(k)' = Pending(k)
      BY <1>1 DEF Pending, Unfinished
    <2> QED BY <1>1, <1>2, <2>1, AtHeading DEF WalkInv, RecordInv, Cycle
  <1>5. CycleInv'
    <2>1. \A j \in DOMAIN log : ~(j > HEAD)
      BY <1>0
    <2>2. plan[run.n] # {} => Pending(run.n) # {} /\ run'.checked
      BY <1>1, <1>2
    <2>3. Pending(run.n)' = Pending(run.n)
      BY <1>1, <1>2 DEF Pending, Unfinished
    <2>4. AtNamed' => plan[run.n] # {}
      BY <1>1, <1>2 DEF AtNamed
    <2> QED BY <1>0, <1>1, <1>2, <2>1, <2>2, <2>3, <2>4 DEF CycleInv
  <1> QED BY <1>1, <1>2, <1>3, <1>4, <1>5, RunStepKeeps DEF Cycle

\* What is true within a cycle.
LEMMA InCycle ==
    ASSUME IInv, DrainInv, run.pc \in Cycle
    PROVE  /\ run \in Conversation /\ run.n \in DOMAIN plan /\ run.n \in Nat /\ run.n >= 1
           /\ run.base \in Nat
           /\ \A i \in DOMAIN log : Owed(i) =>
                 \/ run.n = log[i].n /\ i > run.base
                 \/ plan[run.n] = {} /\ ~run.checked /\ run.n <= log[i].n /\ anchor # None
  <1>1. run \in Conversation /\ run.n \in DOMAIN plan /\ run.base \in Nat
    BY DEF IInv, TypeOK, Conversation, DrainInv, WalkInv
  <1>2. run.n \in Nat /\ run.n >= 1
    BY <1>1, NamedHeadings
  <1>3. ASSUME NEW i \in DOMAIN log, Owed(i)
        PROVE  \/ run.n = log[i].n /\ i > run.base
               \/ plan[run.n] = {} /\ ~run.checked /\ run.n <= log[i].n /\ anchor # None
    BY <1>1, <1>3 DEF DrainInv, OwedIsWatched, Cycle, AtNamed
  <1> QED BY <1>1, <1>2, <1>3

\* A step that stays in the cycle and commits nothing.
LEMMA CycleStepKeeps ==
    ASSUME IInv, DrainInv, run.pc \in Cycle, UNCHANGED <<state, plan, anchor>>,
           LogGrows, DOMAIN log' = DOMAIN log,
           run'.pc \in Cycle, run'.n = run.n, run'.base = run.base, run'.checked = run.checked,
           run'.pc \in {"review", "scoped"} => run'.report \in RESOLVING_STATUSES \cup {"BLOCKED"},
           run'.pc = "scoped" /\ run'.report # "BLOCKED" =>
               \A j \in DOMAIN log : j > run.base => log'[j].seen
    PROVE  DrainInv'
  <1>1. \A n : Pending(n)' = Pending(n)
    BY DEF Pending, Unfinished
  <1>2. Headings'
    BY DEF DrainInv, Headings, LogGrows
  <1>3. ASSUME NEW i \in DOMAIN log', Owed(i)' PROVE Owed(i) /\ log'[i].n = log[i].n
    BY <1>3, OwedShrinks DEF DrainInv, LogGrows, TasksEnd
  <1>4. OwedIsFirst'
    BY <1>1, <1>3 DEF DrainInv, OwedIsFirst
  <1>5. OwedIsWatched'
    BY <1>3 DEF DrainInv, OwedIsWatched, Cycle, AtNamed
  <1>6. WalkInv' /\ RecordInv'
    BY <1>1 DEF DrainInv, WalkInv, RecordInv, Cycle
  <1>7. CycleInv'
    <2>1. \A j \in DOMAIN log' : j > run'.base => log'[j].who = "implementer" /\ log'[j].n = run'.n
      BY DEF DrainInv, CycleInv, LogGrows
    <2>2. AtNamed' => Pending(run.n) # {} /\ run'.checked /\ (anchor' # None => anchor' <= run'.base)
      BY DEF DrainInv, CycleInv, AtNamed
    <2>3. Pending(run.n)' = Pending(run.n)
      BY DEF Pending, Unfinished
    <2> QED BY <2>1, <2>2, <2>3 DEF CycleInv
  <1> QED BY <1>2, <1>4, <1>5, <1>6, <1>7 DEF DrainInv

LEMMA ReportsKeep ==
    ASSUME IInv, DrainInv,
           (\E status \in Reports : report_done(status)) \/ report_blocked
    PROVE  DrainInv'
  <1>0. run \in Conversation /\ run.pc = "implement" /\ UNCHANGED <<state, plan, log, anchor>>
    BY DEF IInv, TypeOK, Conversation, report_done, report_blocked, At
  <1>1. LogGrows /\ DOMAIN log' = DOMAIN log
    BY <1>0, SameGrows
  <1>2. ASSUME NEW status \in Reports, report_done(status) PROVE DrainInv'
    <2>1. run' = [run EXCEPT !.pc = "review", !.report = status]
      BY <1>2 DEF report_done
    <2>2. /\ run'.pc = "review" /\ run'.n = run.n /\ run'.base = run.base
          /\ run'.checked = run.checked /\ run'.report = status
      BY <1>0, <2>1 DEF Conversation
    <2>3. status \in RESOLVING_STATUSES
      BY ReportsAssumption
    <2> QED BY <1>0, <1>1, <2>2, <2>3, CycleStepKeeps DEF Cycle
  <1>3. CASE report_blocked
    <2>1. run' = [run EXCEPT !.pc = "scoped", !.report = "BLOCKED"]
      BY <1>3 DEF report_blocked
    <2>2. /\ run'.pc = "scoped" /\ run'.n = run.n /\ run'.base = run.base
          /\ run'.checked = run.checked /\ run'.report = "BLOCKED"
      BY <1>0, <2>1 DEF Conversation
    <2> QED BY <1>0, <1>1, <2>2, CycleStepKeeps DEF Cycle
  <1> QED BY <1>2, <1>3

\* With BASE recorded again, what was committed since the first one is let go of.
LEMMA NeedsContextKeeps == ASSUME IInv, DrainInv, report_needs_context PROVE DrainInv'
  <1>0. /\ run \in Conversation /\ run.pc = "implement" /\ run.pc \in Cycle
        /\ UNCHANGED <<state, plan, anchor>> /\ LeavesBehind
    BY DEF IInv, TypeOK, Conversation, report_needs_context, At, Cycle
  <1>1. run' = [run EXCEPT !.retried = TRUE, !.base = HEAD]
    BY DEF report_needs_context
  <1>2. /\ run'.pc = "implement" /\ run'.n = run.n /\ run'.base = HEAD
        /\ run'.checked = run.checked
    BY <1>0, <1>1 DEF Conversation
  <1>3. LogGrows /\ DOMAIN log' = DOMAIN log
    BY <1>0, LeavesGrows
  <1>4. \A n : Pending(n)' = Pending(n)
    BY <1>0 DEF Pending, Unfinished
  <1>5. Headings'
    BY <1>0, <1>3 DEF DrainInv, Headings, LogGrows
  <1>6. ASSUME NEW i \in DOMAIN log', Owed(i)'
        PROVE  /\ i \in DOMAIN log /\ Owed(i) /\ log'[i].n = log[i].n
               /\ plan[run.n] = {} /\ ~run.checked /\ run.n <= log[i].n /\ anchor # None
    <2>1. i \in DOMAIN log /\ Owed(i) /\ log'[i].n = log[i].n
      BY <1>0, <1>3, <1>6, OwedShrinks DEF DrainInv, LogGrows, TasksEnd
    <2>2. ~SinceBase(i)
      <3>1. ~log'[i].adrift
        BY <1>6 DEF Owed
      <3>2. log'[i].adrift = (log[i].adrift \/ SinceBase(i))
        BY <1>0, <2>1, LeavesType
      <3> QED BY <3>1, <3>2
    <2>3. ~(run.n = log[i].n /\ i > run.base)
      BY <2>1, <2>2 DEF SinceBase, Owed
    <2> QED BY <1>0, <2>1, <2>3, InCycle
  <1>7. OwedIsFirst'
    BY <1>0, <1>4, <1>6 DEF DrainInv, OwedIsFirst
  <1>8. OwedIsWatched'
    <2>1. \A i \in DOMAIN log' : Owed(i)' => i > anchor
      BY <1>6, OwedIs
    <2>2. ~AtNamed' \/ plan[run.n] # {}
      BY <1>0, <1>2 DEF AtNamed
    <2> QED BY <1>0, <1>2, <1>6, <2>1, <2>2 DEF OwedIsWatched
  <1>9. WalkInv' /\ RecordInv'
    BY <1>0, <1>2, <1>4 DEF DrainInv, WalkInv, RecordInv, Cycle
  <1>10. CycleInv'
    <2>1. /\ HEAD \in Nat /\ DOMAIN log' = 1..HEAD
          /\ anchor # None => anchor <= HEAD /\ anchor \in Nat
      BY <1>3 DEF LogGrows, IInv, Behind, TypeOK
    <2>2. \A j \in DOMAIN log' : ~(j > HEAD)
      BY <2>1
    <2>3. AtNamed' => Pending(run.n) # {} /\ run.checked
      BY <1>0, <1>2 DEF DrainInv, CycleInv, AtNamed
    <2>4. Pending(run.n)' = Pending(run.n)
      BY <1>0, <1>2 DEF Pending, Unfinished
    <2> QED BY <1>0, <1>2, <2>1, <2>2, <2>3, <2>4 DEF CycleInv
  <1> QED BY <1>5, <1>7, <1>8, <1>9, <1>10 DEF DrainInv

\* The reviewer has read everything since BASE.
LEMMA ReviewsKeep == ASSUME IInv, DrainInv, approve_task \/ send_back \/ escalate PROVE DrainInv'
  <1>0. run \in Conversation /\ run.pc = "review" /\ UNCHANGED <<state, plan, anchor>> /\ Shows(run.base)
    BY DEF IInv, TypeOK, Conversation, approve_task, send_back, escalate, At
  <1>1. LogGrows /\ DOMAIN log' = DOMAIN log
    BY <1>0, ShowsGrows
  <1>2. \A j \in DOMAIN log : j > run.base => log'[j].seen
    BY <1>0, ShowsType, Zenon
  <1>3. run.report \in RESOLVING_STATUSES \cup {"BLOCKED"}
    BY <1>0 DEF DrainInv, CycleInv, Cycle
  <1>4. /\ run'.pc \in {"scoped", "implement"} /\ run'.n = run.n /\ run'.base = run.base
        /\ run'.checked = run.checked /\ run'.report \in {run.report, "BLOCKED"}
    <2>1. CASE escalate
      <3>1. run' = [run EXCEPT !.pc = "scoped", !.report = "BLOCKED"]
        BY <2>1 DEF escalate
      <3> QED BY <1>0, <3>1 DEF Conversation
    <2>2. CASE approve_task \/ send_back
      BY <1>0, <2>2 DEF approve_task, send_back, Goes, Conversation
    <2> QED BY <2>1, <2>2
  <1> QED BY <1>0, <1>1, <1>2, <1>3, <1>4, CycleStepKeeps DEF Cycle

\* A new commit is the cycle's own, and the cycle knows of it.
LEMMA CommitKeeps == ASSUME IInv, DrainInv, implementer_commits PROVE DrainInv'
  <1>0. run.pc = "implement" /\ run.pc \in Cycle /\ UNCHANGED <<state, plan, anchor, run>>
        /\ HEAD \in Nat /\ run.base <= HEAD /\ (anchor # None => anchor <= HEAD /\ anchor \in Nat)
    BY DEF implementer_commits, At, Cycle, IInv, Behind, TypeOK, HEAD
  <1>1. PICK tree \in {Tree, Tree \ Foreign, Tree \cup Foreign \cup OnDisk} :
            log' = Append(log, CommitOf("implementer", run.n, tree))
    BY DEF implementer_commits, Commits
  <1>2. /\ tree \in SUBSET Path /\ run.n \in Nat /\ run.n \in DOMAIN plan /\ run.base \in Nat
        /\ run.n >= 1
    BY <1>0, <1>1, TreeType, ForeignAssumption, InCycle
  <1>3. /\ LogGrows /\ DOMAIN log' \ DOMAIN log = {HEAD + 1}
        /\ log'[HEAD + 1].who = "implementer" /\ log'[HEAD + 1].n = run.n
    BY <1>1, <1>2, AppendGrows
  <1>4. \A n : Pending(n)' = Pending(n)
    BY <1>0 DEF Pending, Unfinished
  <1>5. Headings'
    BY <1>0, <1>2, <1>3 DEF DrainInv, Headings, LogGrows
  <1>6. ASSUME NEW i \in DOMAIN log', Owed(i)'
        PROVE  \/ i \in DOMAIN log /\ Owed(i) /\ log'[i].n = log[i].n
               \/ i = HEAD + 1 /\ log'[i].n = run.n /\ plan[run.n] # {}
    <2>1. CASE i \in DOMAIN log
      BY <1>0, <1>3, <1>6, <2>1, OwedShrinks DEF DrainInv, LogGrows, TasksEnd
    <2>2. CASE i \notin DOMAIN log
      BY <1>0, <1>3, <1>6, <2>2 DEF Owed
    <2> QED BY <2>1, <2>2
  <1>7. plan[run.n] # {} => AtNamed /\ Pending(run.n) # {}
    BY <1>0, <1>2 DEF AtNamed, DrainInv, CycleInv
  <1>8. OwedIsFirst'
    <2>1. \A k \in DOMAIN plan : k < run.n => Pending(k) = {}
      BY <1>0 DEF DrainInv, WalkInv
    <2> QED BY <1>0, <1>4, <1>6, <1>7, <2>1 DEF DrainInv, OwedIsFirst
  <1>9. OwedIsWatched'
    <2>1. (anchor # None => HEAD + 1 > anchor) /\ HEAD + 1 > run.base
      BY <1>0, <1>2
    <2> QED BY <1>0, <1>6, <2>1 DEF DrainInv, OwedIsWatched, Cycle, AtNamed
  <1>10. WalkInv' /\ RecordInv'
    BY <1>0, <1>4 DEF DrainInv, WalkInv, RecordInv
  <1>11. CycleInv'
    <2>1. \A j \in DOMAIN log' : j > run.base => log'[j].who = "implementer" /\ log'[j].n = run.n
      BY <1>0, <1>3 DEF DrainInv, CycleInv, LogGrows
    <2> QED BY <1>0, <1>4, <2>1 DEF DrainInv, CycleInv, AtNamed
  <1> QED BY <1>5, <1>8, <1>9, <1>10, <1>11 DEF DrainInv

\* A foreign path the guard let pass was there at BASE, before the first commit of the cycle.
LEMMA GuardedIsClean ==
    ASSUME IInv, DrainInv, run.pc = "scoped", commit_scope_guard(run.base, HEAD) = {},
           NEW i \in DOMAIN log, Owed(i), run.n = log[i].n, i > run.base
    PROVE  ~Tainted(i)
  <1> SUFFICES ASSUME NEW f \in Foreign, Introduced(i, f) PROVE FALSE
    BY DEF Tainted
  <1>0. /\ HEAD \in Nat /\ run.base \in Nat /\ run.base <= HEAD /\ i \in 1..HEAD /\ log \in Seq(Commit)
        /\ DOMAIN log = 1..HEAD
    BY DEF IInv, TypeOK, Behind, HEAD
  <1>1. f \in TreeAt(HEAD)
    BY DEF Introduced, Tree
  <1>2. f \in TreeAt(run.base)
    BY <1>1 DEF commit_scope_guard, foreign_paths, git_changed_paths
  <1>3. run.base + 1 \in 1..i /\ run.base + 1 \in DOMAIN log /\ run.base + 1 > run.base
    BY <1>0
  <1>4. log[run.base + 1].who = "implementer" /\ log[run.base + 1].n = log[i].n
    BY <1>3 DEF DrainInv, CycleInv, Cycle
  <1>5. f \notin TreeAt((run.base + 1) - 1)
    BY <1>3, <1>4 DEF Introduced
  <1> QED BY <1>0, <1>2, <1>5

\* The stop over a foreign path leaves what is owed to the next run, or lets go of it.
LEMMA StopOnForeignKeeps == ASSUME IInv, DrainInv, stop_on_foreign PROVE DrainInv'
  <1>0. /\ run.pc = "scoped" /\ run.pc \in Cycle /\ UNCHANGED <<state, plan, anchor>> /\ LosesBase
    BY DEF stop_on_foreign, At, Cycle
  <1>1. run'.pc = "stopped" /\ ~run'.checked
    BY StopsType DEF stop_on_foreign
  <1>2. LogGrows /\ DOMAIN log' = DOMAIN log
    BY <1>0, LosesGrows
  <1>3. \A n : Pending(n)' = Pending(n)
    BY <1>0 DEF Pending, Unfinished
  <1>4. Headings'
    BY <1>0, <1>2 DEF DrainInv, Headings, LogGrows
  <1>5. ASSUME NEW i \in DOMAIN log', Owed(i)'
        PROVE  i \in DOMAIN log /\ Owed(i) /\ log'[i].n = log[i].n /\ anchor # None
    <2>1. i \in DOMAIN log /\ Owed(i) /\ log'[i].n = log[i].n
      BY <1>0, <1>2, <1>5, OwedShrinks DEF DrainInv, LogGrows, TasksEnd
    <2>2. run.n = log[i].n /\ i > run.base => SinceBase(i)
      BY <2>1 DEF SinceBase, Owed
    <2>3. anchor = None /\ SinceBase(i) => log'[i].adrift
      BY <1>0, <2>1, LosesType
    <2>4. ~log'[i].adrift
      BY <1>5 DEF Owed
    <2> QED BY <1>0, <2>1, <2>2, <2>3, <2>4, InCycle
  <1>6. OwedIsFirst'
    BY <1>0, <1>3, <1>5 DEF DrainInv, OwedIsFirst
  <1>7. OwedIsWatched'
    BY <1>0, <1>1, <1>5, OwedIs DEF OwedIsWatched
  <1>8. WalkInv' /\ CycleInv' /\ RecordInv'
    BY <1>1, NoWalk DEF Cycle
  <1> QED BY <1>4, <1>6, <1>7, <1>8 DEF DrainInv

LEMMA EndsKeep == ASSUME IInv, DrainInv, end_cycle PROVE DrainInv'
  <1>0. /\ run.pc = "scoped" /\ run.pc \in Cycle /\ UNCHANGED <<state, plan, log, anchor>>
    BY DEF end_cycle, At, Cycle
  <1>1. /\ run \in Conversation /\ run.n \in DOMAIN plan /\ run.n \in Nat /\ run.n >= 1
        /\ run.n + 1 \in Nat /\ run.report \in RESOLVING_STATUSES \cup {"BLOCKED"}
        /\ \A n : Pending(n)' = Pending(n)
        /\ \A k \in DOMAIN plan : k \in Nat /\ (k < run.n => Pending(k) = {})
    BY <1>0, InCycle, NamedHeadings DEF DrainInv, CycleInv, WalkInv, Pending, Unfinished
  <1>3. CASE plan[run.n] = {}
    <2>1. Walks(run.n + 1)
      BY <1>3 DEF end_cycle
    <2>2. run'.pc = "walk" /\ run'.n = run.n + 1 /\ run'.checked = run.checked
      BY <1>1, <2>1, WalksType
    <2>3. ASSUME NEW i \in DOMAIN log, Owed(i)
          PROVE  ~run'.checked /\ run'.n <= log[i].n /\ anchor # None
      <3>1. /\ ~run.checked /\ run.n <= log[i].n /\ run.n # log[i].n /\ log[i].n \in Nat
            /\ anchor # None
        BY <1>0, <1>3, <2>3, InCycle, OwedIs
      <3> QED BY <1>1, <2>2, <3>1
    <2>4. WalkInv' /\ CycleInv' /\ RecordInv'
      <3>1. Pending(run.n) = {}
        BY <1>3 DEF Pending
      <3>2. \A k \in DOMAIN plan : k < run.n + 1 => Pending(k) = {}
        BY <1>1, <3>1
      <3> QED BY <1>0, <1>1, <2>2, <3>2 DEF WalkInv, CycleInv, RecordInv, Cycle
    <2> QED BY <1>0, <2>2, <2>3, <2>4, RunStepKeeps
  <1>4. CASE plan[run.n] # {}
    <2>1. run' = [run EXCEPT !.pc = "record", !.todo = plan[run.n]]
          /\ commit_scope_guard(run.base, HEAD) = {}
      BY <1>4 DEF end_cycle
    <2>2. /\ run'.pc = "record" /\ run'.n = run.n /\ run'.report = run.report
          /\ run'.todo = plan[run.n] /\ run'.checked = run.checked /\ run'.base = run.base
      BY <1>1, <2>1 DEF Conversation
    <2>3. ASSUME NEW i \in DOMAIN log, Owed(i)
          PROVE  run.n = log[i].n /\ run.report = "BLOCKED" /\ i > run.base
      <3>1. run.n = log[i].n /\ i > run.base
        BY <1>0, <1>4, <2>3, InCycle
      <3>2. ~Tainted(i)
        BY <1>0, <2>1, <2>3, <3>1, GuardedIsClean
      <3>3. run.report # "BLOCKED" => log[i].seen
        BY <1>0, <3>1 DEF DrainInv, CycleInv
      <3> QED BY <2>3, <3>1, <3>2, <3>3, OwedIs
    <2>4. run.checked
      BY <1>0, <1>1, <1>4 DEF DrainInv, CycleInv, AtNamed
    <2>5. WalkInv' /\ CycleInv'
      BY <1>0, <1>1, <2>2 DEF WalkInv, CycleInv, Cycle
    <2>6. RecordInv'
      BY <1>0, <1>1, <1>4, <2>2, <2>4 DEF RecordInv, Pending
    <2> QED BY <1>0, <2>2, <2>3, <2>5, <2>6, RunStepKeeps
  <1> QED BY <1>3, <1>4

\* A conflict found in the plan: the heading something is owed at is stuck by it, or
\* has nothing to do with it.
LEMMA ScanKeeps == ASSUME IInv, DrainInv, Next, NEW t \in Story, scan_plan(t) PROVE DrainInv'
  <1>0. /\ run.pc = "scan" /\ UNCHANGED <<plan, log, anchor, run>> /\ state \in Sprint
        /\ t \in DOMAIN state.tasks /\ state' = WithBlocker(state, t, Option)
        /\ Option \in SUBSET Option
    BY DEF scan_plan, At, IInv, TypeOK, Unfinished
  <1>1. /\ DOMAIN state'.tasks = DOMAIN state.tasks
        /\ \A u \in DOMAIN state.tasks : state'.tasks[u] = IF u = t THEN "BLOCKED" ELSE state.tasks[u]
    BY <1>0, WithBlockerTasks
  <1>2. LogGrows /\ TasksEnd
    <2>1. ~load_tasks
      BY <1>0 DEF load_tasks, At
    <2> QED BY <1>0, <2>1, SameGrows, TasksStep DEF DrainInv
  <1>3. ASSUME NEW i \in DOMAIN log', Owed(i)' PROVE i \in DOMAIN log /\ Owed(i)
    BY <1>0, <1>2, <1>3, OwedShrinks DEF DrainInv
  <1>4. Headings'
    BY <1>0 DEF DrainInv, Headings
  <1>5. OwedIsFirst'
    <2> SUFFICES ASSUME NEW i \in DOMAIN log', Owed(i)'
                 PROVE  /\ Pending(log[i].n)' # {}
                        /\ \A k \in DOMAIN plan : k < log[i].n => Pending(k)' = {}
      BY <1>0 DEF OwedIsFirst
    <2>1. i \in DOMAIN log /\ Owed(i)
      BY <1>3
    <2>2. \A k \in DOMAIN plan : k < log[i].n => Pending(k)' = {}
      BY <1>0, <1>2, <2>1, OwedIs, PendingShrinks
    <2>3. t \notin plan[log[i].n]
      <3>1. ~Stuck(log[i].n)'
        BY <1>0 DEF Owed
      <3> QED BY <1>0, <1>1, <3>1 DEF Stuck
    <2>4. Pending(log[i].n)' = Pending(log[i].n)
      BY <1>0, <1>1, <2>3 DEF Pending, Unfinished
    <2> QED BY <2>1, <2>2, <2>4, OwedIs
  <1>6. OwedIsWatched'
    BY <1>0, <1>3 DEF DrainInv, OwedIsWatched
  <1>7. WalkInv' /\ CycleInv' /\ RecordInv'
    BY <1>0, NoWalk DEF DrainInv, WalkInv, Cycle
  <1> QED BY <1>4, <1>5, <1>6, <1>7 DEF DrainInv

\* What `task` and `block` make of the one story they are called for.
LEMMA RecordIs ==
    ASSUME IInv, NEW t \in Story, NEW status \in TERMINAL_STATUSES, record(t, status)
    PROVE  /\ run \in Conversation /\ run.pc = "record" /\ UNCHANGED <<plan, log, package, ran>>
           /\ t \in DOMAIN state.tasks /\ t \in run.todo /\ status \in RollUp(t)
           /\ DOMAIN state'.tasks = DOMAIN state.tasks
           /\ \A u \in DOMAIN state.tasks : state'.tasks[u] = IF u = t THEN status ELSE state.tasks[u]
           /\ IF run.todo = {t} THEN Walks(run.n + 1)
              ELSE /\ run'.pc = "record" /\ run'.n = run.n /\ run'.report = run.report
                   /\ run'.todo = run.todo \ {t} /\ run'.checked = run.checked
  <1>0. /\ run \in Conversation /\ run.pc = "record" /\ UNCHANGED <<plan, log, package, ran>>
        /\ t \in DOMAIN state.tasks /\ t \in run.todo /\ status \in RollUp(t)
        /\ state \in Sprint /\ Option \in SUBSET Option /\ TERMINAL_STATUSES \subseteq TaskStatus
    BY DEF record, At, IInv, InHand, TypeOK, Conversation, TERMINAL_STATUSES, TaskStatus
  <1>1. \/ state' = state /\ state.tasks[t] = status
        \/ state' = WithBlocker(state, t, Option) /\ status = "BLOCKED"
        \/ state' = WithStatus(state, t, status)
    BY DEF record
  <1>2. /\ DOMAIN state'.tasks = DOMAIN state.tasks
        /\ \A u \in DOMAIN state.tasks : state'.tasks[u] = IF u = t THEN status ELSE state.tasks[u]
    BY <1>0, <1>1, WithBlockerTasks, WithStatusFields
  <1>3. ASSUME run.todo # {t}
        PROVE  /\ run'.pc = "record" /\ run'.n = run.n /\ run'.report = run.report
               /\ run'.todo = run.todo \ {t} /\ run'.checked = run.checked
    <2>1. run' = [run EXCEPT !.todo = @ \ {t}]
      BY <1>3 DEF record
    <2> QED BY <1>0, <2>1 DEF Conversation
  <1>4. run.todo = {t} => Walks(run.n + 1)
    BY DEF record
  <1> QED BY <1>0, <1>2, <1>3, <1>4

\* What is owed at the heading is blocked by the first verb called for it.
LEMMA RecordSettles ==
    ASSUME IInv, DrainInv, Next, NEW t \in Story, NEW status \in TERMINAL_STATUSES,
           record(t, status)
    PROVE  DrainInv'
  <1>0. /\ run \in Conversation /\ run.pc = "record" /\ UNCHANGED <<plan, log>>
        /\ t \in DOMAIN state.tasks /\ t \in run.todo /\ status \in RollUp(t)
        /\ DOMAIN state'.tasks = DOMAIN state.tasks
        /\ \A u \in DOMAIN state.tasks : state'.tasks[u] = IF u = t THEN status ELSE state.tasks[u]
    BY RecordIs
  <1>1. /\ Pending(run.n) \subseteq run.todo /\ run.todo \subseteq plan[run.n] /\ run.checked
        /\ run.n \in DOMAIN plan /\ run.n \in Nat /\ run.n >= 1 /\ run.n + 1 \in Nat
        /\ run.report \in RESOLVING_STATUSES \cup {"BLOCKED"}
        /\ \A k \in DOMAIN plan : k \in Nat /\ (k < run.n => Pending(k) = {})
    BY <1>0, NamedHeadings DEF DrainInv, RecordInv, WalkInv
  <1>2. LogGrows /\ TasksEnd
    <2>1. ~load_tasks
      BY <1>0 DEF load_tasks, At
    <2> QED BY <1>0, <2>1, SameGrows, TasksStep DEF DrainInv
  <1>3. ASSUME NEW i \in DOMAIN log', Owed(i)' PROVE FALSE
    <2>1. i \in DOMAIN log /\ Owed(i)
      BY <1>0, <1>2, <1>3, OwedShrinks DEF DrainInv
    <2>2. run.n = log[i].n /\ run.report = "BLOCKED"
      BY <1>0, <2>1 DEF DrainInv, OwedIsWatched, Cycle
    <2>3. status \in {"BLOCKED", "PARKED"}
      <3>1. state.tasks[t] \in TaskStatus
        <4>1. state.tasks \in TaskTable
          BY DEF IInv, TypeOK, Sprint
        <4> QED BY <1>0, <4>1, TaskTableHas
      <3>2. state.tasks[t] # "BLOCKED" => ~(Weight[state.tasks[t]] >= Weight[run.report])
        BY <2>2, <3>1 DEF TaskStatus, Weight
      <3> QED BY <1>0, <2>2, <3>2 DEF RollUp
    <2>4. t \in plan[run.n] \cap DOMAIN state.tasks /\ state'.tasks[t] \in {"BLOCKED", "PARKED"}
      BY <1>0, <1>1, <2>3
    <2>5. Stuck(log[i].n)'
      BY <1>0, <2>2, <2>4 DEF Stuck
    <2> QED BY <1>3, <2>5 DEF Owed
  <1>4. Headings' /\ OwedIsFirst' /\ OwedIsWatched'
    BY <1>0, <1>3 DEF DrainInv, Headings, OwedIsFirst, OwedIsWatched
  <1>5. \A k : Pending(k)' \subseteq Pending(k) \ {t}
    BY <1>0 DEF Pending, Unfinished
  <1>6. WalkInv' /\ CycleInv' /\ RecordInv'
    <2>1. CASE run.todo = {t}
      <3>1. Walks(run.n + 1)
        BY <2>1, RecordIs
      <3>2. run'.pc = "walk" /\ run'.n = run.n + 1
        BY <1>0, <1>1, <3>1, WalksType
      <3>3. \A k \in DOMAIN plan : k < run.n + 1 => Pending(k)' = {}
        <4>1. \A k \in DOMAIN plan : k < run.n + 1 => k < run.n \/ k = run.n
          BY <1>1
        <4>2. \A k \in DOMAIN plan : k < run.n + 1 => Pending(k) \subseteq {t}
          BY <1>1, <2>1, <4>1
        <4> QED BY <1>5, <4>2
      <3> QED BY <1>0, <1>1, <3>2, <3>3 DEF WalkInv, CycleInv, RecordInv, Cycle
    <2>2. CASE run.todo # {t}
      <3>1. /\ run'.pc = "record" /\ run'.n = run.n /\ run'.report = run.report
            /\ run'.todo = run.todo \ {t} /\ run'.checked = run.checked
        BY <2>2, RecordIs
      <3>2. \A k \in DOMAIN plan : k < run.n => Pending(k)' = {}
        BY <1>1, <1>5
      <3>3. WalkInv' /\ CycleInv'
        BY <1>0, <1>1, <3>1, <3>2 DEF WalkInv, CycleInv, Cycle
      <3>4. Pending(run.n)' \subseteq run.todo \ {t}
        <4>1. Pending(run.n)' = plan[run.n] \cap Unfinished(state)'
          BY <1>0, <3>1 DEF Pending
        <4>2. plan[run.n] \cap Unfinished(state)' \subseteq (plan[run.n] \cap Unfinished(state)) \ {t}
          BY <1>0 DEF Unfinished
        <4> QED BY <1>1, <4>1, <4>2 DEF Pending
      <3>5. RecordInv'
        BY <1>0, <1>1, <2>2, <3>1, <3>4 DEF RecordInv
      <3> QED BY <3>3, <3>5
    <2> QED BY <2>1, <2>2
  <1> QED BY <1>4, <1>6 DEF DrainInv

\* After the last heading nothing is owed any more.
LEMMA HaltsKeep ==
    ASSUME IInv, DrainInv, Next, cut_package \/ advance_to_review
    PROVE  DrainInv'
  <1>0. /\ run \in Conversation /\ run.pc \in {"walk", "halt"} /\ UNCHANGED <<plan, log, anchor>>
        /\ run.pc = "walk" => run.n \notin DOMAIN plan /\ run.n \in Nat /\ run.n >= 1
        /\ state'.tasks = state.tasks
    <2>1. run \in Conversation /\ state \in Sprint /\ run.n \in Nat
      BY DEF IInv, TypeOK, Conversation
    <2>2. run.pc \in {"walk", "halt"} /\ UNCHANGED <<plan, log, anchor>> /\ state'.tasks = state.tasks
      BY <2>1 DEF cut_package, advance_to_review, At, WithStage, Sprint
    <2>3. run.pc = "walk" => run.n \notin DOMAIN plan
      BY DEF cut_package, advance_to_review, At
    <2>4. run.pc = "walk" => run.n >= 1
      BY DEF DrainInv, WalkInv
    <2> QED BY <2>1, <2>2, <2>3, <2>4
  <1>1. ASSUME NEW i \in DOMAIN log, Owed(i) PROVE FALSE
    <2>1. run.pc = "walk" /\ run.n <= log[i].n
      BY <1>0, <1>1 DEF DrainInv, OwedIsWatched, Cycle
    <2>2. log[i].n \in 1..Len(plan) /\ Len(plan) \in Nat /\ DOMAIN plan = 1..Len(plan)
      BY <1>1, OwedIs, NamedHeadings
    <2> QED BY <1>0, <2>1, <2>2
  <1>2. \A i : Owed(i)' => Owed(i)
    BY <1>0 DEF Owed, Stuck, Tainted, Introduced, Tree, TreeAt, HEAD
  <1>3. Headings' /\ OwedIsFirst' /\ OwedIsWatched'
    BY <1>0, <1>1, <1>2 DEF DrainInv, Headings, OwedIsFirst, OwedIsWatched
  <1>4. run'.pc = "halt" \/ (run'.pc = "stopped" /\ ~run'.checked)
    BY <1>0, StopsType DEF cut_package, advance_to_review, Goes, Conversation
  <1>5. WalkInv' /\ CycleInv' /\ RecordInv'
    BY <1>4 DEF WalkInv, CycleInv, RecordInv, Cycle
  <1> QED BY <1>3, <1>5 DEF DrainInv

----------------------------------------------------------------------------
(* The theorems. *)

LEMMA InitDrains == Init => DrainInv
  <1> SUFFICES ASSUME Init PROVE DrainInv
    OBVIOUS
  <1>1. DOMAIN log = {} /\ run.pc = "stopped" /\ ~run.checked
    BY DEF Init, Stopped
  <1> QED BY <1>1 DEF DrainInv, Headings, OwedIsFirst, OwedIsWatched, WalkInv, CycleInv,
          RecordInv, Cycle

LEMMA DrainKeeps == IInv /\ DrainInv /\ [Next]_vars => DrainInv'
  <1> SUFFICES ASSUME IInv, DrainInv, [Next]_vars PROVE DrainInv'
    OBVIOUS
  <1>0. IInv'
    BY NextKeeps
  <1>1. CASE UNCHANGED vars
    BY <1>1 DEF vars, drain_vars, DrainInv, Headings, OwedIsFirst, OwedIsWatched, WalkInv, CycleInv,
       RecordInv, Owed, Stuck, Tainted, Introduced, Tree, TreeAt, HEAD, AtNamed, Pending,
       Unfinished
  <1>2. CASE Next /\ ~execute_stage
    BY <1>0, <1>2, OutsideKeeps
  <1>3. CASE execute_stage
    <2>1. Next /\ DrainNext
      BY <1>3 DEF Next, Runs, execute_stage
    <2> QED BY <2>1, ScanKeeps, StartDrainKeeps, SkipHeadingKeeps, BlockHalfDoneKeeps, DispatchKeeps,
            CommitKeeps, ReportsKeep, NeedsContextKeeps, ReviewsKeep, StopOnForeignKeeps, EndsKeep,
            RecordSettles, HaltsKeep DEF DrainNext
  <1> QED BY <1>1, <1>2, <1>3

THEOREM DrainInvariance == Spec => []DrainInv
  <1>1. Init => DrainInv
    BY InitDrains
  <1>2. IInv /\ DrainInv /\ [Next]_vars => DrainInv'
    BY DrainKeeps
  <1> QED BY <1>1, <1>2, Invariance, PTL DEF Spec

\* While a commit that is not adrift is not reviewed, or brought a foreign path in that is
\* still there, its heading has a story that is not done.
LEMMA UndoneBehind ==
    ASSUME IInv, DrainInv, NEW i \in DOMAIN log, log[i].who = "implementer",
           plan[log[i].n] # {}, ~log[i].adrift, ~log[i].seen \/ Tainted(i)
    PROVE  \E t \in plan[log[i].n] : ~Settled(t)
  <1>1. CASE Stuck(log[i].n)
    BY <1>1 DEF Stuck, Settled, RESOLVING_STATUSES
  <1>2. CASE ~Stuck(log[i].n)
    <2>1. Owed(i)
      BY <1>2 DEF Owed
    <2>2. PICK t \in plan[log[i].n] : t \in Unfinished(state)
      BY <2>1, OwedIs DEF Pending
    <2> QED BY <2>2 DEF Settled, Unfinished, RESOLVING_STATUSES, TERMINAL_STATUSES
  <1> QED BY <1>1, <1>2

\* Whichever run died when, and however the headings share their stories: while a task has a
\* commit no reviewer has read, it is not done. The commits excepted are those whose BASE the
\* prose let go of: by a second BASE, or by a run that ended before any status was recorded.
THEOREM NothingUnreviewedIsDone == Spec => []OnlyAdriftIsUnreviewed
  <1>1. IInv /\ DrainInv => OnlyAdriftIsUnreviewed
    BY UndoneBehind DEF OnlyAdriftIsUnreviewed, Unread, HeldBack
  <1> QED BY <1>1, Invariance, DrainInvariance, PTL

\* A task that put another harness's state into the branch is not recorded done while it is
\* there, with the same commits excepted: the guard asks from the BASE the run holds.
THEOREM NothingForeignIsDone == Spec => []OnlyAdriftIsUnscoped
  <1>1. IInv /\ DrainInv => OnlyAdriftIsUnscoped
    BY UndoneBehind DEF OnlyAdriftIsUnscoped, HeldBack, Tainted
  <1> QED BY <1>1, Invariance, DrainInvariance, PTL

=============================================================================
