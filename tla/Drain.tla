------------------------------- MODULE Drain -------------------------------
(***************************************************************************)
(* The EXECUTE stage of SKILL.md: the conductor walks the headings of the  *)
(* dev plan, dispatches an implementer for each, has what it committed     *)
(* reviewed, asks commit-scope-guard, and records a status for every story *)
(* the heading names. Then it cuts the review package and advances.        *)
(*                                                                         *)
(* A run keeps BASE, its heading and the reviewer's verdict in the         *)
(* conversation; `run` is that memory and nothing of it outlives the run.  *)
(* A resumed run has state.json, the time of the last line of tasks.jsonl  *)
(* and the repository. A verb is one step here: StateSpine has its writes. *)
(***************************************************************************)
EXTENDS Guards

CONSTANTS SprintDoc, DevPlan,   \* the paths of the two documents
          Plans,        \* dev plans: the stories each heading names, {} for (process)
          Reports,      \* statuses an implementer whose work is reviewed reports
          MaxCommits    \* bound: commits agents and operators may add up to

ASSUME DocsAssumption == {SprintDoc, DevPlan} \subseteq Path /\ SprintDoc # DevPlan
ASSUME PlansAssumption == /\ Plans \subseteq Seq(SUBSET Story)
                          /\ \A p \in Plans : UNION ToSet(p) # {}
ASSUME ReportsAssumption == Reports \subseteq RESOLVING_STATUSES
ASSUME MaxCommitsAssumption == MaxCommits \in Nat
ASSUME NoNumberAssumption == None \notin Nat \cup TaskStatus

VARIABLES state,     \* state.json
          plan,      \* the headings of the dev plan, in order
          docs,      \* what an audit would say of each document on disk
          log,       \* the commits of the branch EXECUTE works on
          anchor,    \* HEAD when the last line of tasks.jsonl was written, None without one
          ran,       \* headings of a story whose cycle ended with the work accepted, for EXECUTE only
          package,   \* the HEAD package.jsonl recorded, None without one
          run        \* the conversation

drain_vars == <<state, plan, docs, log, anchor, ran, package, run>>

----------------------------------------------------------------------------
(* The repository. Two fields of a commit are for the properties alone:    *)
(* `seen`, the reader it is owed to has had it (a task reviewer, for what  *)
(* an implementer committed), and `adrift`, its BASE is gone and nothing   *)
(* on disk tells the next dispatch of it.                                  *)

Commit == [who : {"implementer", "planner", "conductor", "operator"},
           n : Nat, tree : SUBSET Path, seen : BOOLEAN, adrift : BOOLEAN]

HEAD == Len(log)
TreeAt(i) == IF i = 0 THEN {} ELSE log[i].tree
Tree == TreeAt(HEAD)
OnDisk == {p \in DOMAIN docs : docs[p] # "missing"}

CommitOf(who, n, tree) ==
    [who |-> who, n |-> n, tree |-> tree, seen |-> FALSE, adrift |-> FALSE]
Commits(who, n, tree) ==
    /\ HEAD < MaxCommits
    /\ log' = Append(log, CommitOf(who, n, tree))

\* Everything after `base` is shown to its reader.
Shows(base) == log' = [i \in DOMAIN log |-> [log[i] EXCEPT !.seen = @ \/ i > base]]

----------------------------------------------------------------------------
(* The run. *)

Stopped == [pc |-> "stopped",
            n |-> 0,               \* the heading
            base |-> 0,            \* BASE, or the planner's HEAD before
            todo |-> {},           \* stories to record or blockers to decide
            report |-> None,       \* what is recorded for them
            checked |-> FALSE,     \* this run knows where HEAD comes from
            retried |-> FALSE,     \* the one re-dispatch is spent
            answered |-> FALSE]    \* an operator answered this run

At(pc) == run.pc = pc
Goes(pc) == run' = [run EXCEPT !.pc = pc]
Stops == run' = Stopped
Walks(n) == run' = [run EXCEPT !.pc = "walk", !.n = n, !.base = 0, !.todo = {},
                               !.report = None, !.retried = FALSE]

Pending(n) == plan[n] \cap Unfinished(state)

\* The walk restarts at the first heading whose stories are not all terminal. Once there
\* is none, what is left are the headings after the last one that names a story.
FirstHeading ==
    LET named   == {n \in DOMAIN plan : plan[n] # {}}
        waiting == {n \in named : Pending(n) # {}}
    IN IF NoneStarted(state) THEN 1
       ELSE IF waiting # {} THEN Min(waiting) ELSE Max(named) + 1

\* The newest commit is newer than the last recorded status. Without a recorded status
\* there is nothing on disk to compare with, and a heading looks untouched.
Moved == anchor # None /\ HEAD > anchor

\* What the heading's agents committed since BASE, when BASE is let go of. A (process)
\* heading answers for no story.
SinceBase(i) == /\ log[i].who = "implementer" /\ log[i].n = run.n
                /\ i > run.base
                /\ plan[run.n] # {}
LeavesBehind ==
    log' = [i \in DOMAIN log |-> [log[i] EXCEPT !.adrift = @ \/ SinceBase(i)]]

\* The run is over before the heading is recorded: only a later status to compare with keeps
\* its commits in sight of the next run.
LosesBase == IF anchor = None THEN LeavesBehind ELSE UNCHANGED log

----------------------------------------------------------------------------
(* Before the first dispatch. *)

\* SDD's review of the plan: a conflict blocks the task it affects.
scan_plan(t) ==
    /\ At("scan")
    /\ t \in Unfinished(state)
    /\ state' = WithBlocker(state, t, Option)
    /\ UNCHANGED <<plan, docs, log, anchor, ran, package, run>>

start_drain ==
    /\ At("scan")
    /\ Walks(FirstHeading)
    /\ UNCHANGED <<state, plan, docs, log, anchor, ran, package>>

----------------------------------------------------------------------------
(* The walk. *)

Heading == At("walk") /\ run.n \in DOMAIN plan

skip_heading ==
    /\ Heading
    /\ plan[run.n] # {} /\ Pending(run.n) = {}
    /\ Walks(run.n + 1)
    /\ UNCHANGED <<state, plan, docs, log, anchor, ran, package>>

\* Variant: it is told to the operator, and nothing is recorded.
block_half_done_Stops ==
    /\ Heading
    /\ Pending(run.n) # {} /\ ~run.checked /\ Moved
    /\ Stops
    /\ UNCHANGED <<state, plan, docs, log, anchor, ran, package>>

\* A task that may carry commits nobody reviewed is a blocker, not a dispatch.
block_half_done ==
    /\ Heading
    /\ Pending(run.n) # {} /\ ~run.checked /\ Moved
    /\ run' = [run EXCEPT !.pc = "record", !.todo = Pending(run.n), !.report = "BLOCKED",
                          !.checked = TRUE]
    /\ UNCHANGED <<state, plan, docs, log, anchor, ran, package>>

\* Variant: PENDING is taken for untouched.
dispatch_Unchecked ==
    /\ Heading
    /\ plan[run.n] = {} \/ Pending(run.n) # {}
    /\ run' = [run EXCEPT !.pc = "implement", !.base = HEAD,
                          !.checked = @ \/ plan[run.n] # {}]
    /\ UNCHANGED <<state, plan, docs, log, anchor, ran, package>>

\* Variant: BASE is the parent of HEAD.
dispatch_FromParent ==
    /\ Heading
    /\ plan[run.n] = {} \/ (Pending(run.n) # {} /\ (run.checked \/ ~Moved))
    /\ run' = [run EXCEPT !.pc = "implement", !.base = HEAD - 1,
                          !.checked = @ \/ plan[run.n] # {}]
    /\ UNCHANGED <<state, plan, docs, log, anchor, ran, package>>

dispatch ==
    /\ Heading
    /\ plan[run.n] = {} \/ (Pending(run.n) # {} /\ (run.checked \/ ~Moved))
    /\ run' = [run EXCEPT !.pc = "implement", !.base = HEAD,
                          !.checked = @ \/ plan[run.n] # {}]
    /\ UNCHANGED <<state, plan, docs, log, anchor, ran, package>>

----------------------------------------------------------------------------
(* The cycle. *)

\* The implementer or a fix agent commits; `git add -A` stages whatever lies around.
implementer_commits ==
    /\ At("implement")
    /\ \E tree \in {Tree, Tree \ Foreign, Tree \cup Foreign \cup OnDisk} :
           Commits("implementer", run.n, tree)
    /\ UNCHANGED <<state, plan, docs, anchor, ran, package, run>>

report_done(status) ==
    /\ At("implement")
    /\ run' = [run EXCEPT !.pc = "review", !.report = status]
    /\ UNCHANGED <<state, plan, docs, log, anchor, ran, package>>

report_blocked ==
    /\ At("implement")
    /\ run' = [run EXCEPT !.pc = "scoped", !.report = "BLOCKED"]
    /\ UNCHANGED <<state, plan, docs, log, anchor, ran, package>>

\* NEEDS_CONTEXT is supplied once, by another implementer dispatch: BASE is recorded again.
report_needs_context ==
    /\ At("implement") /\ ~run.retried
    /\ run' = [run EXCEPT !.retried = TRUE, !.base = HEAD]
    /\ LeavesBehind
    /\ UNCHANGED <<state, plan, docs, anchor, ran, package>>

\* The reviewer reads BASE..HEAD and passes it, finds something to fix, or finds what
\* only the operator can settle.
approve_task ==
    /\ At("review")
    /\ Shows(run.base)
    /\ Goes("scoped")
    /\ UNCHANGED <<state, plan, docs, anchor, ran, package>>

send_back ==
    /\ At("review")
    /\ Shows(run.base)
    /\ Goes("implement")
    /\ UNCHANGED <<state, plan, docs, anchor, ran, package>>

escalate ==
    /\ At("review")
    /\ Shows(run.base)
    /\ run' = [run EXCEPT !.pc = "scoped", !.report = "BLOCKED"]
    /\ UNCHANGED <<state, plan, docs, anchor, ran, package>>

\* Variant: only the last commit is looked at, HEAD~1..HEAD.
commit_scope_guard_LastCommit(before, after) ==
    foreign_paths(git_changed_paths(TreeAt(IF after > before THEN after - 1 ELSE before),
                                    TreeAt(after)))

commit_scope_guard(before, after) ==
    foreign_paths(git_changed_paths(TreeAt(before), TreeAt(after)))

\* commit-scope-guard.foreign: nothing is recorded, the run stops.
stop_on_foreign ==
    /\ At("scoped")
    /\ commit_scope_guard(run.base, HEAD) # {}
    /\ Stops
    /\ LosesBase
    /\ UNCHANGED <<state, plan, docs, anchor, ran, package>>

end_cycle ==
    /\ At("scoped")
    /\ commit_scope_guard(run.base, HEAD) = {}
    /\ IF plan[run.n] = {}
       THEN Walks(run.n + 1) /\ UNCHANGED ran
       ELSE /\ run' = [run EXCEPT !.pc = "record", !.todo = plan[run.n]]
            /\ ran' = ran \cup {n \in {run.n} : run.report # "BLOCKED"}
    /\ UNCHANGED <<state, plan, docs, log, anchor, package>>

----------------------------------------------------------------------------
(* The record: one verb per story of the heading. *)

Weight == [PENDING |-> 0, DONE |-> 1, DONE_WITH_CONCERNS |-> 2, PARKED |-> 3, BLOCKED |-> 4]

\* What the story's headings come to so far. A task blocked by what already blocked
\* another one is parked with it, if the conductor thinks so.
RollUp(t) ==
    LET old == state.tasks[t] IN
    IF Weight[old] >= Weight[run.report] THEN {old}
    ELSE {run.report} \cup {x \in {"PARKED"} : /\ run.report = "BLOCKED"
                                               /\ \E u \in DOMAIN state.tasks \ plan[run.n] :
                                                      state.tasks[u] = "BLOCKED"}

\* Variant: a blocked task is one more status.
record_AsStatus(t, status) ==
    /\ At("record")
    /\ t \in run.todo
    /\ status \in RollUp(t)
    /\ state' = WithStatus(state, t, status)
    /\ anchor' = HEAD
    /\ IF run.todo = {t} THEN Walks(run.n + 1)
       ELSE run' = [run EXCEPT !.todo = @ \ {t}]
    /\ UNCHANGED <<plan, docs, log, ran, package>>

\* `block` for a task that becomes BLOCKED, nothing for one that is, `task` otherwise.
\* Only `task` writes to tasks.jsonl.
record(t, status) ==
    /\ At("record")
    /\ t \in run.todo
    /\ status \in RollUp(t)
    /\ IF status = "BLOCKED"
       THEN /\ state' = IF state.tasks[t] = "BLOCKED" THEN state ELSE WithBlocker(state, t, Option)
            /\ UNCHANGED anchor
       ELSE state' = WithStatus(state, t, status) /\ anchor' = HEAD
    /\ IF run.todo = {t} THEN Walks(run.n + 1)
       ELSE run' = [run EXCEPT !.todo = @ \ {t}]
    /\ UNCHANGED <<plan, docs, log, ran, package>>

----------------------------------------------------------------------------
(* The halt, after the last heading. *)

cut_package ==
    /\ At("walk") /\ run.n \notin DOMAIN plan
    /\ package' = HEAD
    /\ Goes("halt")
    /\ UNCHANGED <<state, plan, docs, log, anchor, ran>>

advance_to_review ==
    /\ At("halt")
    /\ MayEnter(state, "REVIEW", OnDisk)
    /\ state' = WithStage(state, "REVIEW")
    /\ ran' = {}
    /\ Stops
    /\ UNCHANGED <<plan, docs, log, anchor, package>>

----------------------------------------------------------------------------
DrainNext ==
    \/ \E t \in Story : scan_plan(t)
    \/ start_drain
    \/ skip_heading \/ block_half_done \/ dispatch
    \/ implementer_commits
    \/ \E status \in Reports : report_done(status)
    \/ report_blocked \/ report_needs_context
    \/ approve_task \/ send_back \/ escalate
    \/ stop_on_foreign \/ end_cycle
    \/ \E t \in Story, status \in TERMINAL_STATUSES : record(t, status)
    \/ cut_package \/ advance_to_review

----------------------------------------------------------------------------
(* What the drain is for. *)

Settled(t) == t \in DOMAIN state.tasks /\ state.tasks[t] \in RESOLVING_STATUSES

Unread(i) == log[i].who = "implementer" /\ ~log[i].seen

\* Some story of the commit's heading is not done. A (process) heading has none to hold back.
HeldBack(i) == plan[log[i].n] # {} => \E t \in plan[log[i].n] : ~Settled(t)

\* SKILL.md "Resume": no dispatch may "mark unreviewed code DONE". While a heading has a
\* commit no task reviewer has read, some story of it is not done, whoever died when.
DoneIsReviewed == \A i \in DOMAIN log : Unread(i) => HeldBack(i)

\* The same, but for the commits whose BASE the prose lets go of. BASE recorded once per cycle,
\* the blocker for a moved HEAD and the eager roll-up hold back every other one.
OnlyAdriftIsUnreviewed == \A i \in DOMAIN log : Unread(i) /\ ~log[i].adrift => HeldBack(i)

\* commit_scope.py: a task whose commits put another harness's state into the branch is
\* not recorded done while that state is there. The task put it there if it is there since
\* one of its commits and none of its commits up to that one found it there.
Introduced(i, f) == /\ f \in Tree
                    /\ \A j \in i..HEAD : f \in log[j].tree
                    /\ \A k \in 1..i : log[k].who = "implementer" /\ log[k].n = log[i].n =>
                           f \notin TreeAt(k - 1)

OnlyAdriftIsUnscoped ==
    \A i \in DOMAIN log, f \in Foreign :
        log[i].who = "implementer" /\ ~log[i].adrift /\ Introduced(i, f) => HeldBack(i)

\* SKILL.md "The join": "the story is DONE only when all of its headings are". Recording
\* is eager, so it is asked once EXECUTE is over.
DoneRanItsHeadings ==
    [][state.stage = "EXECUTE" /\ state'.stage = "REVIEW" =>
           \A t \in DOMAIN state.tasks :
               Settled(t) => {n \in DOMAIN plan : t \in plan[n]} \subseteq ran]_drain_vars
=============================================================================
