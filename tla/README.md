# supskill, verified

TLA+ models of [supskill](../src/README.md), a sprint conductor: a command-line state
machine (`scripts/supskill_state`) over a directory of JSON files, driven by a skill that an
agent follows (`skills/supskill/SKILL.md`). The model checker TLC runs the modules on small
instances; TLAPS proves the theorems of the `*Proofs` modules for every value of the constants.

## 1. The system

| component | state it keeps | operations | what makes it correct |
|---|---|---|---|
| sprint state (`model.py`) | `state.json`: sprint, stage, artifacts, gates, tasks, blockers | parse, serialize | every state on disk is one the verbs account for |
| verbs (`commands.py`, `store.py`) | the `.supskill/` directory | `init`, `artifact`, `gate`, `block`, `decide`, `tasks`, `task`, `advance` | validate, then append to the trail, then replace `state.json`; a crash leaves the trail ahead, never behind |
| transitions (`transitions.py`) | none | preconditions of each crossing | no stage is reached without the evidence it needs |
| blockers (`blockers.py`) | none, derived from tasks | open / resolved | a blocker is settled only by its task; what is shown beside it is its own |
| trails and archives (`store.py`, `_archive_existing`) | `gates.jsonl`, `runs/<id>/*.jsonl`, `archive-<n>/` | append, rename | append-only; an archive holds what the sprint decided |
| telemetry (`cost`, `action`, `review`, `package`) | `runs/<id>/*.jsonl` | append | a row is written once the verb has validated |
| review-package guard (`review_package.py`) | reads `package.jsonl`, `HEAD` | `review-guard` | a pass means the diff is the branch |
| proof lines, plan coverage (`proofs.py`, `plan_coverage.py`) | none | parse, join | the join accepts exactly the covered plans |
| git guards (`commit_scope.py`, `artifact_tracking.py`, `plan_guard.py`, `replan_guard.py`) | none | compare what git prints | an agent's commits are seen, told and held back; what is ruled on holds its own documents |
| preflight, stop classes (`preflight.py`, `stop_classes.py`) | none | what must resolve; what may be remedied | no stage improvises; nothing is remedied without an answer |
| worktree (`worktree.py`) | `.gitignore`, `.worktrees/<branch>` | create or reuse, copy documents | a ready worktree has fresh documents and is ignored |
| conductor (`SKILL.md`) | nothing of its own ("disposable") | the stage loop, gates, drain, halt, ruling | rebuilt from disk it does what it would have done |
| config, ids, citations, review aggregation | `config.json` or none | validation | — |

How they interact: the conductor calls the CLI, one process a verb; the verbs share nothing but
the directory; the guards read the directory and git; agents the conductor dispatches write
repository files and commits, never `.supskill/`.

What is hard: a process may die between any two file operations (`dump_state` is
temp-file-and-rename, `append_jsonl` is append-and-fsync, two files are never replaced together);
a torn append stays at the end of a file later appends extend; nothing locks the directory; the
trails of a sprint outlive its archiving; preconditions look at files that come and go; the
conductor may be cleared at any moment and knows only what is on disk.

## 2. Modules

| module | models | in short |
|---|---|---|
| `Trails` | the JSON Lines files of `store.py`: appending, and what parses afterwards | operators |
| `SprintState` | `model.py`, `transitions.py`, `blockers.py`, the state computed by each verb | constants and operators, no variables |
| `StateSpine` | `commands.py`, `store.py`: every verb that writes `state.json`, as steps of concurrent processes with crashes | the detailed specification, with its mapping to `SprintLifecycle` |
| `SprintLifecycle` | what `docs/state-schema.md` and `transitions.py` promise of the sprint on disk | the abstract specification, one variable |
| `MCSpine` | `StateSpine` for TLC | |
| `ReviewPackage` | `review_package.py`, `package`, `review-guard`, and the EXECUTE and REVIEW runs between which they work | one protocol over git, the trail and the operator |
| `Documents` | the sprint doc and the dev plan as the regular expressions of both parsers see them | constants and kinds of line |
| `ProofLines` | `proofs.py`: the proof-line parser | a loop, against its grammar |
| `PlanCoverage` | `plan_coverage.py`: the fence scanner and the two-way join | a loop, against CommonMark's rule and the join said of the whole plan |
| `LoadTasks`, `MCLoadTasks` | `load_tasks` of `commands.py` up to its write: the doc, then the plan with the doc's stories | the composition of the two |
| `Guards` | what the guards, preflight and `action` answer | operators over commits that are trees of watched paths |
| `Drain` | the EXECUTE stage of `SKILL.md`: the walk, the task cycle, the record, the halt | actions of one run; extends `Guards` |
| `Conductor`, `MCConductor` | the other stages, the gates, what dies and what the operator does between the runs | the composition; extends `Drain` |
| `Worktree`, `MCWorktree` | `worktree.py` step by step, with deaths, a failing git and an operator | the detailed specification |
| `DispatchRoot` | what `worktree` promises EXECUTE | the abstract specification |
| `SpineProofs`, `ConductorProofs`, `DrainProofs`, `ReviewPackageProofs`, `PlanCoverageProofs`, `ProofLinesProofs`, `WorktreeProofs` | theorems about the module of that name | TLAPS |
| `SprintStateProofs` | lemmas about the operators of `SprintState`, which the spine and the conductor share | TLAPS |

### The spine

A CLI invocation is a process `p` with a program counter. The verb's own action (`record_gate`,
`load_tasks`, ...) is the load of `state.json` with every validation that can refuse: a refusal
writes nothing, so it is no step. It leaves `p` with what the code then holds in memory: the row
to append (`out`) and the state to write (`buf`). `append_jsonl` and `dump_state` then each take
one step, in the order the code calls them; `archive_state` and `archive_gates` are the two
renames of `_archive_existing`. `Crash` may come before each of them, `TornCrash` inside an
append. `TouchFiles` is whoever edits the repository: artifacts exist or not.

| variable | on disk / in memory |
|---|---|
| `state` | `.supskill/state.json`, `None` when missing |
| `trails` | `gates.jsonl`, `runs/<id>/tasks.jsonl`, `runs/<id>/blockers.jsonl`: sequences of lines; a line has the row it parses to, if any, and whether a newline ends it |
| `archives` | the `archive-<n>` directories |
| `files` | repository paths that exist |
| `pc`, `buf`, `out`, `slot` | one invocation's locals |

Abstractions, each on the side of more behaviours or none: text fields no rule reads are dropped;
ids are already normalized; a missing trail is a trail with no lines (`_jsonl_records` and
`append_jsonl` treat them alike); the per-id numbering of archives is one sequence; `mkdir` and
the rename that follows it are one step, as nothing reads an empty archive directory; reading
`state.json` is one step because it is replaced by a rename; the temporary file a crash can leave
beside it is read by nobody; a state file a human corrupted is not modelled (the verbs refuse it,
and `init --archive` archives it as it is). A backlog is recorded or not.

### The review package

EXECUTE drains tasks into commits, cuts the diff in its dispatch root (the repository, or a
worktree), records in `package.jsonl` the SHA it covers, advances and stops; REVIEW is another run,
which asks `review-guard` first. `pc` is where a run stands, and every step of SKILL.md's two
sections is an action, so a run can die between any two of them. `refuse` is the guard's three
refusals with what each prints (`Remedy`); `recut` and `rerecord` are the operator doing it;
`commit_out_of_band` is a commit nobody recorded; `next_sprint` uses the id again, over the same
trail; `discard_worktree` removes a worktree and its diff. A commit is a number: HEAD only moves
to new ones, so a reset to an older commit is outside the model. A git command that fails makes
the guard refuse as for a stale package and is left out. `calm` is history for the properties: it
turns false when an EXECUTE advances without recording, an append tears, or somebody else commits
during a run. All three are always possible.

### The conductor

`SKILL.md` is the program here: an agent executes it, and the CLI answers. A run is `run`, a record
of what the conversation holds (`pc`, the heading `n`, `base`, the verdict `report`, the stories
left in `todo`, the single retry, whether an operator has answered); `die` and every stop reset
it, and the next `invoke` starts from `state.stage`, as the dispatch table does. All that a
resumed run can know is in the other variables.

| variable | what it is |
|---|---|
| `state` | `state.json`; a verb is one step here, with the operators of `SprintState` |
| `plan`, `docs` | the headings of the dev plan with the stories each names, and what an audit would say of each document |
| `log` | the commits of the branch EXECUTE works on: whose, at which heading, with which watched paths; two fields are history: `seen` (the reader it is owed to has had it) and `adrift` (its BASE was let go of, and nothing on disk tells the next dispatch of it) |
| `repo_tree` | the branch of the repository root once EXECUTE has left it for a worktree |
| `staged` | what the repository root's index holds and its branch does not |
| `anchor` | HEAD when the last line of `tasks.jsonl` was written: what a resumed EXECUTE compares commit times with |
| `package` | the HEAD recorded in `package.jsonl` |
| `decided`, `installed` | the tasks with a decision row; the skills that resolve |
| `ran`, `lost`, `deaths`, `edits` | history the properties read, and two bounds |

`StateSpine` has the writes of each verb and `Conductor` the order in which verbs are called. They
meet in `SprintLifecycle`: `ImplementsLifecycle` says that the writes, crashes included, make only
its changes, and `DrivesTheLifecycle` that the conductor asks for no other. The PAR reviewers and
the citation, prose and layout rules of the audits change no state: an audit is the quality of the
document, arbitrary when an agent has written it. The plan is read in PLAN, the sprint doc in SCOPE and
again in PLAN by `tasks --from`, where one that was spoiled since its audit may or may not be
refused (`ReadIn`, `load_refused`); from then on only whether a document is there matters, so its removal is all
the operator changes then. Reports, reasons and the text of an answer are left out; an answer at Gate 3 is the set of
blockers it names, then the ruling it gives.

`git add`, `git commit` and the row in `actions.jsonl` are three steps (`stage_artifacts`,
`commit_artifacts`, `record_action`); a commit may fail (`commit_refused`), what was staged stays in the
index, and `git ls-files`, which is what `artifact-guard` asks, answers from it (`Index`).

BASE is recorded at every implementer dispatch, the one after a NEEDS_CONTEXT included, and a resumed run has
nothing to compare HEAD with before the first recorded status: both as the prose says. Each lets go
of commits (`LeavesBehind`, `LosesBase`), which become `adrift`. `DoneIsReviewed` is the promise and is false;
`OnlyAdriftIsUnreviewed` says that these two are the only ways it fails.

### The worktree

`ensure_gitignored`, the registration lookup, `git worktree add`, each copy and the report are
steps; `die_*` is a death in each, with what it may have written. `copy` is what the worktree holds
of each artifact, `source` what the root holds, both as version numbers; `during` collects what a
source has held since the call began, and belongs to the abstract specification. `DispatchRoot`
promises that an answer of "ready" comes with copies of that time. It promises nothing about two
artifacts being of one moment, which the code does not give.

### The two scanners

Each loop iteration is one action a branch. A line is the verdict of the code's regular expressions on
it (a heading naming ids, a run of fence characters with what follows it, a proof line with its
unknown tokens, text), so the models begin after the regular expressions. `FindsTheHeadings`,
`JoinIsExact` and `AcceptsTheGrammar` compare what the loop carried in a few variables with a
definition that quantifies over the whole document and mentions no loop.

The grammar is the documented one: a proof line belongs to the story heading *directly* above it, with
no section or foreign heading between (`Heads`). Where one does stand between (`Stray`), the parser takes
the line for the story before, and the documents deny it (section 5). `AcceptsTheGrammar` is stated for docs without such
lines, and `ReturnsEveryProof` says of them only that none is dropped.

`LoadTasks` extends both and runs one after the other as the `tasks` verb does (the theorems are about
each alone, over any documents): the parser's stories are what the plan is joined
with, and without a proof line the plan is not read.

## 3. Runs

The spine runs use `MCSpine` and symmetry over invocations, ids, stories and options; no operator
depends on their identity, and no liveness is checked under it. Deadlock is checked there:
`TouchFiles` is always enabled, so it can only be found where a path set is empty. The
others but `worktree` say `CHECK_DEADLOCK FALSE`: a scanner ends, a review history ends when its bounds are
used up, and a sprint ends when it is ruled on.

| run | instance | shows |
|---|---|---|
| `one_sprint` | one id, two stories, one invocation at a time, crashes | the trail is never behind; crossings are owed to recorded approvals; answers were offered, one a task; the state moves as `SprintLifecycle` says |
| `succession` | two ids, each free to be used again, one archive | nothing live is archived; the trail invariant survives an archiving that dies half way; refinement through `Retire` and `Open` |
| `concurrent` | two invocations at once, torn appends | no lost update makes an inconsistent state |
| `review` | two roots, two sprints of one id, three commits, two deaths; torn appends, an EXECUTE that may record nothing, commits at any time; fairness | while things are calm, what passes `review-guard` is the branch and what EXECUTE has just recorded passes; calm or not, doing what the refusals print gets the sprint reviewed |
| `load_tasks` | every doc of at most 5 lines, then every plan of at most 5 lines from 11, 2 stories | the parser accepts exactly the grammar and returns every proof line; the scanner finds exactly the headings no code block quotes; a plan is accepted exactly when they join both ways |
| `conductor` | two stories; a plan with a heading for one of them and a `(process)` heading, or one story under two headings of which the later is shared; two commits of agents or operators, one death, one edit; fairness | what is recorded done was reviewed and in scope, but for the commits set adrift; crossings are on audited documents; commits are accounted for; the ruling is on the reviewed branch and on documents committed or staged; the state moves as `SprintLifecycle` says; every sprint is ruled on |
| `worktree` | two documents, two edits, deaths and failures each; fairness | `Worktree` implements `DispatchRoot`; nothing is added un-ignored; refusals can be got out of |
| `torn_trail`, `reblocked`, `isolated`, `reviewed`, `two_headings` | smallest instance that reaches it | expected violations, section 5 |

Bounds of the spine (`MaxBlockers`, `MaxRows`, `MaxArchives`, used in guards only).
`MaxRows` limits all trail lines together and so the number of trail-writing verbs in a behaviour.
Two stories are what it takes for one task to be finished while another is open; one story is
enough where a property speaks of one task at a time. One archive is enough for the step between a
sprint and its successor. `concurrent` is small (one story, one row) because two processes already
multiply the states; its property is the one `SpineProofs` proves for every number of processes
and rows, so the run is there for its mutant and to keep the proof honest.

Bounds of the review package. Two sprints are what it takes for a record to be somebody else's, two
roots for it to be about somewhere else, and two deaths for a run to die again while it is redone.
`MaxRows` is above what the commits, deaths and refusals of a passing run can write, so no append
waits for room. A document of five lines holds a fence in a fence with a heading after both, and a
story, a foreign story and their proof lines in a section; the theorems have no bound on length.

Bounds of the conductor. One death is what separates a run from the one that resumes it, and the
hazards are about that pair. Two commits let an agent put in a foreign path and take it out again,
or commit on both sides of a death. One edit spoils one document, or gives one commit of the
operator's. The two plans have a heading of one story, of several and of none, a story of two headings,
which is the shape of the plan `SKILL.md` cites, and a `(process)` heading that comes last. An answer at Gate 3 names all open
blockers, none, or those without an answer yet: what else it may name changes which of them are
answered and no more. `Reports` leaves out `DONE_WITH_CONCERNS`, which the walk treats as
`DONE`. Bounds of the worktree. Two of each are what lets a call die while it repairs what a dead
call left.

Fairness is assumed in three runs. In `conductor`, a run goes on until it stops and a stopped sprint
is invoked again (`Resume`, weak). That is not enough, as agents may fail at every attempt, and a run
that is refused starts over, so three more are strong: the operator does what a refusal names
(`Attend`: commit the documents, cut the package again, repair a document, install a skill); a
dispatched agent or an operator asked for a decision gives a good answer in the end (`Succeed`); and
the ruling comes in the end (`Rule`). Nothing is owed by deaths, edits, commits, reports of BLOCKED
or bad answers: a heading that blocks is recorded, and the sprint is ruled on with its blockers. In `worktree`, a call goes on and is made
again (weak), and the operator runs the `prune` a refusal prints and puts a missing document back
(strong).

In `review`, a stopped run is invoked again and takes its next step,
the guard is asked again after a refusal, and an operator who was told to cut and record again does.
It is the one loop the skill leaves to a human on purpose: a refusal halts the run and names the
commands. Nothing is owed by commits or deaths, which are bounded: a branch that moves for ever
would be refused for ever, and rightly.

## 4. Proofs

| theorem | of | hypotheses |
|---|---|---|
| `TypeCorrect` in each `*Proofs` module (`Drain`'s types are in `Conductor`'s) | `TypeOK`, of the two scanners `ParserTypeOK` and `CoverageTypeOK` | none |
| `SnapshotsAlwaysConsistent` | `SnapshotsConsistent` | none |
| `RetiresOnRuling`, `LivesTheLifecycle` | `ArchivedIsRuled`, `ImplementsLifecycle` | one invocation at a time |
| `TrailLeads`, `CrossesOnApproval` | `TrailNeverBehind`, `CrossingsAreRuled` | and whole appends |
| `AnswersWereOffered` | `DecisionsWereOffered` | and ids used once |
| `NeverImprovises`, `AlwaysAccounted`, `CrossesOnSound`, `RulesOnReviewed`, `DrivesLifecycle` | `NoImprovising`, `CommitsAreAccounted`, `CrossedOnSound`, `RuledOnReviewed`, `DrivesTheLifecycle` | none |
| `OnlyStagedMisses` | `OnlyStagedIsMissing` | none |
| `NothingUnreviewedIsDone`, `NothingForeignIsDone` | `OnlyAdriftIsUnreviewed`, `OnlyAdriftIsUnscoped` | none |
| `PassIsTheBranch`, `RecordIsTaken` | `PassedIsTheBranch`, `RecordedMatches` | none (the properties speak of a `calm` history) |
| `ScanIsRight`, `JoinIsRight`, `ParserIsExact`, `ParserIsFaithful` | `FindsTheHeadings`, `JoinIsExact`, `AcceptsTheGrammar`, `ReturnsEveryProof` | none |
| `NoWorktreeWithoutIgnore`, `PromiseKept` | `AddedUnderIgnore`, `KeepsItsPromise` | none |

No theorem has a bound on processes, ids, stories, options, headings, rows, commits, deaths or edits.
Each rests on the named assumptions of the modules (constants are of the right kind, `None` is no
other value, a dev plan names a story); TLC evaluates them in every run. A hypothesis is there because without it
TLC or the code has a counterexample; the next paragraphs say which.

**The spine.** The inductive invariant `IInv` is `TypeOK /\ SnapshotsConsistent`. Consistency of `state`
alone is not inductive: `dump_state` writes what was computed from a state that may be gone. Hence the
conjunct on `buf`, and in `TypeOK` the tie between a process's place and what it holds. That every
`buf` is consistent rests on one lemma a verb (`WithGateConsistent`, `WithTasksConsistent`, ... in
`SprintStateProofs`): each maps a consistent state it accepts to a consistent one. That is why no lock
is needed for *this* property: a verb validates and computes from one atomic read, so the last writer
wins with a consistent state, though updates can be lost. A lost update can still undo another verb's
effect (a `DONE` task back to `PENDING`); no document promises otherwise.

The other theorems of the spine need that nothing is lost, so they are stated as
`Spec /\ []OneAtATime => ...`: at most one process is away from `idle`, as when the conductor runs one
verb after another, and any of them may die at any step. `OneAtATime` is a hypothesis about who
calls the CLI, which has no lock: two invocations at once violate all five properties, and `concurrent`
is the run of the property that survives them. The proofs share four
invariants, each needed by the next:

* `Current`: what an invocation holds is one verb's change of the `state.json` that is there now (`Follows`),
  or an opening where there is none; an archiving init holds a sprint that was not live. The refinement
  of `SprintLifecycle` and `ArchivedIsRuled` follow.
* `TrailInv`: every line of a trail is whole, and a state is audited (gates, statuses, blockers, crossings) by
  the trails it will be written after: those of now for `state.json` and for a pending dump, those of
  after the append (`With`) for a pending append. That the trail leads is not inductive without the
  pending states. It needs whole appends (`TornAppends = FALSE`): `torn_trail` is the counterexample.
* `AnswerInv`: the same for the answers, and that an id whose trail holds an answer has been
  taken, so that a sprint opens over a trail without answers. It needs `IdsUsedOnce`: `runs/<id>/` outlives
  its sprint, and with an id used again `show` prints the answers of the sprint before (section 5). A
  second blocker of a task leaves the first one what it was (`FirstStays`), which is all that keeps
  an answer among the options it was offered.

**The conductor.** The invariant `IInv` of `ConductorProofs` says, for each place a run can be in, which
stage it is in (`PcFits`) and what is true of the disk there, whoever left it so: nothing dispatched or
decided before EXECUTE (`Untouched`), tasks that are the plan's from EXECUTE on (`Planned`), documents
sound from their audit to the crossing (`Audited`), skills for the stages to come (`Equipped`), only
the conductor's commits after the package the guard passed (`Reviewing`). A run may die anywhere and
the next one starts from `state.stage`; the conjuncts on stages alone are what it starts with.
`OnlyStagedMisses` adds `InTheIndex`, that the documents `git ls-files` saw are in the index of the
repository root until the ruling, through every commit there, whoever makes it. That they are in the
branch under review does not follow, with a worktree (`isolated`) or without one (section 5).

`DrainProofs` follows a commit that must not come to stand behind a done task (`Owed`: an implementer's,
of a heading with stories, not adrift, unseen by the reviewer or bringing a foreign path). `DrainInv` says
that its heading is the first that waits, and that the cycle at work, a pending report of BLOCKED, or
the comparison with `anchor` that the next run has yet to make will meet it (`OwedIsFirst`, `OwedIsWatched`).
None of the three alone is inductive, since a death turns the first into the third, and only where there is
an `anchor`: a commit for which there is none is set adrift by the very step that ends its run. A
path counts as brought by a task if it is there since one of its commits and no commit of
the task up to that one found it there (`Introduced`): what a task inherited and took along is not its own.
The theorems have no hypothesis; what they except is written down commit by commit, by `LeavesBehind` and
`LosesBase` alone. That every heading of a done story ran has no theorem: it is false (`two_headings`).

**The review package.** A history is `calm` while every EXECUTE recorded, no append tore and nobody
committed during a run. Each of the three is needed. A torn append breaks the property (section 5); an EXECUTE in a
worktree that records nothing leaves the guard with an older sprint's record in the same way; and
no guard that looks once can speak of a commit that lands later. The invariant `CalmInv` says that as long as it is calm, from the record
on, the newest record is of the sprint's
own root, and that its SHA is HEAD there only while the diff runs to HEAD too. The second half
holds because commits are new: one that lands moves HEAD away from every recorded SHA, including
the SHA a refusal has already printed and the operator has yet to type. The types hold calm or not;
their invariant `Typed` adds that an operator cutting again has been told by a refusal.

**The scanners.** The scan carries
one fence; the invariant keeps, as a ghost chosen by an existential, the set of lines that opened a
block so far, and says that `fence` is the only one no later line has closed. The join's invariant
is that the headings behind it are judged. The parser's says of the lines read what the parser makes
of a foreign heading (`TakenFor`); that this is the documented grammar for docs without stray lines is a
lemma about documents alone (`ReadingsAgree`).

**The worktree.** That a copy is fresh when the call is ready is not inductive, for copies
are made one by one while sources change. The invariant adds, at each step of a call, that
`.gitignore` covers the directory (`Ignored`), that the list is whole before the copying
(`ListWhole`), that what a source holds is among what it has held (`SourceSeen`), and that an
artifact no longer on the list is fresh (`CopiedFresh`). `StepRefines` then maps each action to the
action of `DispatchRoot` it is, or to none.

**Only model-checked**: `EverySprintIsReviewed`, `EverySprintIsRuled` and `EverReady`, since liveness under
fairness is beyond the prover's reach. So is induction over data, which the proofs avoid: the
scanners are state machines whose invariants do the induction. The expected violations are TLC's.

## 5. What the code does that its documents deny

* `torn_trail`: after a torn append the next row is lost, and the trail is behind state.
* `reblocked`: `show` prints the answer to a task's first blocker as its second blocker's own.
* `isolated`: with EXECUTE in a worktree, `artifact-guard` asks git about the branch of the repository
  root. The documents are tracked there, or are committed there, and the sprint is ruled on though the
  branch that implements it does not hold them.
* `reviewed`: BASE is recorded again for the dispatch after a NEEDS_CONTEXT (`SKILL.md:319` with `402`), so what was
  committed before the question is never shown to the reviewer, and the task is recorded `DONE`, which
  `SKILL.md:426-428` and `455` rule out. `DoneIsReviewed` has a second counterexample: a run that dies in the first task of
  a sprint leaves nothing to compare HEAD with (422), and the next run dispatches the task over its own
  unreviewed commits (`Reviewed.cfg` with `MaxDeaths = 1` and no NEEDS_CONTEXT). In the same two ways a
  foreign path committed too early escapes `commit-scope-guard`, which asks from BASE.
* `two_headings`: a heading is skipped once its stories are terminal (370), and a story is recorded as its first
  heading lands (406), so a story's second heading need not run, though the story is `DONE` "only when
  **all** of its headings are" (407).

Each has a run and a counterexample. `PlanIsInTheBranch` is also false without a worktree (`Isolated = FALSE` in
`IsolatedSprint.cfg`): artifact-guard refuses, the run stages the documents, and the commit fails or the
run dies before it; the next run finds them in the index, passes, and the sprint is ruled on with
the documents in no commit (`artifact_tracking.py:60-76`, `stop-classes.md:58`). `OnlyStagedIsMissing` is what is left.

Met while modelling, without a run of their own:

*In the CLI.* `show` prints the note of a `PARKED` the state never took, when a crash came between row and
state (`commands.py:419`). A story without a proof line passes when a heading of another prefix with
a proof line follows it (`proofs.py:87`, against "directly under the story's heading" of
`proofs.py:3`). After a torn append `review-guard` can pass on the record of an earlier sprint of the same id (`review_package.py:104`). `runs/<id>/` outlives an archived
sprint, so a reused id shows the earlier sprint's answers (`commands.py:494`; the answer part of
`DecisionsWereOffered` is checked for an id used once). `_archive_existing` renames two files, and a crash
between them leaves the archive without its gates (`commands.py:266`). The documented schema of
`state.json` does not list `replan` (`docs/state-schema.md:47`). A killed `git worktree add` leaves a
directory that the next call reuses as it is (`worktree.py:84`).

*In SKILL.md.* `--head` is read by a second command after the diff was cut, so a commit between the two is
recorded as covered (329). `block` writes no status line, and `(process)` headings none, so a
resumed run blocks the next task over commits that belong to work already settled (417). A planner's commits are told by the run that dispatched it, and by nobody if
that run dies (214); `CommitsAreAccounted` excepts these as `lost`. In a REVIEW run `artifact-guard` comes
before the question whose answer its remedy needs (523). A conductor that dies between its commit and the
row in `actions.jsonl` has acted without a record (523; also `lost`). An answer that names a blocker already
decided stops every run at the refusal (24, 525). Shape 4 leaves Gate 3 open, and `init --archive` then refuses
the sprint as live (533).

## 6. Not modelled, and the plan

Not modelled: parsing and printing (`cli.py`, `config.py`, ids, scratch paths); the citation audit,
regular expressions over a document that keep no state; `review.py`, one comparison of two
severities; `cost` and `review`, appends to trails no program reads. The regular expressions are
the kinds of line, the audits a verdict. Of the conductor, the closing of the sprint before (the archiving is
`StateSpine`'s), entry at a later stage, and a git command that fails, which makes each guard refuse.

Skills are only ever installed, documents are edited between the runs and not while a question waits, and
plans are not edited while EXECUTE walks them.

Done: every module above, and a theorem for every property of a passing run that is not liveness. Next:

1. `ReviewPackage` with torn appends: what the guard still gives when a record may be lost, if the id
   is used once, so that the appends need not be assumed whole.
2. The spine with overlapping invocations: which properties survive if only verbs that write different
   trails overlap, in place of `OneAtATime`.
3. `TrailInv` without whole appends: which rows a torn append can cost at most, and which it cannot.
