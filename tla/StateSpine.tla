---------------------------- MODULE StateSpine ----------------------------
(***************************************************************************)
(* The supskill-state CLI over the .supskill/ directory: state.json, the   *)
(* append-only trails and the archives. Every invocation is a process that *)
(* loads state.json, validates, appends a row to a trail, and only then    *)
(* replaces state.json, one file operation a step. It may die between any  *)
(* two of them, and in the middle of an append. There is no lock: two      *)
(* invocations interleave as they like.                                    *)
(*                                                                         *)
(* A refusal writes nothing, so it is no step here.                        *)
(***************************************************************************)
EXTENDS SprintState

CONSTANTS Proc,           \* CLI invocations that may run at the same time
          Decisions,      \* the gate decisions the operator takes
          Reports,        \* the statuses `task` is called with
          InitFlags,      \* the --backlog and --continues flags `init` is called with
          TornAppends,    \* whether a process may die inside an append
          MaxBlockers,    \* bound: blockers of one sprint
          MaxRows,        \* bound: lines of all trails together, archived ones included
          MaxArchives     \* bound: sprints archived

ASSUME InputAssumption == /\ Decisions \subseteq GATE_DECISIONS
                          /\ Reports \subseteq TERMINAL_STATUSES \ {"BLOCKED"}
                          /\ InitFlags \subseteq [backlog : BOOLEAN,
                                                  continues : SprintId \cup {None}]
                          /\ TornAppends \in BOOLEAN
ASSUME BoundAssumption == MaxBlockers \in Nat /\ MaxRows \in Nat /\ MaxArchives \in Nat

VARIABLES state,     \* state.json, None when missing
          trails,    \* every append-only file, by name; a missing file has no lines
          archives,  \* the archive-<n> directories, in the order they were made
          files,     \* the paths that exist in the repository
          pc,        \* where each invocation stands
          buf,       \* the state it computed and has not written
          out,       \* the row it computed and has not appended, with its file
          slot       \* the archive directory it made

vars == <<state, trails, archives, files, pc, buf, out, slot>>
locals == <<pc, buf, out, slot>>

----------------------------------------------------------------------------
(* The trails. *)

GatesFile == [file |-> "gates", dir |-> None]
TasksFile(id) == [file |-> "tasks", dir |-> id]
BlockersFile(id) == [file |-> "blockers", dir |-> id]
TrailFile == {GatesFile} \cup {TasksFile(id) : id \in SprintId}
                         \cup {BlockersFile(id) : id \in SprintId}

GateRow == [gate : GATE_KEYS, decision : GATE_DECISIONS]
TaskRow == [task : Story, status : TaskStatus]
BlockerRow == [row : {"blocker", "decision"}, task : Story, option : Option \cup {None}]
Row == GateRow \cup TaskRow \cup BlockerRow

ASSUME RowAssumption == None \notin Row

INSTANCE Trails

Line == LineOf(Row)

\* _last_gate_rows, _blocker_decisions: the last row wins.
DecisionRowsOf(id, t) ==
    {r \in RowsIn(trails[BlockersFile(id)]) : r.row = "decision" /\ r.task = t}

\* What `show` prints beside a blocker: the last answer given for its task.
ShownDecision(b) ==
    LET rows == DecisionRowsOf(state.id, b.task) IN
    IF rows # {} THEN LastRow(trails[BlockersFile(state.id)], rows) ELSE None

\* Only for the bound.
LinesOnDisk ==
    Cardinality(UNION {{f} \X DOMAIN trails[f] : f \in TrailFile}) +
    Cardinality(UNION {{n} \X DOMAIN archives[n].gates : n \in DOMAIN archives})

----------------------------------------------------------------------------
Init ==
    /\ state = None
    /\ trails = [f \in TrailFile |-> <<>>]
    /\ archives = <<>>
    /\ files \in SUBSET Path
    /\ pc = [p \in Proc |-> "idle"]
    /\ buf = [p \in Proc |-> None]
    /\ out = [p \in Proc |-> None]
    /\ slot = [p \in Proc |-> None]

----------------------------------------------------------------------------
(* The first step of a verb: load state.json, refuse or compute what to write. *)

\* p goes on to append `row` to `file`, then to write `new` unless the verb is a
\* pure trail verb, which has nothing to write.
WillAppend(p, file, row, new) ==
    /\ LinesOnDisk < MaxRows
    /\ pc' = [pc EXCEPT ![p] = "append"]
    /\ out' = [out EXCEPT ![p] = [to |-> file, row |-> row]]
    /\ buf' = [buf EXCEPT ![p] = new]
    /\ UNCHANGED <<state, trails, archives, files, slot>>

WillDump(p, new) ==
    /\ pc' = [pc EXCEPT ![p] = "dump"]
    /\ buf' = [buf EXCEPT ![p] = new]
    /\ UNCHANGED <<state, trails, archives, files, out, slot>>

Loads(p) == pc[p] = "idle" /\ state # None

record_artifact(p, name, path) ==
    /\ Loads(p)
    /\ path \in files
    /\ WillDump(p, WithArtifact(state, name, path))

\* Variant: a decision on a gate that has one already skips the trail.
record_gate_FirstRowOnly(p, gate, decision) ==
    /\ Loads(p)
    /\ IF state.gates[gate] = None
       THEN WillAppend(p, GatesFile, [gate |-> gate, decision |-> decision],
                       WithGate(state, gate, decision))
       ELSE WillDump(p, WithGate(state, gate, decision))

record_gate(p, gate, decision) ==
    /\ Loads(p)
    /\ WillAppend(p, GatesFile, [gate |-> gate, decision |-> decision],
                  WithGate(state, gate, decision))

record_blocker(p, task, options) ==
    /\ Loads(p)
    /\ Cardinality(options) >= 2
    /\ task \in DOMAIN state.tasks
    /\ Len(state.blockers) < MaxBlockers
    /\ WillAppend(p, BlockersFile(state.id),
                  [row |-> "blocker", task |-> task, option |-> None],
                  WithBlocker(state, task, options))

\* Variant: no look at the trail for an earlier answer.
record_decision_Again(p, task, option) ==
    /\ Loads(p)
    /\ BlockersOf(state, task) # {}
    /\ option \in FirstBlocker(state, task).options
    /\ WillAppend(p, BlockersFile(state.id),
                  [row |-> "decision", task |-> task, option |-> option], None)

record_decision(p, task, option) ==
    /\ Loads(p)
    /\ BlockersOf(state, task) # {}
    /\ option \in FirstBlocker(state, task).options
    /\ DecisionRowsOf(state.id, task) = {}
    /\ WillAppend(p, BlockersFile(state.id),
                  [row |-> "decision", task |-> task, option |-> option], None)

\* Variant: a reload resets a task list in progress.
load_tasks_Resets(p, doc, stories) ==
    /\ Loads(p)
    /\ doc \in files
    /\ stories # {}
    /\ WillDump(p, WithTasks(state, stories))

\* The doc exists and its proof lines name `stories`; a plan, when one is passed,
\* covers them.
load_tasks(p, doc, stories) ==
    /\ Loads(p)
    /\ doc \in files
    /\ stories # {}
    /\ NoneStarted(state)
    /\ WillDump(p, WithTasks(state, stories))

record_task_status(p, task, status) ==
    /\ Loads(p)
    /\ task \in DOMAIN state.tasks
    /\ WillAppend(p, TasksFile(state.id), [task |-> task, status |-> status],
                  WithStatus(state, task, status))

\* Variant: any later stage is a legal target.
advance_stage_Skips(p, to) ==
    /\ Loads(p)
    /\ StageIndex[to] > StageIndex[state.stage]
    /\ MayEnter(state, to, files)
    /\ WillDump(p, WithStage(state, to))

advance_stage(p, to) ==
    /\ Loads(p)
    /\ state.stage \in DOMAIN NextStage
    /\ to = NextStage[state.stage]
    /\ MayEnter(state, to, files)
    /\ WillDump(p, WithStage(state, to))

\* Variant: --archive archives whatever is there.
init_sprint_Forced(p, id, entry, backlog, continues) ==
    /\ pc[p] = "idle"
    /\ entry = "SCOPE" => continues = None /\ backlog
    /\ state # None => Len(archives) < MaxArchives
    /\ buf' = [buf EXCEPT ![p] = NewSprint(id, entry, backlog, continues)]
    /\ pc' = [pc EXCEPT ![p] = IF state # None THEN "archive_state" ELSE "dump"]
    /\ UNCHANGED <<state, trails, archives, files, out, slot>>

\* init_sprint up to its last refusal. `backlog` and `continues` are the flags; an
\* archiving init inherits what they leave open.
init_sprint(p, id, entry, backlog, continues) ==
    /\ pc[p] = "idle"
    /\ entry = "SCOPE" => continues = None
    /\ LET existing  == state # None
           grounded  == backlog \/ (existing /\ state.backlog)
           inherited == IF existing /\ continues = None /\ entry # "SCOPE"
                        THEN state.id ELSE continues
       IN /\ existing => ~Live(state) /\ Len(archives) < MaxArchives
          /\ entry = "SCOPE" => grounded
          /\ buf' = [buf EXCEPT ![p] = NewSprint(id, entry, grounded, inherited)]
          /\ pc' = [pc EXCEPT ![p] = IF existing THEN "archive_state" ELSE "dump"]
    /\ UNCHANGED <<state, trails, archives, files, out, slot>>

----------------------------------------------------------------------------
(* The steps that write. *)

Finished(p) == /\ pc' = [pc EXCEPT ![p] = "idle"]
               /\ buf' = [buf EXCEPT ![p] = None]
               /\ out' = [out EXCEPT ![p] = None]
               /\ slot' = [slot EXCEPT ![p] = None]

AppendTo(p, line) == trails' = [trails EXCEPT ![out[p].to] = Written(@, line)]

\* Variant: a pure trail verb goes on to dump a state it never computed.
append_jsonl_AlwaysDumps(p) ==
    /\ pc[p] = "append"
    /\ AppendTo(p, [row |-> out[p].row, ended |-> TRUE])
    /\ pc' = [pc EXCEPT ![p] = "dump"]
    /\ UNCHANGED <<state, archives, files, buf, out, slot>>

\* append_jsonl, the trail first. A verb with no state to write ends here.
append_jsonl(p) ==
    /\ pc[p] = "append"
    /\ AppendTo(p, [row |-> out[p].row, ended |-> TRUE])
    /\ IF buf[p] = None
       THEN Finished(p)
       ELSE pc' = [pc EXCEPT ![p] = "dump"] /\ UNCHANGED <<buf, out, slot>>
    /\ UNCHANGED <<state, archives, files>>

\* dump_state: the rename replaces whatever state.json is there.
dump_state(p) ==
    /\ pc[p] = "dump"
    /\ state' = buf[p]
    /\ Finished(p)
    /\ UNCHANGED <<trails, archives, files>>

\* Variant: state.json is copied into the archive and left where it was.
archive_state_Copies(p) ==
    /\ pc[p] = "archive_state"
    /\ state # None
    /\ archives' = Append(archives, [state |-> state, gates |-> <<>>])
    /\ slot' = [slot EXCEPT ![p] = Len(archives) + 1]
    /\ pc' = [pc EXCEPT ![p] = "archive_gates"]
    /\ UNCHANGED <<state, trails, files, buf, out>>

\* _archive_existing makes runs/<id>/archive-<n> and renames state.json into it.
archive_state(p) ==
    /\ pc[p] = "archive_state"
    /\ state # None
    /\ archives' = Append(archives, [state |-> state, gates |-> <<>>])
    /\ state' = None
    /\ slot' = [slot EXCEPT ![p] = Len(archives) + 1]
    /\ pc' = [pc EXCEPT ![p] = "archive_gates"]
    /\ UNCHANGED <<trails, files, buf, out>>

\* ... and then renames gates.jsonl.
archive_gates(p) ==
    /\ pc[p] = "archive_gates"
    /\ archives' = [archives EXCEPT ![slot[p]] = [@ EXCEPT !.gates = trails[GatesFile]]]
    /\ trails' = [trails EXCEPT ![GatesFile] = <<>>]
    /\ pc' = [pc EXCEPT ![p] = "dump"]
    /\ UNCHANGED <<state, files, buf, out, slot>>

----------------------------------------------------------------------------
(* The environment. *)

\* The process dies between two steps, or raises: a rename finds no state.json.
Crash(p) ==
    /\ pc[p] # "idle"
    /\ Finished(p)
    /\ UNCHANGED <<state, trails, archives, files>>

\* It dies inside the append: a part of the line is on disk, which is nothing
\* readable, or the whole row and only the newline is missing.
TornCrash(p) ==
    /\ TornAppends
    /\ pc[p] = "append"
    /\ \E row \in {None, out[p].row} : AppendTo(p, [row |-> row, ended |-> FALSE])
    /\ Finished(p)
    /\ UNCHANGED <<state, archives, files>>

\* An editor or a git checkout adds or removes a path.
TouchFiles ==
    /\ \E path \in Path : files' \in {files \cup {path}, files \ {path}}
    /\ UNCHANGED <<state, trails, archives, locals>>

----------------------------------------------------------------------------
Verb(p) ==
    \/ \E name \in ARTIFACT_KEYS, path \in Path : record_artifact(p, name, path)
    \/ \E gate \in GATE_KEYS, decision \in Decisions : record_gate(p, gate, decision)
    \/ \E task \in Story, options \in SUBSET Option : record_blocker(p, task, options)
    \/ \E task \in Story, option \in Option : record_decision(p, task, option)
    \/ \E doc \in Path, stories \in SUBSET Story : load_tasks(p, doc, stories)
    \/ \E task \in Story, status \in Reports : record_task_status(p, task, status)
    \/ \E to \in Stage : advance_stage(p, to)
    \/ \E id \in SprintId, entry \in ENTRY_STAGES, flags \in InitFlags :
          init_sprint(p, id, entry, flags.backlog, flags.continues)

Write(p) == append_jsonl(p) \/ dump_state(p) \/ archive_state(p) \/ archive_gates(p)

Next == \/ \E p \in Proc : Verb(p) \/ Write(p) \/ Crash(p) \/ TornCrash(p)
        \/ TouchFiles

Spec == Init /\ [][Next]_vars

----------------------------------------------------------------------------
(* Properties. *)

Archive == [state : Sprint, gates : Seq(Line)]
Job == [to : TrailFile, row : Row]

\* The shape of the directory and of every invocation's memory: what an invocation
\* still has to write is what its place in the verb says.
TypeOK ==
    /\ state \in Sprint \cup {None}
    /\ trails \in [TrailFile -> Seq(Line)]
    /\ archives \in Seq(Archive)
    /\ files \in SUBSET Path
    /\ pc \in [Proc -> {"idle", "append", "dump", "archive_state", "archive_gates"}]
    /\ buf \in [Proc -> Sprint \cup {None}]
    /\ out \in [Proc -> Job \cup {None}]
    /\ slot \in [Proc -> Nat \cup {None}]
    /\ \A p \in Proc : /\ pc[p] = "append" => out[p] \in Job
                       /\ pc[p] \in {"dump", "archive_state", "archive_gates"} => buf[p] # None
                       /\ pc[p] = "archive_gates" => slot[p] \in DOMAIN archives

\* However many invocations run at once, wherever each of them dies and whatever the
\* files do meanwhile, a state.json on disk, in an archive or about to be written is
\* one the verbs account for: it stands past no crossing whose evidence it lacks, its
\* REVIEW is drained, its blockers hang on started tasks and explain every BLOCKED one.
SnapshotsConsistent ==
    /\ state # None => Consistent(state)
    /\ \A n \in DOMAIN archives : Consistent(archives[n].state)
    /\ \A p \in Proc : buf[p] # None => Consistent(buf[p])

GateRecorded(s, log) ==
    \A g \in GATE_KEYS : s.gates[g] # None =>
        [gate |-> g, decision |-> s.gates[g]] \in RowsIn(log)

\* docs/state-schema.md "Write order": a crash leaves the audit trail ahead of state,
\* never behind. Every decision, status and blocker state.json carries has its row.
TrailNeverBehind ==
    state # None =>
        /\ GateRecorded(state, trails[GatesFile])
        /\ \A t \in DOMAIN state.tasks : state.tasks[t] \notin {"PENDING", "BLOCKED"} =>
               [task |-> t, status |-> state.tasks[t]] \in RowsIn(trails[TasksFile(state.id)])
        /\ \A t \in Story :
               LET log == trails[BlockersFile(state.id)] IN
               Cardinality(BlockersOf(state, t)) <=
                   Cardinality({i \in Readable(log) : /\ log[i].row.row = "blocker"
                                                      /\ log[i].row.task = t})

\* A sprint past a gate it had to cross owes it to a decision the trail still holds:
\* an approval, even when a later decision on the same gate said otherwise.
CrossingsAreRuled ==
    state # None =>
        /\ (state.entry = "SCOPE" /\ state.stage # "SCOPE") =>
               [gate |-> "G1", decision |-> "approved"] \in RowsIn(trails[GatesFile])
        /\ (state.entry # "EXECUTE" /\ state.stage \in {"EXECUTE", "REVIEW"}) =>
               [gate |-> "G2", decision |-> "approved"] \in RowsIn(trails[GatesFile])

\* _live_sprint_refusal: nothing the operator never ruled on is retired. In an archive
\* without a Gate 3 decision no task is unfinished, every blocker's task succeeded and
\* the sprint was not at REVIEW.
ArchivedIsRuled ==
    \A n \in DOMAIN archives : LET s == archives[n].state IN
        s.gates["G3"] # None \/
            /\ s.stage # "REVIEW"
            /\ "PENDING" \notin {s.tasks[t] : t \in DOMAIN s.tasks}
            /\ \A i \in DOMAIN s.blockers :
                  s.tasks[s.blockers[i].task] \in {"DONE", "DONE_WITH_CONCERNS"}

\* record_decision: the answers on the trail of the sprint were offered to the operator
\* by a blocker of that sprint, and there is one for a task at most. That holds of an id
\* used once: the trail of a reused one still has the answers of the sprint before.
DecisionsWereOffered ==
    state # None =>
        LET log     == trails[BlockersFile(state.id)]
            answers == {i \in Readable(log) : log[i].row.row = "decision"}
        IN /\ \A i, j \in answers : log[i].row.task = log[j].row.task => i = j
           /\ \A i \in answers : LET t == log[i].row.task IN
                  /\ BlockersOf(state, t) # {}
                  /\ log[i].row.option \in FirstBlocker(state, t).options

Lifecycle == INSTANCE SprintLifecycle WITH
                 None <- None, SprintId <- SprintId, Story <- Story, Path <- Path,
                 Option <- Option, state <- state

\* Seen through state.json alone, an invocation that loads, appends and dumps takes
\* one step of the lifecycle or none: no verb skips a stage, reopens a task, drops a
\* blocker or archives a live sprint, whenever it dies.
ImplementsLifecycle == Lifecycle!Spec

----------------------------------------------------------------------------
(* A claim of the code that a task blocked twice breaks.                   *)

\* commands.py _blocker_view: the decision shown with a blocker is the blocker's own.
\* So it is one of the options the operator was offered for that blocker.
ShownDecisionIsOwn ==
    state # None =>
        \A b \in ToSet(state.blockers) :
            LET row == ShownDecision(b) IN row # None => row.option \in b.options
=============================================================================
