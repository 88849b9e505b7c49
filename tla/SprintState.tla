---------------------------- MODULE SprintState ----------------------------
(***************************************************************************)
(* What .supskill/state.json says about one sprint, and the pure rules of  *)
(* scripts/supskill_state over it: the schema (model.py), the transition   *)
(* preconditions (transitions.py), the derived view of blockers            *)
(* (blockers.py) and, for each verb of commands.py, the state it writes.   *)
(* No variables: StateSpine runs these operators in several steps that     *)
(* interleave and crash.                                                   *)
(*                                                                         *)
(* Abstracted: slug, branch, scratch, seam, provable, kind, found and      *)
(* recommend are text no rule reads; an option is its label; the backlog   *)
(* is recorded or not.                                                     *)
(***************************************************************************)
EXTENDS Naturals, FiniteSets, SequencesExt

CONSTANTS SprintId,   \* sprint ids, as normalize_sprint_id names their run directory
          Story,      \* story ids: what a task is named after
          Path,       \* repository paths an artifact can name
          Option,     \* option labels of a blocker
          None        \* null in state.json, and a missing file

ASSUME SprintIdAssumption == SprintId # {}
ASSUME OptionAssumption == IsFiniteSet(Option)

----------------------------------------------------------------------------
(* The vocabulary of model.py. *)

Stage == {"SCOPE", "PLAN", "EXECUTE", "REVIEW"}
ENTRY_STAGES == {"SCOPE", "PLAN", "EXECUTE"}
TaskStatus == {"PENDING", "DONE", "DONE_WITH_CONCERNS", "BLOCKED", "PARKED"}
TERMINAL_STATUSES == {"DONE", "DONE_WITH_CONCERNS", "BLOCKED", "PARKED"}
GATE_KEYS == {"G1", "G2", "G3"}
GATE_DECISIONS == {"approved", "rejected", "replan"}
ARTIFACT_KEYS == {"sprint_doc", "dev_plan"}

\* The position of a stage in STAGE_ORDER, and the stage after it.
StageIndex == [SCOPE |-> 1, PLAN |-> 2, EXECUTE |-> 3, REVIEW |-> 4]
NextStage == [SCOPE |-> "PLAN", PLAN |-> "EXECUTE", EXECUTE |-> "REVIEW"]

Blocker == [task : Story, options : SUBSET Option]

\* tasks[] as a function from the loaded stories: proofs.py refuses a duplicate.
TaskTable == UNION {[S -> TaskStatus] : S \in SUBSET Story}

Sprint == [id : SprintId, entry : ENTRY_STAGES, continues : SprintId \cup {None},
           backlog : BOOLEAN, stage : Stage,
           artifacts : [ARTIFACT_KEYS -> Path \cup {None}],
           gates : [GATE_KEYS -> GATE_DECISIONS \cup {None}],
           tasks : TaskTable, blockers : Seq(Blocker)]

\* null is a value of no other kind.
ASSUME NoneAssumption == /\ None \notin SprintId \cup Path \cup Option
                         /\ None \notin GATE_DECISIONS
                         /\ None \notin Sprint

----------------------------------------------------------------------------
(* blockers.py: whether a blocker is settled is derived from its task. *)

RESOLVING_STATUSES == {"DONE", "DONE_WITH_CONCERNS"}

Resolved(s, b) == b.task \in DOMAIN s.tasks /\ s.tasks[b.task] \in RESOLVING_STATUSES
OpenBlockers(s) == {b \in ToSet(s.blockers) : ~Resolved(s, b)}

\* The blocker record_decision finds for a task: the first one in the list.
BlockersOf(s, t) == {i \in DOMAIN s.blockers : s.blockers[i].task = t}
FirstBlocker(s, t) ==
    s.blockers[CHOOSE i \in BlockersOf(s, t) : \A j \in BlockersOf(s, t) : i <= j]

----------------------------------------------------------------------------
(* commands.py _live_sprint_refusal: archiving would retire unruled work. *)

Unfinished(s) == {t \in DOMAIN s.tasks : s.tasks[t] \notin TERMINAL_STATUSES}

\* Variant: the SK-115 refusal alone and pending tasks, open blockers forgotten.
Live_NoBlockers(s) ==
    /\ s.gates["G3"] = None
    /\ s.stage = "REVIEW" \/ Unfinished(s) # {}

Live(s) ==
    /\ s.gates["G3"] = None
    /\ \/ s.stage = "REVIEW"
       \/ Unfinished(s) # {}
       \/ OpenBlockers(s) # {}

----------------------------------------------------------------------------
(* transitions.py: what crossing into a stage requires. *)

\* Variant: any recorded decision passes the gate.
Approved_AnyDecision(s, g) == s.gates[g] # None

Approved(s, g) == s.gates[g] = "approved"
TasksLoaded(s) == DOMAIN s.tasks # {}
ArtifactPresent(s, a, files) == s.artifacts[a] # None /\ s.artifacts[a] \in files

\* Variant: "every task is terminal" passes on an empty tasks[].
MayEnter_EmptyTasks(s, to, files) ==
    /\ to = "PLAN"    => Approved(s, "G1") /\ ArtifactPresent(s, "sprint_doc", files)
    /\ to = "EXECUTE" => Approved(s, "G2") /\ ArtifactPresent(s, "dev_plan", files)
    /\ to = "REVIEW"  => Unfinished(s) = {}

MayEnter(s, to, files) ==
    /\ to = "PLAN"    => Approved(s, "G1") /\ ArtifactPresent(s, "sprint_doc", files)
    /\ to = "EXECUTE" => /\ Approved(s, "G2")
                         /\ ArtifactPresent(s, "dev_plan", files)
                         /\ TasksLoaded(s)
    /\ to = "REVIEW"  => TasksLoaded(s) /\ Unfinished(s) = {}

----------------------------------------------------------------------------
(* The state each verb of commands.py writes. *)

NewSprint(id, entry, backlog, continues) ==
    [id |-> id, entry |-> entry, continues |-> continues, backlog |-> backlog,
     stage |-> entry,
     artifacts |-> [a \in ARTIFACT_KEYS |-> None],
     gates |-> [g \in GATE_KEYS |-> None],
     tasks |-> [t \in {} |-> "PENDING"], blockers |-> <<>>]

WithArtifact(s, a, path) == [s EXCEPT !.artifacts = [@ EXCEPT ![a] = path]]
WithGate(s, g, decision) == [s EXCEPT !.gates = [@ EXCEPT ![g] = decision]]
WithTasks(s, stories) == [s EXCEPT !.tasks = [t \in stories |-> "PENDING"]]
WithStatus(s, t, status) == [s EXCEPT !.tasks = [@ EXCEPT ![t] = status]]
WithBlocker(s, t, options) ==
    [s EXCEPT !.blockers = Append(@, [task |-> t, options |-> options]),
              !.tasks = [@ EXCEPT ![t] = "BLOCKED"]]
WithStage(s, to) == [s EXCEPT !.stage = to]

\* load_tasks refuses while any task has left PENDING.
NoneStarted(s) == \A t \in DOMAIN s.tasks : s.tasks[t] = "PENDING"

----------------------------------------------------------------------------
(* What every state.json the verbs can write must satisfy, whoever wrote it. *)

\* A sprint stands at or past the stage it entered at.
NotBeforeEntry(s) == StageIndex[s.entry] <= StageIndex[s.stage]

\* A sprint that scopes its own doc has a backlog to scope and continues nothing.
ScopeEntryIsGrounded(s) == s.entry = "SCOPE" => s.backlog /\ s.continues = None

\* What the crossings behind the sprint demanded is still recorded.
CrossingsAreEvidenced(s) ==
    /\ (s.entry = "SCOPE" /\ s.stage # "SCOPE") => s.artifacts["sprint_doc"] # None
    /\ (s.entry # "EXECUTE" /\ s.stage \in {"EXECUTE", "REVIEW"}) =>
           s.artifacts["dev_plan"] # None /\ TasksLoaded(s)

\* Nothing is left to run once REVIEW is reached.
ReviewIsDrained(s) == s.stage = "REVIEW" => TasksLoaded(s) /\ Unfinished(s) = {}

\* A blocker names a loaded task that has started, so no reload can drop it.
BlockersAttached(s) ==
    \A i \in DOMAIN s.blockers : /\ s.blockers[i].task \in DOMAIN s.tasks
                                 /\ s.tasks[s.blockers[i].task] # "PENDING"

\* A task is BLOCKED only with a blocker that offers the operator a choice.
BlockedIsExplained(s) ==
    \A t \in DOMAIN s.tasks : s.tasks[t] = "BLOCKED" =>
        \E i \in DOMAIN s.blockers : /\ s.blockers[i].task = t
                                     /\ Cardinality(s.blockers[i].options) >= 2

Consistent(s) ==
    /\ NotBeforeEntry(s)
    /\ ScopeEntryIsGrounded(s)
    /\ CrossingsAreEvidenced(s)
    /\ ReviewIsDrained(s)
    /\ BlockersAttached(s)
    /\ BlockedIsExplained(s)
=============================================================================
