------------------------- MODULE SprintStateProofs -------------------------
(***************************************************************************)
(* Lemmas on the operators of SprintState that the proofs about StateSpine *)
(* and about the conductor share: what each verb makes of a sprint is a    *)
(* sprint, and a consistent one.                                           *)
(***************************************************************************)
EXTENDS SprintState, TLAPS

----------------------------------------------------------------------------
(* The verbs map a sprint to a sprint. *)

LEMMA TaskTableIs ==
    ASSUME NEW S \in SUBSET Story, NEW f \in [S -> TaskStatus]
    PROVE  f \in TaskTable
  BY DEF TaskTable

LEMMA TaskTableHas ==
    ASSUME NEW f \in TaskTable
    PROVE  /\ DOMAIN f \in SUBSET Story
           /\ f \in [DOMAIN f -> TaskStatus]
  BY DEF TaskTable

LEMMA NewSprintType ==
    ASSUME NEW id \in SprintId, NEW entry \in ENTRY_STAGES, NEW backlog \in BOOLEAN,
           NEW continues \in SprintId \cup {None}
    PROVE  NewSprint(id, entry, backlog, continues) \in Sprint
  <1>1. [t \in {} |-> "PENDING"] \in TaskTable
    <2>1. [t \in {} |-> "PENDING"] \in [{} -> TaskStatus]
      BY DEF TaskStatus
    <2>2. {} \in SUBSET Story
      OBVIOUS
    <2>3. QED
      BY <2>1, <2>2, TaskTableIs
  <1>2. <<>> \in Seq(Blocker)
    OBVIOUS
  <1>3. QED
    BY <1>1, <1>2 DEF NewSprint, Sprint, ENTRY_STAGES, Stage

LEMMA WithArtifactType ==
    ASSUME NEW s \in Sprint, NEW a \in ARTIFACT_KEYS, NEW path \in Path
    PROVE  WithArtifact(s, a, path) \in Sprint
  BY DEF WithArtifact, Sprint

LEMMA WithGateType ==
    ASSUME NEW s \in Sprint, NEW g \in GATE_KEYS, NEW d \in GATE_DECISIONS
    PROVE  WithGate(s, g, d) \in Sprint
  BY DEF WithGate, Sprint

LEMMA WithTasksType ==
    ASSUME NEW s \in Sprint, NEW stories \in SUBSET Story
    PROVE  WithTasks(s, stories) \in Sprint
  <1>1. [t \in stories |-> "PENDING"] \in TaskTable
    <2>1. [t \in stories |-> "PENDING"] \in [stories -> TaskStatus]
      BY DEF TaskStatus
    <2>2. QED
      BY <2>1, TaskTableIs
  <1>2. QED
    BY <1>1 DEF WithTasks, Sprint

LEMMA StatusTable ==
    ASSUME NEW f \in TaskTable, NEW t, NEW status \in TaskStatus
    PROVE  /\ [f EXCEPT ![t] = status] \in TaskTable
           /\ DOMAIN [f EXCEPT ![t] = status] = DOMAIN f
  <1>1. [f EXCEPT ![t] = status] \in [DOMAIN f -> TaskStatus]
    BY TaskTableHas
  <1>2. QED
    BY <1>1, TaskTableHas, TaskTableIs

LEMMA WithStatusType ==
    ASSUME NEW s \in Sprint, NEW t, NEW status \in TaskStatus
    PROVE  WithStatus(s, t, status) \in Sprint
  <1>1. s.tasks \in TaskTable
    BY DEF Sprint
  <1>2. [s.tasks EXCEPT ![t] = status] \in TaskTable
    BY <1>1, StatusTable
  <1>3. QED
    BY <1>2 DEF WithStatus, Sprint

LEMMA WithBlockerType ==
    ASSUME NEW s \in Sprint, NEW t \in Story, NEW options \in SUBSET Option
    PROVE  WithBlocker(s, t, options) \in Sprint
  <1>1. s.tasks \in TaskTable /\ s.blockers \in Seq(Blocker)
    BY DEF Sprint
  <1>2. [s.tasks EXCEPT ![t] = "BLOCKED"] \in TaskTable
    BY <1>1, StatusTable DEF TaskStatus
  <1>3. [task |-> t, options |-> options] \in Blocker
    BY DEF Blocker
  <1>4. Append(s.blockers, [task |-> t, options |-> options]) \in Seq(Blocker)
    BY <1>1, <1>3
  <1>5. QED
    BY <1>2, <1>4 DEF WithBlocker, Sprint

LEMMA WithStageType ==
    ASSUME NEW s \in Sprint, NEW to \in Stage
    PROVE  WithStage(s, to) \in Sprint
  BY DEF WithStage, Sprint

----------------------------------------------------------------------------
(* What a status and a blocker leave of a sprint. *)

LEMMA WithStatusFields ==
    ASSUME NEW s \in Sprint, NEW t, NEW status \in TaskStatus,
           NEW new, new = WithStatus(s, t, status)
    PROVE  /\ new \in Sprint /\ new.stage = s.stage /\ new.blockers = s.blockers
           /\ new.artifacts = s.artifacts /\ new.gates = s.gates
           /\ DOMAIN new.tasks = DOMAIN s.tasks
           /\ \A u \in DOMAIN s.tasks : new.tasks[u] = IF u = t THEN status ELSE s.tasks[u]
  <1>1. s.tasks \in TaskTable
    BY DEF Sprint
  <1>2. WithStatus(s, t, status) \in Sprint
    BY WithStatusType
  <1> QED BY <1>1, <1>2, TaskTableHas DEF WithStatus, Sprint

LEMMA WithBlockerTasks ==
    ASSUME NEW s \in Sprint, NEW t \in Story, NEW options \in SUBSET Option,
           NEW new, new = WithBlocker(s, t, options)
    PROVE  /\ new \in Sprint /\ new.stage = s.stage
           /\ new.artifacts = s.artifacts /\ new.gates = s.gates
           /\ DOMAIN new.tasks = DOMAIN s.tasks
           /\ \A u \in DOMAIN s.tasks : new.tasks[u] = IF u = t THEN "BLOCKED" ELSE s.tasks[u]
  <1>1. s.tasks \in TaskTable
    BY DEF Sprint
  <1>2. new \in Sprint
    BY WithBlockerType
  <1> QED BY <1>1, <1>2, TaskTableHas DEF WithBlocker, Sprint

LEMMA WithBlockerBlockers ==
    ASSUME NEW s \in Sprint, NEW t \in Story, NEW options \in SUBSET Option,
           NEW new, new = WithBlocker(s, t, options)
    PROVE  /\ DOMAIN new.blockers = DOMAIN s.blockers \cup {Len(s.blockers) + 1}
           /\ new.blockers[Len(s.blockers) + 1].task = t
           /\ \A i \in DOMAIN s.blockers : new.blockers[i] = s.blockers[i]
  <1>1. s.blockers \in Seq(Blocker)
    BY DEF Sprint
  <1>2. new.blockers = Append(s.blockers, [task |-> t, options |-> options])
    BY DEF WithBlocker, Sprint
  <1>3. /\ DOMAIN new.blockers = DOMAIN s.blockers \cup {Len(s.blockers) + 1}
        /\ new.blockers[Len(s.blockers) + 1] = [task |-> t, options |-> options]
        /\ \A i \in DOMAIN s.blockers : new.blockers[i] = s.blockers[i]
    BY <1>1, <1>2
  <1> QED BY <1>3

----------------------------------------------------------------------------
(* The verbs keep a sprint consistent. *)

LEMMA NewSprintConsistent ==
    ASSUME NEW id \in SprintId, NEW entry \in ENTRY_STAGES, NEW backlog \in BOOLEAN,
           NEW continues \in SprintId \cup {None},
           entry = "SCOPE" => backlog /\ continues = None
    PROVE  Consistent(NewSprint(id, entry, backlog, continues))
  <1> DEFINE s == NewSprint(id, entry, backlog, continues)
  <1>1. /\ s.entry = entry /\ s.stage = entry /\ s.backlog = backlog
        /\ s.continues = continues /\ s.blockers = <<>>
        /\ DOMAIN s.tasks = {}
    BY DEF NewSprint
  <1>2. NotBeforeEntry(s)
    BY <1>1 DEF NotBeforeEntry, StageIndex, ENTRY_STAGES
  <1>3. ScopeEntryIsGrounded(s)
    BY <1>1 DEF ScopeEntryIsGrounded
  <1>4. CrossingsAreEvidenced(s) /\ ReviewIsDrained(s)
    BY <1>1 DEF CrossingsAreEvidenced, ReviewIsDrained, ENTRY_STAGES
  <1>5. BlockersAttached(s) /\ BlockedIsExplained(s)
    BY <1>1 DEF BlockersAttached, BlockedIsExplained
  <1>6. QED
    BY <1>2, <1>3, <1>4, <1>5 DEF Consistent

\* A verb that leaves the stage, the tasks and the blockers alone and erases no artifact.
LEMMA RecordingKeepsConsistent ==
    ASSUME NEW s \in Sprint, Consistent(s), NEW new \in Sprint,
           new.entry = s.entry, new.continues = s.continues, new.backlog = s.backlog,
           new.stage = s.stage, new.tasks = s.tasks, new.blockers = s.blockers,
           \A a \in ARTIFACT_KEYS : s.artifacts[a] # None => new.artifacts[a] # None
    PROVE  Consistent(new)
  <1>1. NotBeforeEntry(new) /\ ScopeEntryIsGrounded(new)
    BY DEF Consistent, NotBeforeEntry, ScopeEntryIsGrounded
  <1>2. CrossingsAreEvidenced(new)
    BY DEF Consistent, CrossingsAreEvidenced, TasksLoaded, ARTIFACT_KEYS
  <1>3. ReviewIsDrained(new)
    BY DEF Consistent, ReviewIsDrained, TasksLoaded, Unfinished
  <1>4. BlockersAttached(new) /\ BlockedIsExplained(new)
    BY DEF Consistent, BlockersAttached, BlockedIsExplained
  <1>5. QED
    BY <1>1, <1>2, <1>3, <1>4 DEF Consistent

LEMMA WithArtifactConsistent ==
    ASSUME NEW s \in Sprint, Consistent(s), NEW a \in ARTIFACT_KEYS, NEW path \in Path
    PROVE  Consistent(WithArtifact(s, a, path))
  <1>1. WithArtifact(s, a, path) \in Sprint
    BY WithArtifactType
  <1>2. \A b \in ARTIFACT_KEYS :
            s.artifacts[b] # None => WithArtifact(s, a, path).artifacts[b] # None
    BY NoneAssumption DEF WithArtifact, Sprint
  <1>3. QED
    BY <1>1, <1>2, RecordingKeepsConsistent DEF WithArtifact, Sprint

LEMMA WithGateConsistent ==
    ASSUME NEW s \in Sprint, Consistent(s), NEW g \in GATE_KEYS, NEW d \in GATE_DECISIONS
    PROVE  Consistent(WithGate(s, g, d))
  <1>1. WithGate(s, g, d) \in Sprint
    BY WithGateType
  <1>2. QED
    BY <1>1, RecordingKeepsConsistent DEF WithGate, Sprint

LEMMA WithTasksConsistent ==
    ASSUME NEW s \in Sprint, Consistent(s), NEW stories \in SUBSET Story,
           stories # {}, NoneStarted(s)
    PROVE  Consistent(WithTasks(s, stories))
  <1> DEFINE new == WithTasks(s, stories)
  <1>1. /\ new.entry = s.entry /\ new.continues = s.continues
        /\ new.backlog = s.backlog /\ new.stage = s.stage
        /\ new.artifacts = s.artifacts /\ new.blockers = s.blockers
        /\ DOMAIN new.tasks = stories
        /\ \A t \in stories : new.tasks[t] = "PENDING"
    BY DEF WithTasks, Sprint
  <1>2. NotBeforeEntry(new) /\ ScopeEntryIsGrounded(new)
    BY <1>1 DEF Consistent, NotBeforeEntry, ScopeEntryIsGrounded
  <1>3. CrossingsAreEvidenced(new)
    BY <1>1 DEF Consistent, CrossingsAreEvidenced, TasksLoaded
  <1>4. ReviewIsDrained(new)
    BY <1>1 DEF Consistent, ReviewIsDrained, TasksLoaded, Unfinished, NoneStarted,
                TERMINAL_STATUSES
  <1>5. DOMAIN s.blockers = {}
    BY DEF Consistent, BlockersAttached, NoneStarted
  <1>6. BlockersAttached(new) /\ BlockedIsExplained(new)
    BY <1>1, <1>5 DEF BlockersAttached, BlockedIsExplained
  <1>7. QED
    BY <1>2, <1>3, <1>4, <1>6 DEF Consistent

LEMMA WithStatusConsistent ==
    ASSUME NEW s \in Sprint, Consistent(s), NEW t \in DOMAIN s.tasks,
           NEW status \in TERMINAL_STATUSES \ {"BLOCKED"}
    PROVE  Consistent(WithStatus(s, t, status))
  <1> DEFINE new == WithStatus(s, t, status)
  <1>0. s.tasks \in TaskTable
    BY DEF Sprint
  <1>1. /\ new.entry = s.entry /\ new.continues = s.continues
        /\ new.backlog = s.backlog /\ new.stage = s.stage
        /\ new.artifacts = s.artifacts /\ new.blockers = s.blockers
        /\ DOMAIN new.tasks = DOMAIN s.tasks
        /\ \A u \in DOMAIN s.tasks :
              new.tasks[u] = IF u = t THEN status ELSE s.tasks[u]
    BY <1>0, TaskTableHas DEF WithStatus, Sprint
  <1>2. NotBeforeEntry(new) /\ ScopeEntryIsGrounded(new)
    BY <1>1 DEF Consistent, NotBeforeEntry, ScopeEntryIsGrounded
  <1>3. CrossingsAreEvidenced(new)
    BY <1>1 DEF Consistent, CrossingsAreEvidenced, TasksLoaded
  <1>4. ReviewIsDrained(new)
    BY <1>1 DEF Consistent, ReviewIsDrained, TasksLoaded, Unfinished
  <1>5. BlockersAttached(new)
    BY <1>1 DEF Consistent, BlockersAttached, TERMINAL_STATUSES
  <1>6. BlockedIsExplained(new)
    BY <1>1 DEF Consistent, BlockedIsExplained
  <1>7. QED
    BY <1>2, <1>3, <1>4, <1>5, <1>6 DEF Consistent

LEMMA WithBlockerConsistent ==
    ASSUME NEW s \in Sprint, Consistent(s), NEW t \in DOMAIN s.tasks,
           NEW options \in SUBSET Option, Cardinality(options) >= 2
    PROVE  Consistent(WithBlocker(s, t, options))
  <1> DEFINE new == WithBlocker(s, t, options)
             last == Len(s.blockers) + 1
  <1>0. s.tasks \in TaskTable /\ s.blockers \in Seq(Blocker)
    BY DEF Sprint
  <1>1. /\ new.entry = s.entry /\ new.continues = s.continues
        /\ new.backlog = s.backlog /\ new.stage = s.stage
        /\ new.artifacts = s.artifacts
        /\ DOMAIN new.tasks = DOMAIN s.tasks
        /\ \A u \in DOMAIN s.tasks :
              new.tasks[u] = IF u = t THEN "BLOCKED" ELSE s.tasks[u]
    BY <1>0, TaskTableHas DEF WithBlocker, Sprint
  <1>2. /\ DOMAIN new.blockers = DOMAIN s.blockers \cup {last}
        /\ new.blockers[last] = [task |-> t, options |-> options]
        /\ \A i \in DOMAIN s.blockers : new.blockers[i] = s.blockers[i]
    <2>1. new.blockers = Append(s.blockers, [task |-> t, options |-> options])
      BY DEF WithBlocker, Sprint
    <2>2. QED
      BY <1>0, <2>1
  <1>3. NotBeforeEntry(new) /\ ScopeEntryIsGrounded(new)
    BY <1>1 DEF Consistent, NotBeforeEntry, ScopeEntryIsGrounded
  <1>4. CrossingsAreEvidenced(new)
    BY <1>1 DEF Consistent, CrossingsAreEvidenced, TasksLoaded
  <1>5. ReviewIsDrained(new)
    BY <1>1 DEF Consistent, ReviewIsDrained, TasksLoaded, Unfinished, TERMINAL_STATUSES
  <1>6. BlockersAttached(new)
    BY <1>1, <1>2 DEF Consistent, BlockersAttached
  <1>7. BlockedIsExplained(new)
    BY <1>1, <1>2 DEF Consistent, BlockedIsExplained
  <1>8. QED
    BY <1>3, <1>4, <1>5, <1>6, <1>7 DEF Consistent

LEMMA WithStageConsistent ==
    ASSUME NEW s \in Sprint, Consistent(s), NEW here,
           s.stage \in DOMAIN NextStage, MayEnter(s, NextStage[s.stage], here)
    PROVE  Consistent(WithStage(s, NextStage[s.stage]))
  <1> DEFINE new == WithStage(s, NextStage[s.stage])
  <1>1. /\ new.entry = s.entry /\ new.continues = s.continues
        /\ new.backlog = s.backlog /\ new.stage = NextStage[s.stage]
        /\ new.artifacts = s.artifacts
        /\ new.tasks = s.tasks /\ new.blockers = s.blockers
    BY DEF WithStage, Sprint
  <1>2. \/ s.stage = "SCOPE" /\ new.stage = "PLAN"
        \/ s.stage = "PLAN" /\ new.stage = "EXECUTE"
        \/ s.stage = "EXECUTE" /\ new.stage = "REVIEW"
    BY <1>1 DEF NextStage
  <1>3. NotBeforeEntry(new)
    BY <1>1, <1>2 DEF Consistent, NotBeforeEntry, StageIndex, Sprint, ENTRY_STAGES
  <1>4. ScopeEntryIsGrounded(new)
    BY <1>1 DEF Consistent, ScopeEntryIsGrounded
  <1>5. CrossingsAreEvidenced(new)
    BY <1>1, <1>2 DEF Consistent, CrossingsAreEvidenced, TasksLoaded, MayEnter,
                      ArtifactPresent, NotBeforeEntry, StageIndex, Sprint, ENTRY_STAGES
  <1>6. ReviewIsDrained(new)
    BY <1>1, <1>2 DEF ReviewIsDrained, TasksLoaded, Unfinished, MayEnter
  <1>7. BlockersAttached(new) /\ BlockedIsExplained(new)
    BY <1>1 DEF Consistent, BlockersAttached, BlockedIsExplained
  <1>8. QED
    BY <1>3, <1>4, <1>5, <1>6, <1>7 DEF Consistent
=============================================================================
