---------------------------- MODULE SpineProofs ----------------------------
(***************************************************************************)
(* What TLAPS proves of StateSpine for every set of invocations, stories,  *)
(* sprint ids and paths, and every bound.                                  *)
(***************************************************************************)
EXTENDS StateSpine, SprintStateProofs, FiniteSetTheorems, WellFoundedInduction

----------------------------------------------------------------------------
(* The inductive invariant: the types, and that every copy of a state is          *)
(* consistent. A buffer must be part of it: what dump_state writes was computed   *)
(* from a state.json that another invocation may have replaced since.             *)

IInv == TypeOK /\ SnapshotsConsistent

LEMMA WrittenType ==
    ASSUME NEW log \in Seq(Line), NEW line \in Line
    PROVE  Written(log, line) \in Seq(Line)
  <1>1. [line EXCEPT !.row = None] \in Line
    BY DEF Line, LineOf
  <1>2. CASE log # <<>> /\ ~Last(log).ended
    <2>1. Front(log) \in Seq(Line)
      BY <1>2 DEF Front
    <2>2. QED
      BY <1>1, <1>2, <2>1 DEF Written
  <1>3. CASE ~(log # <<>> /\ ~Last(log).ended)
    BY <1>3 DEF Written
  <1>4. QED
    BY <1>2, <1>3

LEMMA InitEstablishes == Init => IInv
  <1> SUFFICES ASSUME Init PROVE IInv
    OBVIOUS
  <1>1. TypeOK
    BY DEF Init, TypeOK
  <1>2. SnapshotsConsistent
    BY DEF Init, SnapshotsConsistent
  <1>3. QED
    BY <1>1, <1>2 DEF IInv

LEMMA WillDumpKeeps ==
    ASSUME IInv, NEW p \in Proc, NEW new \in Sprint, Consistent(new),
           pc[p] = "idle", WillDump(p, new)
    PROVE  IInv'
  <1>1. TypeOK'
    BY NoneAssumption DEF IInv, TypeOK, WillDump
  <1>2. SnapshotsConsistent'
    BY DEF IInv, TypeOK, SnapshotsConsistent, WillDump
  <1>3. QED
    BY <1>1, <1>2 DEF IInv

LEMMA WillAppendKeeps ==
    ASSUME IInv, NEW p \in Proc, NEW file \in TrailFile, NEW row \in Row,
           NEW new \in Sprint \cup {None}, new # None => Consistent(new),
           pc[p] = "idle", WillAppend(p, file, row, new)
    PROVE  IInv'
  <1>1. [to |-> file, row |-> row] \in Job
    BY DEF Job
  <1>2. TypeOK'
    BY <1>1 DEF IInv, TypeOK, WillAppend
  <1>3. SnapshotsConsistent'
    BY DEF IInv, TypeOK, SnapshotsConsistent, WillAppend
  <1>4. QED
    BY <1>2, <1>3 DEF IInv

LEMMA TrailFiles ==
    ASSUME NEW id \in SprintId
    PROVE  GatesFile \in TrailFile /\ TasksFile(id) \in TrailFile /\ BlockersFile(id) \in TrailFile
  BY DEF TrailFile

LEMMA VerbKeeps ==
    ASSUME IInv, NEW p \in Proc, Verb(p)
    PROVE  IInv'
  <1>0. ASSUME state # None
        PROVE  /\ state \in Sprint /\ Consistent(state)
               /\ state.id \in SprintId /\ DOMAIN state.tasks \subseteq Story
    BY <1>0, TaskTableHas DEF IInv, TypeOK, SnapshotsConsistent, Sprint
  <1>1. ASSUME NEW name \in ARTIFACT_KEYS, NEW path \in Path, record_artifact(p, name, path)
        PROVE  IInv'
    BY <1>0, <1>1, WithArtifactType, WithArtifactConsistent, WillDumpKeeps
    DEF record_artifact, Loads
  <1>2. ASSUME NEW gate \in GATE_KEYS, NEW decision \in Decisions,
               record_gate(p, gate, decision)
        PROVE  IInv'
    <2>1. decision \in GATE_DECISIONS
      BY InputAssumption
    <2>2. [gate |-> gate, decision |-> decision] \in Row
      BY <2>1 DEF Row, GateRow
    <2>3. /\ WithGate(state, gate, decision) \in Sprint
          /\ Consistent(WithGate(state, gate, decision))
      BY <1>0, <1>2, <2>1, WithGateType, WithGateConsistent DEF record_gate, Loads
    <2>4. QED
      BY <1>0, <1>2, <2>2, <2>3, TrailFiles, WillAppendKeeps DEF record_gate, Loads
  <1>3. ASSUME NEW task \in Story, NEW options \in SUBSET Option,
               record_blocker(p, task, options)
        PROVE  IInv'
    <2>1. [row |-> "blocker", task |-> task, option |-> None] \in Row
      BY DEF Row, BlockerRow
    <2>2. /\ WithBlocker(state, task, options) \in Sprint
          /\ Consistent(WithBlocker(state, task, options))
      BY <1>0, <1>3, WithBlockerType, WithBlockerConsistent DEF record_blocker, Loads
    <2>3. QED
      BY <1>0, <1>3, <2>1, <2>2, TrailFiles, WillAppendKeeps DEF record_blocker, Loads
  <1>4. ASSUME NEW task \in Story, NEW option \in Option, record_decision(p, task, option)
        PROVE  IInv'
    <2>1. [row |-> "decision", task |-> task, option |-> option] \in Row
      BY DEF Row, BlockerRow
    <2>2. QED
      BY <1>0, <1>4, <2>1, TrailFiles, WillAppendKeeps DEF record_decision, Loads
  <1>5. ASSUME NEW doc \in Path, NEW stories \in SUBSET Story, load_tasks(p, doc, stories)
        PROVE  IInv'
    BY <1>0, <1>5, WithTasksType, WithTasksConsistent, WillDumpKeeps DEF load_tasks, Loads
  <1>6. ASSUME NEW task \in Story, NEW status \in Reports,
               record_task_status(p, task, status)
        PROVE  IInv'
    <2>1. status \in TERMINAL_STATUSES \ {"BLOCKED"} /\ status \in TaskStatus
      BY InputAssumption DEF TERMINAL_STATUSES, TaskStatus
    <2>2. [task |-> task, status |-> status] \in Row
      BY <2>1 DEF Row, TaskRow
    <2>3. /\ WithStatus(state, task, status) \in Sprint
          /\ Consistent(WithStatus(state, task, status))
      BY <1>0, <1>6, <2>1, WithStatusType, WithStatusConsistent DEF record_task_status, Loads
    <2>4. QED
      BY <1>0, <1>6, <2>2, <2>3, TrailFiles, WillAppendKeeps DEF record_task_status, Loads
  <1>7. ASSUME NEW to \in Stage, advance_stage(p, to)
        PROVE  IInv'
    BY <1>0, <1>7, WithStageType, WithStageConsistent, WillDumpKeeps DEF advance_stage, Loads
  <1>8. ASSUME NEW id \in SprintId, NEW entry \in ENTRY_STAGES, NEW flags \in InitFlags,
               init_sprint(p, id, entry, flags.backlog, flags.continues)
        PROVE  IInv'
    <2> DEFINE existing  == state # None
               grounded  == flags.backlog \/ (existing /\ state.backlog)
               inherited == IF existing /\ flags.continues = None /\ entry # "SCOPE"
                            THEN state.id ELSE flags.continues
               new       == NewSprint(id, entry, grounded, inherited)
    <2>1. flags.backlog \in BOOLEAN /\ flags.continues \in SprintId \cup {None}
      BY InputAssumption
    <2>2. grounded \in BOOLEAN
      OBVIOUS
    <2>3. inherited \in SprintId \cup {None}
      BY <1>0, <2>1
    <2>4. entry = "SCOPE" => grounded /\ inherited = None
      BY <1>8 DEF init_sprint
    <2>5. new \in Sprint /\ Consistent(new)
      BY <2>2, <2>3, <2>4, NewSprintType, NewSprintConsistent
    <2>6. /\ buf' = [buf EXCEPT ![p] = new]
          /\ pc' = [pc EXCEPT ![p] = IF existing THEN "archive_state" ELSE "dump"]
          /\ UNCHANGED <<state, trails, archives, files, out, slot>>
      BY <1>8 DEF init_sprint
    <2> HIDE DEF new, existing, grounded, inherited
    <2>7. TypeOK'
      BY <2>5, <2>6, NoneAssumption DEF IInv, TypeOK
    <2>8. SnapshotsConsistent'
      BY <2>5, <2>6 DEF IInv, TypeOK, SnapshotsConsistent
    <2>9. QED
      BY <2>7, <2>8 DEF IInv
  <1>9. QED
    BY <1>1, <1>2, <1>3, <1>4, <1>5, <1>6, <1>7, <1>8 DEF Verb

LEMMA FinishedKeeps ==
    ASSUME IInv, NEW p \in Proc, Finished(p),
           state' \in Sprint \cup {None}, state' # None => Consistent(state'),
           trails' \in [TrailFile -> Seq(Line)], UNCHANGED <<archives, files>>
    PROVE  IInv'
  <1>1. TypeOK'
    BY NoneAssumption DEF IInv, TypeOK, Finished
  <1>2. SnapshotsConsistent'
    BY DEF IInv, TypeOK, SnapshotsConsistent, Finished
  <1>3. QED
    BY <1>1, <1>2 DEF IInv

LEMMA AppendToType ==
    ASSUME IInv, NEW p \in Proc, pc[p] = "append", NEW row \in {None, out[p].row},
           NEW ended \in BOOLEAN, AppendTo(p, [row |-> row, ended |-> ended])
    PROVE  trails' \in [TrailFile -> Seq(Line)]
  <1>1. out[p].to \in TrailFile /\ out[p].row \in Row
    BY DEF IInv, TypeOK, Job
  <1>2. [row |-> row, ended |-> ended] \in Line
    BY <1>1 DEF Line, LineOf
  <1>3. trails[out[p].to] \in Seq(Line)
    BY <1>1 DEF IInv, TypeOK
  <1>4. Written(trails[out[p].to], [row |-> row, ended |-> ended]) \in Seq(Line)
    BY <1>2, <1>3, WrittenType
  <1>5. QED
    BY <1>1, <1>4 DEF IInv, TypeOK, AppendTo

LEMMA WriteKeeps ==
    ASSUME IInv, NEW p \in Proc, Write(p)
    PROVE  IInv'
  <1>0. /\ state \in Sprint \cup {None} /\ (state # None => Consistent(state))
        /\ trails \in [TrailFile -> Seq(Line)]
        /\ buf[p] \in Sprint \cup {None} /\ (buf[p] # None => Consistent(buf[p]))
    BY DEF IInv, TypeOK, SnapshotsConsistent
  <1>1. CASE append_jsonl(p)
    <2>1. trails' \in [TrailFile -> Seq(Line)]
      BY <1>1, AppendToType DEF append_jsonl
    <2>2. CASE buf[p] = None
      BY <1>0, <1>1, <2>1, <2>2, FinishedKeeps DEF append_jsonl
    <2>3. CASE buf[p] # None
      <3>1. /\ pc' = [pc EXCEPT ![p] = "dump"]
            /\ UNCHANGED <<state, archives, files, buf, out, slot>>
        BY <1>1, <2>3 DEF append_jsonl
      <3>2. TypeOK'
        BY <2>1, <2>3, <3>1 DEF IInv, TypeOK
      <3>3. SnapshotsConsistent'
        BY <3>1 DEF IInv, SnapshotsConsistent
      <3>4. QED
        BY <3>2, <3>3 DEF IInv
    <2>4. QED
      BY <2>2, <2>3
  <1>2. CASE dump_state(p)
    BY <1>0, <1>2, FinishedKeeps DEF dump_state
  <1>3. CASE archive_state(p)
    <2> DEFINE archive == [state |-> state, gates |-> <<>>]
    <2>1. /\ state \in Sprint /\ Consistent(state)
          /\ archives' = Append(archives, archive)
          /\ state' = None
          /\ slot' = [slot EXCEPT ![p] = Len(archives) + 1]
          /\ pc' = [pc EXCEPT ![p] = "archive_gates"]
          /\ pc[p] = "archive_state"
          /\ UNCHANGED <<trails, files, buf, out>>
      BY <1>0, <1>3 DEF archive_state
    <2>2. archives \in Seq(Archive)
      BY DEF IInv, TypeOK
    <2>3. archive \in Archive
      BY <2>1 DEF Archive
    <2>4. /\ archives' \in Seq(Archive)
          /\ DOMAIN archives' = DOMAIN archives \cup {Len(archives) + 1}
          /\ archives'[Len(archives) + 1] = archive
          /\ \A n \in DOMAIN archives : archives'[n] = archives[n]
          /\ Len(archives) + 1 \in Nat
      BY <2>1, <2>2, <2>3
    <2>5. TypeOK'
      BY <2>1, <2>4 DEF IInv, TypeOK
    <2>6. SnapshotsConsistent'
      BY <2>1, <2>4 DEF IInv, SnapshotsConsistent
    <2>7. QED
      BY <2>5, <2>6 DEF IInv
  <1>4. CASE archive_gates(p)
    <2>1. /\ pc[p] = "archive_gates"
          /\ archives' = [archives EXCEPT ![slot[p]] = [@ EXCEPT !.gates = trails[GatesFile]]]
          /\ trails' = [trails EXCEPT ![GatesFile] = <<>>]
          /\ pc' = [pc EXCEPT ![p] = "dump"]
          /\ UNCHANGED <<state, files, buf, out, slot>>
      BY <1>4 DEF archive_gates
    <2>2. archives \in Seq(Archive) /\ slot[p] \in DOMAIN archives
      BY <2>1 DEF IInv, TypeOK
    <2> DEFINE gates == trails[GatesFile]
    <2>3. GatesFile \in TrailFile
      BY DEF TrailFile
    <2>4. gates \in Seq(Line)
      BY <1>0, <2>3
    <2>5. [archives[slot[p]] EXCEPT !.gates = gates] \in Archive
      <3>1. archives[slot[p]] \in Archive
        BY <2>2
      <3>2. QED
        BY <2>4, <3>1 DEF Archive
    <2>6. /\ archives' \in Seq(Archive)
          /\ DOMAIN archives' = DOMAIN archives
          /\ \A n \in DOMAIN archives : archives'[n].state = archives[n].state
      <3>1. /\ Len(archives') = Len(archives) /\ DOMAIN archives' = DOMAIN archives
            /\ \A n \in DOMAIN archives : archives'[n] =
                  IF n = slot[p] THEN [archives[n] EXCEPT !.gates = trails[GatesFile]]
                                 ELSE archives[n]
        BY <2>1, <2>2
      <3>2. \A n \in DOMAIN archives :
               [archives[n] EXCEPT !.gates = trails[GatesFile]].state = archives[n].state
        BY <2>2 DEF Archive
      <3>3. QED
        BY <2>1, <2>2, <2>5, <3>1, <3>2
    <2>7. trails' \in [TrailFile -> Seq(Line)]
      <3>1. <<>> \in Seq(Line)
        OBVIOUS
      <3>2. QED
        BY <1>0, <2>1, <2>3, <3>1
    <2>8. TypeOK'
      BY <2>1, <2>6, <2>7 DEF IInv, TypeOK
    <2>9. SnapshotsConsistent'
      BY <2>1, <2>6 DEF IInv, SnapshotsConsistent
    <2>10. QED
      BY <2>8, <2>9 DEF IInv
  <1>5. QED
    BY <1>1, <1>2, <1>3, <1>4 DEF Write

LEMMA NextKeeps == IInv /\ [Next]_vars => IInv'
  <1> SUFFICES ASSUME IInv, [Next]_vars PROVE IInv'
    OBVIOUS
  <1>0. /\ state \in Sprint \cup {None} /\ (state # None => Consistent(state))
        /\ trails \in [TrailFile -> Seq(Line)]
    BY DEF IInv, TypeOK, SnapshotsConsistent
  <1>1. ASSUME NEW p \in Proc, Verb(p) PROVE IInv'
    BY <1>1, VerbKeeps
  <1>2. ASSUME NEW p \in Proc, Write(p) PROVE IInv'
    BY <1>2, WriteKeeps
  <1>3. ASSUME NEW p \in Proc, Crash(p) PROVE IInv'
    BY <1>0, <1>3, FinishedKeeps DEF Crash
  <1>4. ASSUME NEW p \in Proc, TornCrash(p) PROVE IInv'
    <2>1. trails' \in [TrailFile -> Seq(Line)]
      BY <1>4, AppendToType DEF TornCrash
    <2>2. QED
      BY <1>0, <1>4, <2>1, FinishedKeeps DEF TornCrash
  <1>5. CASE TouchFiles
    <2>1. files' \in SUBSET Path /\ UNCHANGED <<state, trails, archives, pc, buf, out, slot>>
      BY <1>5 DEF TouchFiles, locals, IInv, TypeOK
    <2>2. TypeOK' /\ SnapshotsConsistent'
      BY <2>1 DEF IInv, TypeOK, SnapshotsConsistent
    <2>3. QED
      BY <2>2 DEF IInv
  <1>6. CASE UNCHANGED vars
    BY <1>6 DEF vars, IInv, TypeOK, SnapshotsConsistent
  <1>7. QED
    BY <1>1, <1>2, <1>3, <1>4, <1>5, <1>6 DEF Next

----------------------------------------------------------------------------
(* The theorems. *)

THEOREM Invariance == Spec => []IInv
  BY InitEstablishes, NextKeeps, PTL DEF Spec

\* The directory and every invocation's memory keep their shape, torn lines included:
\* an append leaves a trail of lines, and what is about to be written is a state.
THEOREM TypeCorrect == Spec => []TypeOK
  <1>1. IInv => TypeOK
    BY DEF IInv
  <1>2. QED
    BY <1>1, Invariance, PTL

\* However many invocations interleave without a lock, wherever they die and whatever
\* becomes of the files, no state.json is ever one the rules of the verbs exclude.
THEOREM SnapshotsAlwaysConsistent == Spec => []SnapshotsConsistent
  <1>1. IInv => SnapshotsConsistent
    BY DEF IInv
  <1>2. QED
    BY <1>1, Invariance, PTL

----------------------------------------------------------------------------
(* One invocation at a time, as the conductor makes them. Nothing then comes  *)
(* between the load of a verb and its last write, so what an invocation holds *)
(* is still computed from the state.json on disk: the rest follows from that. *)

Place == {"idle", "append", "dump", "archive_state", "archive_gates"}

OneAtATime == \A p, q \in Proc : pc[p] # "idle" /\ pc[q] # "idle" => p = q

Opening(new) ==
    \E id \in SprintId, entry \in ENTRY_STAGES, backlog \in BOOLEAN, continues \in SprintId \cup {None} :
       /\ new = NewSprint(id, entry, backlog, continues)
       /\ entry = "SCOPE" => backlog /\ continues = None

\* What a verb makes of s.
Follows(s, new) ==
    \/ \E a \in ARTIFACT_KEYS, path \in Path : new = WithArtifact(s, a, path)
    \/ \E g \in GATE_KEYS, decision \in GATE_DECISIONS : new = WithGate(s, g, decision)
    \/ \E t \in DOMAIN s.tasks, options \in SUBSET Option : new = WithBlocker(s, t, options)
    \/ \E S \in SUBSET Story : S # {} /\ NoneStarted(s) /\ new = WithTasks(s, S)
    \/ \E t \in DOMAIN s.tasks, status \in TERMINAL_STATUSES \ {"BLOCKED"} :
          new = WithStatus(s, t, status)
    \/ /\ s.stage \in DOMAIN NextStage /\ MayEnter(s, NextStage[s.stage], Path)
       /\ new = WithStage(s, NextStage[s.stage])

Held(p) ==
    /\ pc[p] = "append" =>
           /\ state # None /\ (buf[p] # None => Follows(state, buf[p]))
           /\ out[p].to \in {GatesFile, TasksFile(state.id), BlockersFile(state.id)}
    /\ pc[p] = "dump" => IF state = None THEN Opening(buf[p]) ELSE Follows(state, buf[p])
    /\ pc[p] \in {"archive_state", "archive_gates"} => Opening(buf[p])
    /\ pc[p] = "archive_state" => state # None /\ ~Live(state)
    /\ pc[p] = "archive_gates" => state = None

Current == \A p \in Proc : Held(p)

LEMMA MayEnterAnywhere ==
    ASSUME NEW s, NEW to, NEW here \in SUBSET Path, MayEnter(s, to, here)
    PROVE  MayEnter(s, to, Path)
  BY DEF MayEnter, ArtifactPresent

LEMMA InitCurrent == Init => Current
  BY DEF Init, Current, Held

\* A verb runs while nobody else does, and holds what it computed.
LEMMA VerbCurrent ==
    ASSUME IInv, Current, OneAtATime', NEW p \in Proc, Verb(p)
    PROVE  Current' /\ UNCHANGED <<state, trails, archives>>
  <1>1. /\ UNCHANGED <<state, trails, archives>> /\ pc[p] = "idle" /\ pc' \in [Proc -> Place]
        /\ pc'[p] # "idle" /\ \A q \in Proc : q # p => pc'[q] = pc[q]
    <2>1. pc \in [Proc -> Place]
      BY DEF IInv, TypeOK, Place
    <2>2. pc[p] = "idle" /\ \E at \in {"append", "dump", "archive_state"} : pc' = [pc EXCEPT ![p] = at]
      BY DEF Verb, record_artifact, record_gate, record_blocker, record_decision, load_tasks,
             record_task_status, advance_stage, init_sprint, Loads, WillAppend, WillDump
    <2>3. UNCHANGED <<state, trails, archives>>
      BY DEF Verb, record_artifact, record_gate, record_blocker, record_decision, load_tasks,
             record_task_status, advance_stage, init_sprint, WillAppend, WillDump
    <2> QED BY <2>1, <2>2, <2>3 DEF Place
  <1>2. ASSUME NEW q \in Proc, q # p PROVE pc'[q] = "idle"
    BY <1>1, <1>2 DEF OneAtATime
  <1>3. buf \in [Proc -> Sprint \cup {None}] /\ out \in [Proc -> Job \cup {None}] /\ pc \in [Proc -> Place]
        /\ files \in SUBSET Path
    BY DEF IInv, TypeOK, Place
  <1>4. ASSUME NEW new, Follows(state, new), state # None, WillDump(p, new)
        PROVE  Held(p)'
    BY <1>1, <1>3, <1>4 DEF WillDump, Held
  <1>5. ASSUME NEW file \in {GatesFile, TasksFile(state.id), BlockersFile(state.id)}, NEW row,
               NEW new, new = None \/ Follows(state, new), state # None, WillAppend(p, file, row, new)
        PROVE  Held(p)'
    BY <1>1, <1>3, <1>5 DEF WillAppend, Held
  <1>6. Held(p)'
    <2>1. ASSUME NEW name \in ARTIFACT_KEYS, NEW path \in Path, record_artifact(p, name, path)
          PROVE  Held(p)'
      BY <1>4, <2>1 DEF record_artifact, Loads, Follows
    <2>2. ASSUME NEW gate \in GATE_KEYS, NEW decision \in Decisions, record_gate(p, gate, decision)
          PROVE  Held(p)'
      BY <1>5, <2>2, InputAssumption DEF record_gate, Loads, Follows
    <2>3. ASSUME NEW task \in Story, NEW options \in SUBSET Option, record_blocker(p, task, options)
          PROVE  Held(p)'
      BY <1>5, <2>3 DEF record_blocker, Loads, Follows
    <2>4. ASSUME NEW task \in Story, NEW option \in Option, record_decision(p, task, option)
          PROVE  Held(p)'
      BY <1>5, <2>4 DEF record_decision, Loads
    <2>5. ASSUME NEW doc \in Path, NEW stories \in SUBSET Story, load_tasks(p, doc, stories)
          PROVE  Held(p)'
      BY <1>4, <2>5 DEF load_tasks, Loads, Follows
    <2>6. ASSUME NEW task \in Story, NEW status \in Reports, record_task_status(p, task, status)
          PROVE  Held(p)'
      BY <1>5, <2>6, InputAssumption DEF record_task_status, Loads, Follows
    <2>7. ASSUME NEW to \in Stage, advance_stage(p, to)
          PROVE  Held(p)'
      BY <1>3, <1>4, <2>7, MayEnterAnywhere DEF advance_stage, Loads, Follows
    <2>8. ASSUME NEW id \in SprintId, NEW entry \in ENTRY_STAGES, NEW flags \in InitFlags,
                 init_sprint(p, id, entry, flags.backlog, flags.continues)
          PROVE  Held(p)'
      <3> DEFINE existing  == state # None
                 grounded  == flags.backlog \/ (existing /\ state.backlog)
                 inherited == IF existing /\ flags.continues = None /\ entry # "SCOPE"
                              THEN state.id ELSE flags.continues
                 new       == NewSprint(id, entry, grounded, inherited)
      <3>1. flags.backlog \in BOOLEAN /\ flags.continues \in SprintId \cup {None}
        BY InputAssumption
      <3>2. inherited \in SprintId \cup {None}
        <4>1. existing => state.id \in SprintId
          BY DEF IInv, TypeOK, Sprint
        <4> QED BY <3>1, <4>1
      <3>3. entry = "SCOPE" => grounded /\ inherited = None
        BY <2>8 DEF init_sprint
      <3>4. Opening(new)
        <4>1. grounded \in BOOLEAN
          OBVIOUS
        <4> HIDE DEF grounded, inherited
        <4> QED BY <3>2, <3>3, <4>1 DEF Opening
      <3>5. /\ buf' = [buf EXCEPT ![p] = new]
            /\ pc' = [pc EXCEPT ![p] = IF existing THEN "archive_state" ELSE "dump"]
            /\ existing => ~Live(state)
        BY <2>8 DEF init_sprint
      <3> HIDE DEF new, grounded, inherited
      <3> QED BY <1>1, <1>3, <3>4, <3>5 DEF Held
    <2> QED BY <2>1, <2>2, <2>3, <2>4, <2>5, <2>6, <2>7, <2>8 DEF Verb
  <1>7. ASSUME NEW q \in Proc PROVE Held(q)'
    <2>1. CASE q = p
      BY <1>6, <2>1
    <2>2. CASE q # p
      BY <1>2, <2>2 DEF Held
    <2> QED BY <2>1, <2>2
  <1> QED BY <1>1, <1>7 DEF Current

\* The other invocations are idle while p writes.
LEMMA Alone ==
    ASSUME OneAtATime, NEW p \in Proc, pc[p] # "idle", NEW q \in Proc, q # p
    PROVE  pc[q] = "idle"
  BY DEF OneAtATime

LEMMA RestCurrent ==
    ASSUME IInv, OneAtATime, NEW p \in Proc, pc[p] # "idle", Held(p)',
           NEW at, pc' = [pc EXCEPT ![p] = at]
    PROVE  Current'
  <1>1. pc \in [Proc -> Place]
    BY DEF IInv, TypeOK, Place
  <1>2. ASSUME NEW q \in Proc, q # p PROVE Held(q)'
    <2>1. pc'[q] = "idle"
      BY <1>1, <1>2, Alone
    <2> QED BY <2>1 DEF Held
  <1> QED BY <1>2 DEF Current

LEMMA FinishedCurrent ==
    ASSUME IInv, OneAtATime, NEW p \in Proc, pc[p] # "idle", Finished(p)
    PROVE  Current'
  <1>1. pc \in [Proc -> Place]
    BY DEF IInv, TypeOK, Place
  <1>2. pc' = [pc EXCEPT ![p] = "idle"]
    BY DEF Finished
  <1>3. Held(p)'
    BY <1>1, <1>2 DEF Held
  <1> QED BY <1>2, <1>3, RestCurrent

LEMMA WriteCurrent ==
    ASSUME IInv, Current, OneAtATime, NEW p \in Proc, Write(p)
    PROVE  Current'
  <1>0. /\ pc \in [Proc -> Place] /\ Held(p)
    BY DEF IInv, TypeOK, Place, Current
  <1>1. CASE append_jsonl(p)
    <2>1. CASE buf[p] = None
      BY <1>1, <2>1, FinishedCurrent DEF append_jsonl
    <2>2. CASE buf[p] # None
      <3>1. pc[p] = "append" /\ pc' = [pc EXCEPT ![p] = "dump"] /\ UNCHANGED <<state, buf, out>>
        BY <1>1, <2>2 DEF append_jsonl
      <3>2. Held(p)'
        BY <1>0, <2>2, <3>1 DEF Held
      <3> QED BY <3>1, <3>2, RestCurrent
    <2> QED BY <2>1, <2>2
  <1>2. CASE dump_state(p)
    BY <1>2, FinishedCurrent DEF dump_state
  <1>3. CASE archive_state(p)
    <2>1. /\ pc[p] = "archive_state" /\ pc' = [pc EXCEPT ![p] = "archive_gates"]
          /\ state' = None /\ UNCHANGED <<buf, out>>
      BY <1>3 DEF archive_state
    <2>2. Held(p)'
      BY <1>0, <2>1 DEF Held, Opening
    <2> QED BY <2>1, <2>2, RestCurrent
  <1>4. CASE archive_gates(p)
    <2>1. /\ pc[p] = "archive_gates" /\ pc' = [pc EXCEPT ![p] = "dump"]
          /\ UNCHANGED <<state, buf, out>>
      BY <1>4 DEF archive_gates
    <2>2. Held(p)'
      BY <1>0, <2>1 DEF Held, Opening
    <2> QED BY <2>1, <2>2, RestCurrent
  <1> QED BY <1>1, <1>2, <1>3, <1>4 DEF Write

LEMMA CurrentKept ==
    IInv /\ Current /\ OneAtATime /\ OneAtATime' /\ [Next]_vars => Current'
  <1> SUFFICES ASSUME IInv, Current, OneAtATime, OneAtATime', [Next]_vars PROVE Current'
    OBVIOUS
  <1>1. ASSUME NEW p \in Proc, Verb(p) PROVE Current'
    BY <1>1, VerbCurrent
  <1>2. ASSUME NEW p \in Proc, Write(p) PROVE Current'
    BY <1>2, WriteCurrent
  <1>3. ASSUME NEW p \in Proc, Crash(p) PROVE Current'
    BY <1>3, FinishedCurrent DEF Crash
  <1>4. ASSUME NEW p \in Proc, TornCrash(p) PROVE Current'
    BY <1>4, FinishedCurrent DEF TornCrash
  <1>5. CASE TouchFiles \/ UNCHANGED vars
    BY <1>5 DEF TouchFiles, vars, locals, Current, Held, Opening
  <1> QED BY <1>1, <1>2, <1>3, <1>4, <1>5 DEF Next

\* What is archived was not live when it was.
LEMMA RuledKept ==
    ASSUME IInv, Current, ArchivedIsRuled, [Next]_vars
    PROVE  ArchivedIsRuled'
  <1>1. archives \in Seq(Archive) /\ state \in Sprint \cup {None}
    BY DEF IInv, TypeOK
  <1>2. CASE UNCHANGED archives
    BY <1>2 DEF ArchivedIsRuled
  <1>3. ASSUME NEW p \in Proc, archive_state(p) PROVE ArchivedIsRuled'
    <2>1. state \in Sprint /\ ~Live(state)
      BY <1>1, <1>3 DEF archive_state, Current, Held
    <2> DEFINE archive == [state |-> state, gates |-> <<>>]
    <2>2. archives' = Append(archives, archive) /\ archive \in Archive
      BY <1>3, <2>1 DEF archive_state, Archive
    <2>3. /\ DOMAIN archives' = DOMAIN archives \cup {Len(archives) + 1}
          /\ archives'[Len(archives) + 1] = archive
          /\ \A n \in DOMAIN archives : archives'[n] = archives[n]
      BY <1>1, <2>2
    <2>4. archive.state = state
      OBVIOUS
    <2> HIDE DEF archive
    <2>5. state.gates["G3"] # None \/
            /\ state.stage # "REVIEW"
            /\ "PENDING" \notin {state.tasks[t] : t \in DOMAIN state.tasks}
            /\ \A i \in DOMAIN state.blockers :
                  state.tasks[state.blockers[i].task] \in {"DONE", "DONE_WITH_CONCERNS"}
      <3>1. ASSUME state.gates["G3"] = None PROVE Unfinished(state) = {} /\ OpenBlockers(state) = {}
                                                  /\ state.stage # "REVIEW"
        BY <2>1, <3>1 DEF Live
      <3>2. Unfinished(state) = {} => "PENDING" \notin {state.tasks[t] : t \in DOMAIN state.tasks}
        BY DEF Unfinished, TERMINAL_STATUSES
      <3>3. OpenBlockers(state) = {} =>
              \A i \in DOMAIN state.blockers : Resolved(state, state.blockers[i])
        BY DEF OpenBlockers, ToSet
      <3> QED BY <3>1, <3>2, <3>3 DEF Resolved, RESOLVING_STATUSES
    <2> QED BY <2>3, <2>4, <2>5 DEF ArchivedIsRuled
  <1>4. ASSUME NEW p \in Proc, archive_gates(p) PROVE ArchivedIsRuled'
    <2>1. slot[p] \in DOMAIN archives /\ archives' = [archives EXCEPT ![slot[p]] = [@ EXCEPT !.gates = trails[GatesFile]]]
      BY <1>4 DEF archive_gates, IInv, TypeOK
    <2>2. DOMAIN archives' = DOMAIN archives /\ \A n \in DOMAIN archives : archives'[n].state = archives[n].state
      BY <1>1, <2>1 DEF Archive
    <2> QED BY <2>2 DEF ArchivedIsRuled
  <1>5. \/ UNCHANGED archives
        \/ \E p \in Proc : archive_state(p) \/ archive_gates(p)
    BY DEF Next, Verb, Write, Crash, TornCrash, TouchFiles, append_jsonl, dump_state, vars,
           record_artifact, record_gate, record_blocker, record_decision, load_tasks,
           record_task_status, advance_stage, init_sprint, WillAppend, WillDump
  <1> QED BY <1>2, <1>3, <1>4, <1>5

LEMMA InitRuled == Init => ArchivedIsRuled
  BY DEF Init, ArchivedIsRuled

THEOREM CurrentInvariance == Spec /\ []OneAtATime => [](IInv /\ Current)
  BY InitCurrent, InitEstablishes, NextKeeps, CurrentKept, PTL DEF Spec

\* While invocations do not overlap, none retires work the operator never ruled on.
THEOREM RetiresOnRuling == Spec /\ []OneAtATime => []ArchivedIsRuled
  <1>1. IInv /\ Current /\ ArchivedIsRuled /\ [Next]_vars => ArchivedIsRuled'
    BY RuledKept
  <1> QED BY <1>1, InitRuled, CurrentInvariance, PTL DEF Spec

----------------------------------------------------------------------------
(* The refinement of SprintLifecycle. *)

LEMMA OpensEmpty ==
    ASSUME state = None, Opening(state')
    PROVE  Lifecycle!Open
  <1>1. PICK id \in SprintId, entry \in ENTRY_STAGES, backlog \in BOOLEAN, continues \in SprintId \cup {None} :
           /\ state' = NewSprint(id, entry, backlog, continues)
           /\ entry = "SCOPE" => backlog /\ continues = None
    BY DEF Opening
  <1>2. NewSprint(id, entry, backlog, continues) = Lifecycle!NewSprint(id, entry, backlog, continues)
    BY DEF NewSprint, Lifecycle!NewSprint, ARTIFACT_KEYS, GATE_KEYS, Lifecycle!ARTIFACT_KEYS,
           Lifecycle!GATE_KEYS
  <1>3. Lifecycle!ScopeEntryIsGrounded(state')
    BY <1>1 DEF NewSprint, Lifecycle!ScopeEntryIsGrounded
  <1> QED BY <1>1, <1>2, <1>3 DEF Lifecycle!Open, ENTRY_STAGES, Lifecycle!ENTRY_STAGES

LEMMA FilesEvidence ==
    ASSUME state \in Sprint, NEW a \in ARTIFACT_KEYS, NEW path \in Path,
           state' = WithArtifact(state, a, path)
    PROVE  Lifecycle!Evidence
  <1>1. path # None
    BY NoneAssumption
  <1>2. Lifecycle!OnlyChanges({"artifacts"})
    BY DEF WithArtifact, Sprint, Lifecycle!OnlyChanges
  <1>3. \A b \in ARTIFACT_KEYS : state'.artifacts[b] = IF b = a THEN path ELSE state.artifacts[b]
    BY DEF WithArtifact, Sprint
  <1> QED BY <1>1, <1>2, <1>3 DEF Lifecycle!Evidence, Lifecycle!ARTIFACT_KEYS, ARTIFACT_KEYS

LEMMA RecordsRuling ==
    ASSUME state \in Sprint, NEW gate \in GATE_KEYS, NEW decision \in GATE_DECISIONS,
           state' = WithGate(state, gate, decision)
    PROVE  Lifecycle!Rule
  <1>1. Lifecycle!OnlyChanges({"gates"}) /\ decision # None
    BY NoneAssumption DEF WithGate, Sprint, Lifecycle!OnlyChanges
  <1>2. \A g \in GATE_KEYS : state'.gates[g] = IF g = gate THEN decision ELSE state.gates[g]
    BY DEF WithGate, Sprint
  <1> QED BY <1>1, <1>2 DEF Lifecycle!Rule, Lifecycle!GATE_KEYS, GATE_KEYS

LEMMA LoadsTasks ==
    ASSUME state \in Sprint, NEW S \in SUBSET Story, S # {}, NoneStarted(state),
           state' = WithTasks(state, S)
    PROVE  Lifecycle!Load
  <1>1. Lifecycle!OnlyChanges({"tasks"})
    BY DEF WithTasks, Sprint, Lifecycle!OnlyChanges
  <1>2. state'.tasks = [t \in S |-> "PENDING"]
    BY DEF WithTasks, Sprint
  <1> QED BY <1>1, <1>2 DEF Lifecycle!Load, Lifecycle!NoneStarted, NoneStarted, Lifecycle!TasksLoaded

LEMMA ReportsStatus ==
    ASSUME state \in Sprint, NEW t, NEW status \in TERMINAL_STATUSES \ {"BLOCKED"},
           state' = WithStatus(state, t, status)
    PROVE  Lifecycle!Report
  <1>1. Lifecycle!OnlyChanges({"tasks"})
    BY DEF WithStatus, Sprint, Lifecycle!OnlyChanges
  <1>2. /\ DOMAIN state'.tasks = DOMAIN state.tasks
        /\ \A u \in DOMAIN state.tasks : state'.tasks[u] = IF u = t THEN status ELSE state.tasks[u]
    BY WithStatusFields DEF TERMINAL_STATUSES, TaskStatus
  <1> QED BY <1>1, <1>2 DEF Lifecycle!Report, Lifecycle!Started, TERMINAL_STATUSES

LEMMA HaltsOnBlocker ==
    ASSUME state \in Sprint, NEW t \in DOMAIN state.tasks, NEW options \in SUBSET Option,
           state' = WithBlocker(state, t, options)
    PROVE  Lifecycle!Halt
  <1> DEFINE blocker == [task |-> t, options |-> options]
  <1>1. Lifecycle!OnlyChanges({"tasks", "blockers"})
    BY DEF WithBlocker, Sprint, Lifecycle!OnlyChanges
  <1>2. state'.tasks = [state.tasks EXCEPT ![t] = "BLOCKED"] /\ DOMAIN state'.tasks = DOMAIN state.tasks
    BY DEF WithBlocker, Sprint
  <1>3. DOMAIN state.tasks \subseteq Story
    BY TaskTableHas DEF Sprint
  <1>4. /\ state.blockers \in Seq(Blocker) /\ blocker \in Blocker
        /\ state'.blockers = Append(state.blockers, blocker)
    BY <1>3 DEF WithBlocker, Sprint, Blocker
  <1>5. blocker.task = t
    OBVIOUS
  <1> HIDE DEF blocker
  <1>6. /\ state'.blockers \in Seq(Blocker) /\ Len(state'.blockers) = Len(state.blockers) + 1
        /\ state'.blockers[Len(state'.blockers)] = blocker
        /\ \A i \in 1..Len(state.blockers) : state'.blockers[i] = state.blockers[i]
        /\ Len(state.blockers) \in Nat
    BY <1>4
  <1>7. Lifecycle!Last(state'.blockers).task = t
    BY <1>5, <1>6 DEF Lifecycle!Last
  <1>8. Lifecycle!Front(state'.blockers) = state.blockers
    BY <1>4, <1>6 DEF Lifecycle!Front
  <1> QED BY <1>1, <1>2, <1>6, <1>7, <1>8 DEF Lifecycle!Halt

LEMMA CrossesForward ==
    ASSUME state \in Sprint, state.stage \in DOMAIN NextStage,
           MayEnter(state, NextStage[state.stage], Path),
           state' = WithStage(state, NextStage[state.stage])
    PROVE  Lifecycle!Cross
  <1>1. Lifecycle!OnlyChanges({"stage"}) /\ state'.stage = NextStage[state.stage]
    BY DEF WithStage, Sprint, Lifecycle!OnlyChanges
  <1>2. Lifecycle!MayEnter(state, NextStage[state.stage], Path)
    BY DEF MayEnter, ArtifactPresent, Approved, TasksLoaded, Unfinished, TERMINAL_STATUSES,
           Lifecycle!MayEnter, Lifecycle!ArtifactPresent, Lifecycle!Approved, Lifecycle!TasksLoaded,
           Lifecycle!Unfinished, Lifecycle!TERMINAL_STATUSES
  <1>3. Lifecycle!NextStage = NextStage
    BY DEF NextStage, Lifecycle!NextStage
  <1> QED BY <1>1, <1>2, <1>3 DEF Lifecycle!Cross

LEMMA FollowsIsChange ==
    ASSUME state \in Sprint, state' \in Sprint, Follows(state, state')
    PROVE  Lifecycle!Change
  <1> SUFFICES \/ Lifecycle!Evidence \/ Lifecycle!Rule \/ Lifecycle!Load \/ Lifecycle!Report
               \/ Lifecycle!Halt \/ Lifecycle!Cross
    BY NoneAssumption DEF Lifecycle!Change
  <1> QED BY FilesEvidence, RecordsRuling, LoadsTasks, ReportsStatus, HaltsOnBlocker, CrossesForward
          DEF Follows

\* Only a dump and the rename of state.json into an archive are seen.
LEMMA StepsOfTheLifecycle ==
    IInv /\ Current /\ IInv' /\ [Next]_vars => [Lifecycle!Next]_state
  <1> SUFFICES ASSUME IInv, Current, IInv', [Next]_vars, state' # state PROVE Lifecycle!Next
    OBVIOUS
  <1>0. state \in Sprint \cup {None} /\ state' \in Sprint \cup {None}
    BY DEF IInv, TypeOK
  <1>1. \E p \in Proc : dump_state(p) \/ archive_state(p)
    BY DEF Next, Verb, Write, Crash, TornCrash, TouchFiles, append_jsonl, archive_gates, vars,
           record_artifact, record_gate, record_blocker, record_decision, load_tasks,
           record_task_status, advance_stage, init_sprint, WillAppend, WillDump
  <1>2. ASSUME NEW p \in Proc, archive_state(p) PROVE Lifecycle!Retire
    <2>1. state # None /\ ~Live(state) /\ state' = None
      BY <1>2 DEF archive_state, Current, Held
    <2>2. Lifecycle!Live(state) = Live(state)
      BY DEF Live, Lifecycle!Live, Unfinished, Lifecycle!Unfinished, TERMINAL_STATUSES,
             Lifecycle!TERMINAL_STATUSES, OpenBlockers, Lifecycle!OpenBlockers, ToSet, Lifecycle!ToSet,
             Resolved, Lifecycle!Resolved, RESOLVING_STATUSES, Lifecycle!RESOLVING_STATUSES
    <2> QED BY <2>1, <2>2 DEF Lifecycle!Retire
  <1>3. ASSUME NEW p \in Proc, dump_state(p) PROVE Lifecycle!Open \/ Lifecycle!Change
    <2>1. state' = buf[p] /\ buf[p] # None /\ Held(p) /\ pc[p] = "dump"
      BY <1>3 DEF dump_state, IInv, TypeOK, Current
    <2>2. CASE state = None
      BY <2>1, <2>2, OpensEmpty DEF Held
    <2>3. CASE state # None
      BY <1>0, <2>1, <2>3, FollowsIsChange DEF Held
    <2> QED BY <2>2, <2>3
  <1> QED BY <1>1, <1>2, <1>3 DEF Lifecycle!Next

\* While invocations do not overlap, and wherever each of them dies, what they make of
\* state.json is a life SprintLifecycle allows a sprint: no verb skips a stage, reopens a
\* task, drops a blocker or archives a live sprint.
THEOREM LivesTheLifecycle == Spec /\ []OneAtATime => ImplementsLifecycle
  <1>1. Init => Lifecycle!Init
    BY DEF Init, Lifecycle!Init
  <1>2. IInv /\ Current /\ IInv' /\ [Next]_vars => [Lifecycle!Next]_state
    BY StepsOfTheLifecycle
  <1> QED BY <1>1, <1>2, CurrentInvariance, PTL DEF Spec, ImplementsLifecycle, Lifecycle!Spec

----------------------------------------------------------------------------
(* The trails, where no append tears. What a state carries is audited by the  *)
(* trails it is written after: those of now for state.json and for a dump,    *)
(* those of after the append for what is still behind one.                    *)

BlockerLines(log, t) == {i \in Readable(log) : log[i].row.row = "blocker" /\ log[i].row.task = t}

TasksRecorded(s, tr) ==
    \A t \in DOMAIN s.tasks : s.tasks[t] \notin {"PENDING", "BLOCKED"} =>
        [task |-> t, status |-> s.tasks[t]] \in RowsIn(tr[TasksFile(s.id)])

BlockersRecorded(s, tr) ==
    \A t \in Story :
        Cardinality(BlockersOf(s, t)) <= Cardinality(BlockerLines(tr[BlockersFile(s.id)], t))

CrossingsRuled(s, tr) ==
    /\ (s.entry = "SCOPE" /\ s.stage # "SCOPE") =>
           [gate |-> "G1", decision |-> "approved"] \in RowsIn(tr[GatesFile])
    /\ (s.entry # "EXECUTE" /\ s.stage \in {"EXECUTE", "REVIEW"}) =>
           [gate |-> "G2", decision |-> "approved"] \in RowsIn(tr[GatesFile])

Audited(s, tr) == /\ GateRecorded(s, tr[GatesFile]) /\ TasksRecorded(s, tr)
                  /\ BlockersRecorded(s, tr) /\ CrossingsRuled(s, tr)

\* The trails once `row` is in `file`.
Longer(log, row) == Append(log, [row |-> row, ended |-> TRUE])
With(file, row) == [trails EXCEPT ![file] = Longer(@, row)]

TrailInv ==
    /\ \A f \in TrailFile : \A i \in DOMAIN trails[f] : trails[f][i].ended
    /\ state # None => Audited(state, trails)
    /\ \A p \in Proc :
          /\ pc[p] = "append" /\ buf[p] # None => Audited(buf[p], With(out[p].to, out[p].row))
          /\ pc[p] = "dump" => Audited(buf[p], trails)

LEMMA AppendedLog ==
    ASSUME NEW log \in Seq(Line), NEW row \in Row
    PROVE  /\ Longer(log, row) \in Seq(Line) /\ Len(log) \in Nat /\ Len(log) + 1 \notin Readable(log)
           /\ Readable(log) \subseteq 1..Len(log)
           /\ Readable(Longer(log, row)) = Readable(log) \cup {Len(log) + 1}
           /\ \A i \in Readable(log) : Longer(log, row)[i] = log[i]
           /\ Longer(log, row)[Len(log) + 1].row = row
           /\ RowsIn(Longer(log, row)) = RowsIn(log) \cup {row}
           /\ DOMAIN log = 1..Len(log) /\ DOMAIN Longer(log, row) = DOMAIN log \cup {Len(log) + 1}
           /\ \A i \in DOMAIN log : Longer(log, row)[i] = log[i]
           /\ Longer(log, row)[Len(log) + 1].ended
  <1> DEFINE line == [row |-> row, ended |-> TRUE]
             new == Longer(log, row)
  <1>1. line \in Line /\ line.row = row /\ line.ended /\ row # None
    BY RowAssumption DEF Line, LineOf
  <1> HIDE DEF line
  <1>2. new = Append(log, line)
    BY DEF line, Longer
  <1> HIDE DEF new
  <1>3. /\ new \in Seq(Line) /\ Len(new) = Len(log) + 1 /\ Len(log) \in Nat
        /\ DOMAIN log = 1..Len(log) /\ DOMAIN new = 1..(Len(log) + 1)
        /\ \A i \in DOMAIN log : new[i] = log[i]
    BY <1>1, <1>2
  <1>4. new[Len(log) + 1] = line
    BY <1>1, <1>2, <1>3
  <1>5. DOMAIN new = DOMAIN log \cup {Len(log) + 1} /\ Len(log) + 1 \notin DOMAIN log
    BY <1>3
  <1>6. Readable(new) = Readable(log) \cup {Len(log) + 1}
    BY <1>1, <1>3, <1>4, <1>5 DEF Readable
  <1>7. Readable(log) \subseteq DOMAIN log
    BY DEF Readable
  <1>8. RowsIn(new) = RowsIn(log) \cup {row}
    <2>1. new[Len(log) + 1].row = row /\ \A i \in Readable(log) : new[i].row = log[i].row
      BY <1>1, <1>3, <1>4, <1>7
    <2>2. ASSUME NEW r PROVE r \in RowsIn(new) <=> r \in RowsIn(log) \/ r = row
      <3>1. r \in RowsIn(new) <=> \E i \in Readable(log) \cup {Len(log) + 1} : r = new[i].row
        BY <1>6 DEF RowsIn
      <3>2. r \in RowsIn(log) <=> \E i \in Readable(log) : r = log[i].row
        BY DEF RowsIn
      <3> QED BY <2>1, <3>1, <3>2
    <2> QED BY <2>2
  <1> QED BY <1>1, <1>3, <1>4, <1>5, <1>6, <1>7, <1>8 DEF new

LEMMA WithLog ==
    ASSUME IInv, NEW file \in TrailFile, NEW row \in Row
    PROVE  /\ With(file, row)[file] = Longer(trails[file], row)
           /\ \A f \in TrailFile : f # file => With(file, row)[f] = trails[f]
           /\ \A f \in TrailFile : trails[f] \in Seq(Line) /\ With(file, row)[f] \in Seq(Line)
  <1>1. trails \in [TrailFile -> Seq(Line)]
    BY DEF IInv, TypeOK
  <1>2. /\ With(file, row)[file] = Longer(trails[file], row)
        /\ \A f \in TrailFile : f # file => With(file, row)[f] = trails[f]
    BY <1>1 DEF With
  <1>3. Longer(trails[file], row) \in Seq(Line)
    BY <1>1, AppendedLog
  <1> QED BY <1>1, <1>2, <1>3

LEMMA RowsGrow ==
    ASSUME IInv, NEW file \in TrailFile, NEW row \in Row, NEW f \in TrailFile
    PROVE  /\ RowsIn(trails[f]) \subseteq RowsIn(With(file, row)[f])
           /\ f = file => row \in RowsIn(With(file, row)[f])
  <1>1. CASE f = file
    <2> DEFINE log == trails[f]
               new == With(file, row)[f]
    <2>1. log \in Seq(Line) /\ new = Longer(log, row)
      BY <1>1, WithLog
    <2> HIDE DEF log, new
    <2>2. RowsIn(new) = RowsIn(log) \cup {row}
      BY <2>1, AppendedLog
    <2> QED BY <1>1, <2>2 DEF log, new
  <1>2. CASE f # file
    BY <1>2, WithLog
  <1> QED BY <1>1, <1>2

LEMMA LinesFinite ==
    ASSUME NEW log \in Seq(Line), NEW t
    PROVE  IsFiniteSet(BlockerLines(log, t)) /\ Cardinality(BlockerLines(log, t)) \in Nat
  <1>1. BlockerLines(log, t) \subseteq 1..Len(log) /\ Len(log) \in Nat
    BY DEF BlockerLines, Readable
  <1>2. IsFiniteSet(1..Len(log))
    BY <1>1, FS_Interval
  <1> QED BY <1>1, <1>2, FS_Subset, FS_CardinalityType

LEMMA BlockerLinesGrow ==
    ASSUME IInv, NEW file \in TrailFile, NEW row \in Row, NEW f \in TrailFile, NEW t
    PROVE  /\ Cardinality(BlockerLines(trails[f], t)) \in Nat
           /\ Cardinality(BlockerLines(With(file, row)[f], t)) \in Nat
           /\ Cardinality(BlockerLines(trails[f], t)) <= Cardinality(BlockerLines(With(file, row)[f], t))
           /\ (f = file /\ row.row = "blocker" /\ row.task = t) =>
                 Cardinality(BlockerLines(With(file, row)[f], t)) =
                 Cardinality(BlockerLines(trails[f], t)) + 1
  <1> DEFINE old == BlockerLines(trails[f], t)
             new == BlockerLines(With(file, row)[f], t)
  <1>1. IsFiniteSet(old) /\ IsFiniteSet(new) /\ Cardinality(old) \in Nat /\ Cardinality(new) \in Nat
    BY WithLog, LinesFinite
  <1>2. CASE f = file
    <2> DEFINE log == trails[f]
               more == With(file, row)[f]
    <2>1. /\ Readable(more) = Readable(log) \cup {Len(log) + 1}
          /\ \A i \in Readable(log) : more[i] = log[i]
          /\ more[Len(log) + 1].row = row
          /\ Len(log) + 1 \notin Readable(log)
      <3>1. log \in Seq(Line) /\ more = Longer(log, row)
        BY <1>2, WithLog
      <3> HIDE DEF log, more
      <3>2. /\ Readable(Longer(log, row)) = Readable(log) \cup {Len(log) + 1}
            /\ \A i \in Readable(log) : Longer(log, row)[i] = log[i]
            /\ Longer(log, row)[Len(log) + 1].row = row
            /\ Len(log) + 1 \notin Readable(log)
        BY <3>1, AppendedLog
      <3> QED BY <3>1, <3>2
    <2>2. old \subseteq new
      BY <2>1 DEF BlockerLines
    <2>3. Cardinality(old) <= Cardinality(new)
      BY <1>1, <2>2, FS_Subset
    <2>4. ASSUME row.row = "blocker", row.task = t
          PROVE  Cardinality(new) = Cardinality(old) + 1
      <3>1. new = old \cup {Len(trails[f]) + 1} /\ Len(trails[f]) + 1 \notin old
        BY <2>1, <2>4 DEF BlockerLines
      <3> QED BY <1>1, <3>1, FS_AddElement
    <2> QED BY <1>1, <2>3, <2>4
  <1>3. CASE f # file
    <2>1. new = old
      BY <1>3, WithLog
    <2> QED BY <1>1, <1>3, <2>1
  <1> QED BY <1>2, <1>3

LEMMA SprintHas ==
    ASSUME NEW s \in Sprint
    PROVE  /\ s.id \in SprintId /\ s.tasks \in TaskTable /\ s.blockers \in Seq(Blocker)
           /\ DOMAIN s.tasks \subseteq Story
           /\ \A t : IsFiniteSet(BlockersOf(s, t)) /\ Cardinality(BlockersOf(s, t)) \in Nat
           /\ GatesFile \in TrailFile /\ TasksFile(s.id) \in TrailFile /\ BlockersFile(s.id) \in TrailFile
           /\ GatesFile # TasksFile(s.id) /\ GatesFile # BlockersFile(s.id)
           /\ TasksFile(s.id) # BlockersFile(s.id)
  <1>1. s.id \in SprintId /\ s.tasks \in TaskTable /\ s.blockers \in Seq(Blocker)
    BY DEF Sprint
  <1>2. ASSUME NEW t PROVE IsFiniteSet(BlockersOf(s, t)) /\ Cardinality(BlockersOf(s, t)) \in Nat
    <2>1. BlockersOf(s, t) \subseteq 1..Len(s.blockers) /\ Len(s.blockers) \in Nat
      BY <1>1 DEF BlockersOf
    <2>2. IsFiniteSet(1..Len(s.blockers))
      BY <2>1, FS_Interval
    <2> QED BY <2>1, <2>2, FS_Subset, FS_CardinalityType
  <1>3. /\ GatesFile # TasksFile(s.id) /\ GatesFile # BlockersFile(s.id)
        /\ TasksFile(s.id) # BlockersFile(s.id)
    BY DEF GatesFile, TasksFile, BlockersFile
  <1> QED BY <1>1, <1>2, <1>3, TaskTableHas, TrailFiles

\* An append takes no row away.
LEMMA AuditedGrows ==
    ASSUME IInv, NEW s \in Sprint, Audited(s, trails), NEW file \in TrailFile, NEW row \in Row
    PROVE  Audited(s, With(file, row))
  <1>1. GateRecorded(s, With(file, row)[GatesFile]) /\ CrossingsRuled(s, With(file, row))
    BY RowsGrow, SprintHas DEF Audited, GateRecorded, CrossingsRuled
  <1>2. TasksRecorded(s, With(file, row))
    BY RowsGrow, SprintHas DEF Audited, TasksRecorded
  <1>3. BlockersRecorded(s, With(file, row))
    <2>1. BlockersFile(s.id) \in TrailFile /\ \A t : Cardinality(BlockersOf(s, t)) \in Nat
      BY SprintHas
    <2> QED BY <2>1, BlockerLinesGrow DEF Audited, BlockersRecorded
  <1> QED BY <1>1, <1>2, <1>3 DEF Audited

\* What a verb computes is audited by the trails as they will be when it is written.
LEMMA NewAudited ==
    ASSUME NEW tr \in [TrailFile -> Seq(Line)], NEW new, Opening(new)
    PROVE  Audited(new, tr)
  <1>1. PICK id \in SprintId, entry \in ENTRY_STAGES, backlog \in BOOLEAN, continues \in SprintId \cup {None} :
           new = NewSprint(id, entry, backlog, continues)
    BY DEF Opening
  <1>2. /\ new.id = id /\ new.entry = entry /\ new.stage = entry /\ DOMAIN new.tasks = {}
        /\ new.blockers = <<>> /\ \A g \in GATE_KEYS : new.gates[g] = None
    BY <1>1 DEF NewSprint
  <1>3. GateRecorded(new, tr[GatesFile]) /\ TasksRecorded(new, tr) /\ CrossingsRuled(new, tr)
    BY <1>2 DEF GateRecorded, TasksRecorded, CrossingsRuled, ENTRY_STAGES
  <1>4. BlockersRecorded(new, tr)
    <2>1. \A t : Cardinality(BlockersOf(new, t)) = 0
      BY <1>2, FS_EmptySet DEF BlockersOf
    <2>2. tr[BlockersFile(new.id)] \in Seq(Line)
      BY <1>1, <1>2 DEF TrailFile
    <2> QED BY <2>1, <2>2, LinesFinite DEF BlockersRecorded
  <1> QED BY <1>3, <1>4 DEF Audited

LEMMA RecordingAudited ==
    ASSUME NEW s \in Sprint, NEW tr, Audited(s, tr), NEW new,
           new.id = s.id, new.entry = s.entry, new.stage = s.stage, new.gates = s.gates,
           new.blockers = s.blockers, TasksRecorded(new, tr)
    PROVE  Audited(new, tr)
  <1>1. \A t : BlockersOf(new, t) = BlockersOf(s, t)
    BY DEF BlockersOf
  <1> QED BY <1>1 DEF Audited, GateRecorded, BlockersRecorded, CrossingsRuled

LEMMA ArtifactAudited ==
    ASSUME NEW s \in Sprint, NEW tr, Audited(s, tr), NEW a, NEW path
    PROVE  Audited(WithArtifact(s, a, path), tr)
  <1> DEFINE new == WithArtifact(s, a, path)
  <1>1. /\ new.id = s.id /\ new.entry = s.entry /\ new.stage = s.stage /\ new.gates = s.gates
        /\ new.blockers = s.blockers /\ new.tasks = s.tasks
    BY DEF WithArtifact, Sprint
  <1> HIDE DEF new
  <1>2. TasksRecorded(new, tr)
    BY <1>1 DEF Audited, TasksRecorded
  <1>3. Audited(new, tr)
    BY <1>1, <1>2, RecordingAudited
  <1> QED BY <1>3 DEF new

LEMMA TasksAudited ==
    ASSUME NEW s \in Sprint, NEW tr, Audited(s, tr), NEW stories
    PROVE  Audited(WithTasks(s, stories), tr)
  <1> DEFINE new == WithTasks(s, stories)
  <1>1. /\ new.id = s.id /\ new.entry = s.entry /\ new.stage = s.stage /\ new.gates = s.gates
        /\ new.blockers = s.blockers /\ new.tasks = [t \in stories |-> "PENDING"]
    BY DEF WithTasks, Sprint
  <1> HIDE DEF new
  <1>2. TasksRecorded(new, tr)
    BY <1>1 DEF TasksRecorded
  <1>3. Audited(new, tr)
    BY <1>1, <1>2, RecordingAudited
  <1> QED BY <1>3 DEF new

\* A crossing into PLAN or EXECUTE finds its gate approved, and approvals are on the trail.
LEMMA StageAudited ==
    ASSUME NEW s \in Sprint, NEW tr, Audited(s, tr), s.stage \in DOMAIN NextStage, NEW here,
           MayEnter(s, NextStage[s.stage], here)
    PROVE  Audited(WithStage(s, NextStage[s.stage]), tr)
  <1> DEFINE new == WithStage(s, NextStage[s.stage])
  <1>1. /\ new.id = s.id /\ new.entry = s.entry /\ new.stage = NextStage[s.stage] /\ new.gates = s.gates
        /\ new.blockers = s.blockers /\ new.tasks = s.tasks
    BY DEF WithStage, Sprint
  <1> HIDE DEF new
  <1>2. \A t : BlockersOf(new, t) = BlockersOf(s, t)
    BY <1>1 DEF BlockersOf
  <1>3. GateRecorded(new, tr[GatesFile]) /\ TasksRecorded(new, tr) /\ BlockersRecorded(new, tr)
    BY <1>1, <1>2 DEF Audited, GateRecorded, TasksRecorded, BlockersRecorded
  <1>4. s.stage \in {"SCOPE", "PLAN", "EXECUTE"}
    BY DEF NextStage
  <1>5. \A g \in GATE_KEYS : s.gates[g] = "approved" =>
           [gate |-> g, decision |-> "approved"] \in RowsIn(tr[GatesFile])
    BY NoneAssumption DEF Audited, GateRecorded, GATE_DECISIONS
  <1>6. CrossingsRuled(new, tr)
    <2>1. CASE s.stage = "SCOPE"
      <3>1. new.stage = "PLAN" /\ s.gates["G1"] = "approved"
        BY <1>1, <2>1 DEF NextStage, MayEnter, Approved
      <3> QED BY <1>5, <3>1 DEF CrossingsRuled, GATE_KEYS
    <2>2. CASE s.stage = "PLAN"
      <3>1. new.stage = "EXECUTE" /\ s.gates["G2"] = "approved"
        BY <1>1, <2>2 DEF NextStage, MayEnter, Approved
      <3> QED BY <1>1, <1>5, <2>2, <3>1 DEF CrossingsRuled, GATE_KEYS, Audited
    <2>3. CASE s.stage = "EXECUTE"
      <3>1. new.stage = "REVIEW"
        BY <1>1, <2>3 DEF NextStage
      <3> QED BY <1>1, <2>3, <3>1 DEF CrossingsRuled, Audited
    <2> QED BY <1>4, <2>1, <2>2, <2>3
  <1>7. Audited(new, tr)
    BY <1>3, <1>6 DEF Audited
  <1> QED BY <1>7 DEF new

LEMMA GateAudited ==
    ASSUME IInv, NEW s \in Sprint, Audited(s, trails), NEW gate \in GATE_KEYS,
           NEW decision \in GATE_DECISIONS
    PROVE  Audited(WithGate(s, gate, decision), With(GatesFile, [gate |-> gate, decision |-> decision]))
  <1> DEFINE new == WithGate(s, gate, decision)
             row == [gate |-> gate, decision |-> decision]
             tr == With(GatesFile, row)
  <1>1. /\ new.id = s.id /\ new.entry = s.entry /\ new.stage = s.stage /\ new.tasks = s.tasks
        /\ new.blockers = s.blockers
        /\ \A g \in GATE_KEYS : new.gates[g] = IF g = gate THEN decision ELSE s.gates[g]
    BY DEF WithGate, Sprint
  <1>2. row \in Row /\ GatesFile \in TrailFile
    BY DEF Row, GateRow, TrailFile
  <1>3. Audited(s, tr) /\ row \in RowsIn(tr[GatesFile])
    BY <1>2, AuditedGrows, RowsGrow
  <1> HIDE DEF new, tr
  <1>4. \A t : BlockersOf(new, t) = BlockersOf(s, t)
    BY <1>1 DEF BlockersOf
  <1>5. GateRecorded(new, tr[GatesFile])
    BY <1>1, <1>3 DEF Audited, GateRecorded
  <1>6. Audited(new, tr)
    BY <1>1, <1>3, <1>4, <1>5 DEF Audited, TasksRecorded, BlockersRecorded, CrossingsRuled
  <1> QED BY <1>6 DEF new, tr

LEMMA StatusAudited ==
    ASSUME IInv, NEW s \in Sprint, Audited(s, trails), NEW t \in DOMAIN s.tasks,
           NEW status \in TERMINAL_STATUSES \ {"BLOCKED"}
    PROVE  Audited(WithStatus(s, t, status), With(TasksFile(s.id), [task |-> t, status |-> status]))
  <1> DEFINE new == WithStatus(s, t, status)
             row == [task |-> t, status |-> status]
             tr == With(TasksFile(s.id), row)
  <1>1. /\ new.id = s.id /\ new.entry = s.entry /\ new.stage = s.stage /\ new.gates = s.gates
        /\ new.blockers = s.blockers
    BY DEF WithStatus, Sprint
  <1>2. /\ DOMAIN new.tasks = DOMAIN s.tasks
        /\ \A u \in DOMAIN s.tasks : new.tasks[u] = IF u = t THEN status ELSE s.tasks[u]
    BY WithStatusFields DEF TERMINAL_STATUSES, TaskStatus
  <1>3. TasksFile(s.id) \in TrailFile /\ t \in Story
    BY SprintHas
  <1>4. row \in Row
    BY <1>3 DEF Row, TaskRow, TERMINAL_STATUSES, TaskStatus
  <1>5. Audited(s, tr) /\ row \in RowsIn(tr[TasksFile(s.id)])
    BY <1>3, <1>4, AuditedGrows, RowsGrow
  <1> HIDE DEF new, tr
  <1>6. TasksRecorded(new, tr)
    BY <1>1, <1>2, <1>5 DEF Audited, TasksRecorded
  <1>7. Audited(new, tr)
    BY <1>1, <1>5, <1>6, RecordingAudited
  <1> QED BY <1>7 DEF new, tr

LEMMA BlockerAudited ==
    ASSUME IInv, NEW s \in Sprint, Audited(s, trails), NEW t \in DOMAIN s.tasks,
           NEW options \in SUBSET Option
    PROVE  Audited(WithBlocker(s, t, options),
                   With(BlockersFile(s.id), [row |-> "blocker", task |-> t, option |-> None]))
  <1> DEFINE new == WithBlocker(s, t, options)
             row == [row |-> "blocker", task |-> t, option |-> None]
             tr == With(BlockersFile(s.id), row)
  <1>0. BlockersFile(s.id) \in TrailFile /\ t \in Story /\ s.blockers \in Seq(Blocker)
    BY SprintHas
  <1>1. new.id = s.id /\ new.entry = s.entry /\ new.stage = s.stage /\ new.gates = s.gates
    BY DEF WithBlocker, Sprint
  <1>2. /\ DOMAIN new.tasks = DOMAIN s.tasks
        /\ \A u \in DOMAIN s.tasks : new.tasks[u] = IF u = t THEN "BLOCKED" ELSE s.tasks[u]
    BY <1>0, WithBlockerTasks
  <1>3. /\ DOMAIN new.blockers = DOMAIN s.blockers \cup {Len(s.blockers) + 1}
        /\ new.blockers[Len(s.blockers) + 1].task = t
        /\ \A i \in DOMAIN s.blockers : new.blockers[i] = s.blockers[i]
    BY <1>0, WithBlockerBlockers
  <1>4. row \in Row /\ row.row = "blocker" /\ row.task = t
    BY <1>0 DEF Row, BlockerRow
  <1>5. Audited(s, tr)
    BY <1>0, <1>4, AuditedGrows
  <1> HIDE DEF new, row
  <1>6. ASSUME NEW u \in Story
        PROVE  Cardinality(BlockersOf(new, u)) <= Cardinality(BlockerLines(tr[BlockersFile(s.id)], u))
    <2>0. /\ IsFiniteSet(BlockersOf(s, u)) /\ Cardinality(BlockersOf(s, u)) \in Nat
          /\ Cardinality(BlockersOf(s, u)) <= Cardinality(BlockerLines(trails[BlockersFile(s.id)], u))
      BY SprintHas DEF Audited, BlockersRecorded
    <2>1. CASE u = t
      <3>1. BlockersOf(new, u) = BlockersOf(s, u) \cup {Len(s.blockers) + 1}
        BY <1>3, <2>1 DEF BlockersOf
      <3>2. Cardinality(BlockersOf(new, u)) <= Cardinality(BlockersOf(s, u)) + 1
            /\ Cardinality(BlockersOf(new, u)) \in Nat
        <4> DEFINE old == BlockersOf(s, u)
        <4>1. /\ IsFiniteSet(old \cup {Len(s.blockers) + 1})
              /\ Cardinality(old \cup {Len(s.blockers) + 1}) \in {Cardinality(old), Cardinality(old) + 1}
          BY <2>0, FS_AddElement
        <4> QED BY <2>0, <3>1, <4>1
      <3>3. /\ Cardinality(BlockerLines(tr[BlockersFile(s.id)], u)) =
                   Cardinality(BlockerLines(trails[BlockersFile(s.id)], u)) + 1
            /\ Cardinality(BlockerLines(trails[BlockersFile(s.id)], u)) \in Nat
        BY <1>0, <1>4, <2>1, BlockerLinesGrow
      <3> QED BY <2>0, <3>2, <3>3
    <2>2. CASE u # t
      <3>1. BlockersOf(new, u) = BlockersOf(s, u)
        BY <1>3, <2>2 DEF BlockersOf
      <3> QED BY <1>5, <3>1 DEF Audited, BlockersRecorded
    <2> QED BY <2>1, <2>2
  <1> HIDE DEF tr
  <1>7. BlockersRecorded(new, tr)
    BY <1>1, <1>6 DEF BlockersRecorded
  <1>8. TasksRecorded(new, tr)
    BY <1>1, <1>2, <1>5 DEF Audited, TasksRecorded
  <1>9. Audited(new, tr)
    BY <1>1, <1>5, <1>7, <1>8 DEF Audited, GateRecorded, CrossingsRuled
  <1> QED BY <1>9 DEF new, row, tr

\* The trail invariant is kept: by a verb, by what it writes, and by a crash.
LEMMA VerbTrails ==
    ASSUME IInv, Current, TrailInv, OneAtATime', NEW p \in Proc, Verb(p)
    PROVE  TrailInv'
  <1>0. /\ state # None => state \in Sprint /\ Audited(state, trails)
        /\ pc \in [Proc -> Place] /\ buf \in [Proc -> Sprint \cup {None}]
        /\ out \in [Proc -> Job \cup {None}] /\ trails \in [TrailFile -> Seq(Line)]
    BY DEF IInv, TypeOK, Place, TrailInv
  <1>1. /\ UNCHANGED <<state, trails>> /\ pc[p] = "idle"
        /\ \E at \in Place \ {"idle"} : pc' = [pc EXCEPT ![p] = at]
    BY DEF Verb, record_artifact, record_gate, record_blocker, record_decision, load_tasks,
           record_task_status, advance_stage, init_sprint, Loads, WillAppend, WillDump, Place
  <1>2. ASSUME NEW q \in Proc, q # p PROVE pc'[q] = "idle"
    <2>1. pc'[p] # "idle"
      BY <1>0, <1>1 DEF Place
    <2> QED BY <1>2, <2>1 DEF OneAtATime
  <1>3. ASSUME /\ pc'[p] = "append" /\ buf'[p] # None =>
                      Audited(buf'[p], With(out'[p].to, out'[p].row))
               /\ pc'[p] = "dump" => Audited(buf'[p], trails)
        PROVE  TrailInv'
    BY <1>1, <1>2, <1>3 DEF TrailInv, With
  <1>4. ASSUME NEW new, Audited(new, trails), WillDump(p, new) PROVE TrailInv'
    <2>1. pc'[p] = "dump" /\ buf'[p] = new
      BY <1>0, <1>4 DEF WillDump
    <2> QED BY <1>3, <1>4, <2>1
  <1>5. ASSUME NEW file, NEW row, NEW new, new # None => Audited(new, With(file, row)),
               WillAppend(p, file, row, new)
        PROVE  TrailInv'
    <2>1. pc'[p] = "append" /\ buf'[p] = new /\ out'[p].to = file /\ out'[p].row = row
      BY <1>0, <1>5 DEF WillAppend
    <2> QED BY <1>3, <1>5, <2>1
  <1>6. ASSUME NEW name \in ARTIFACT_KEYS, NEW path \in Path, record_artifact(p, name, path)
        PROVE  TrailInv'
    BY <1>0, <1>4, <1>6, ArtifactAudited DEF record_artifact, Loads
  <1>7. ASSUME NEW gate \in GATE_KEYS, NEW decision \in Decisions, record_gate(p, gate, decision)
        PROVE  TrailInv'
    <2>1. Audited(WithGate(state, gate, decision), With(GatesFile, [gate |-> gate, decision |-> decision]))
      BY <1>0, <1>7, GateAudited, InputAssumption DEF record_gate, Loads
    <2> QED BY <1>5, <1>7, <2>1 DEF record_gate
  <1>8. ASSUME NEW task \in Story, NEW options \in SUBSET Option, record_blocker(p, task, options)
        PROVE  TrailInv'
    <2>1. Audited(WithBlocker(state, task, options),
                  With(BlockersFile(state.id), [row |-> "blocker", task |-> task, option |-> None]))
      BY <1>0, <1>8, BlockerAudited DEF record_blocker, Loads
    <2> QED BY <1>5, <1>8, <2>1 DEF record_blocker
  <1>9. ASSUME NEW task \in Story, NEW option \in Option, record_decision(p, task, option)
        PROVE  TrailInv'
    BY <1>5, <1>9 DEF record_decision
  <1>10. ASSUME NEW doc \in Path, NEW stories \in SUBSET Story, load_tasks(p, doc, stories)
         PROVE  TrailInv'
    BY <1>0, <1>4, <1>10, TasksAudited DEF load_tasks, Loads
  <1>11. ASSUME NEW task \in Story, NEW status \in Reports, record_task_status(p, task, status)
         PROVE  TrailInv'
    <2>1. Audited(WithStatus(state, task, status),
                  With(TasksFile(state.id), [task |-> task, status |-> status]))
      BY <1>0, <1>11, StatusAudited, InputAssumption DEF record_task_status, Loads
    <2> QED BY <1>5, <1>11, <2>1 DEF record_task_status
  <1>12. ASSUME NEW to \in Stage, advance_stage(p, to) PROVE TrailInv'
    BY <1>0, <1>4, <1>12, StageAudited DEF advance_stage, Loads
  <1>13. ASSUME NEW id \in SprintId, NEW entry \in ENTRY_STAGES, NEW flags \in InitFlags,
                init_sprint(p, id, entry, flags.backlog, flags.continues)
         PROVE  TrailInv'
    <2>1. Current'
      BY VerbCurrent
    <2>2. state = None \/ pc'[p] = "archive_state"
      BY <1>0, <1>13 DEF init_sprint
    <2>3. pc'[p] \in {"dump", "archive_state"}
      BY <1>0, <1>13 DEF init_sprint
    <2>4. pc'[p] = "dump" => Opening(buf'[p])
      BY <1>1, <2>1, <2>2 DEF Current, Held, Opening
    <2> QED BY <1>0, <1>3, <2>3, <2>4, NewAudited
  <1> QED BY <1>6, <1>7, <1>8, <1>9, <1>10, <1>11, <1>12, <1>13 DEF Verb

\* After a whole line a row gets a line of its own.
LEMMA AppendsWhole ==
    ASSUME IInv, TrailInv, NEW p \in Proc, append_jsonl(p)
    PROVE  trails' = With(out[p].to, out[p].row)
  <1> DEFINE file == out[p].to
             row == out[p].row
  <1>1. file \in TrailFile /\ trails[file] \in Seq(Line)
    BY DEF append_jsonl, IInv, TypeOK, Job
  <1>2. ASSUME trails[file] # <<>> PROVE Last(trails[file]).ended
    <2>1. Len(trails[file]) \in DOMAIN trails[file]
      BY <1>1, <1>2
    <2> QED BY <1>1, <2>1 DEF Last, TrailInv
  <1>3. Written(trails[file], [row |-> row, ended |-> TRUE]) = Longer(trails[file], row)
    BY <1>2 DEF Written, Longer
  <1>4. trails' = [trails EXCEPT ![file] = Written(trails[file], [row |-> row, ended |-> TRUE])]
    BY DEF append_jsonl, AppendTo
  <1> QED BY <1>3, <1>4 DEF With

LEMMA RestTrails ==
    ASSUME IInv, OneAtATime, NEW p \in Proc, pc[p] # "idle",
           NEW at \in Place, pc' = [pc EXCEPT ![p] = at], at \in {"dump", "append"} => at = "dump" /\ Audited(buf'[p], trails'),
           \A f \in TrailFile : \A i \in DOMAIN trails'[f] : trails'[f][i].ended,
           state' # None => Audited(state', trails')
    PROVE  TrailInv'
  <1>1. pc \in [Proc -> Place]
    BY DEF IInv, TypeOK, Place
  <1>2. ASSUME NEW q \in Proc, q # p PROVE pc'[q] = "idle"
    BY <1>1, <1>2, Alone
  <1>3. pc'[p] = at
    BY <1>1
  <1> QED BY <1>2, <1>3 DEF TrailInv

LEMMA WriteTrails ==
    ASSUME IInv, Current, TrailInv, OneAtATime, NEW p \in Proc, Write(p)
    PROVE  TrailInv'
  <1>0. /\ state # None => state \in Sprint /\ Audited(state, trails)
        /\ \A f \in TrailFile : \A i \in DOMAIN trails[f] : trails[f][i].ended
        /\ trails \in [TrailFile -> Seq(Line)] /\ GatesFile \in TrailFile /\ Held(p)
    BY DEF IInv, TypeOK, TrailInv, TrailFile, Current
  <1>1. CASE append_jsonl(p)
    <2>1. /\ pc[p] = "append" /\ out[p] \in Job /\ state \in Sprint /\ state # None /\ state' = state
          /\ out[p].to \in TrailFile /\ out[p].row \in Row
      BY <1>0, <1>1 DEF append_jsonl, IInv, TypeOK, Job, Held
    <2> DEFINE file == out[p].to
               row == out[p].row
    <2>2. trails' = With(file, row)
      BY <1>1, AppendsWhole
    <2> HIDE DEF file, row
    <2>3. file \in TrailFile /\ row \in Row
      BY <2>1 DEF file, row
    <2>4. Audited(state', trails')
      <3>1. Audited(state, With(file, row))
        BY <1>0, <2>1, <2>3, AuditedGrows
      <3> QED BY <2>1, <2>2, <3>1
    <2>5. \A f \in TrailFile : \A i \in DOMAIN trails'[f] : trails'[f][i].ended
      <3>1. ASSUME NEW i \in DOMAIN trails'[file] PROVE trails'[file][i].ended
        <4>1. trails[file] \in Seq(Line) /\ trails'[file] = Longer(trails[file], row)
          BY <2>2, <2>3, WithLog
        <4>2. /\ DOMAIN Longer(trails[file], row) = DOMAIN trails[file] \cup {Len(trails[file]) + 1}
              /\ \A k \in DOMAIN trails[file] : Longer(trails[file], row)[k] = trails[file][k]
              /\ Longer(trails[file], row)[Len(trails[file]) + 1].ended
          BY <2>3, <4>1, AppendedLog
        <4> QED BY <1>0, <2>3, <3>1, <4>1, <4>2
      <3>2. ASSUME NEW f \in TrailFile, f # file PROVE trails'[f] = trails[f]
        BY <2>2, <2>3, <3>2, WithLog
      <3> QED BY <1>0, <3>1, <3>2
    <2>6. CASE buf[p] = None
      <3>1. pc' = [pc EXCEPT ![p] = "idle"]
        BY <1>1, <2>6 DEF append_jsonl, Finished
      <3> QED BY <2>1, <2>4, <2>5, <3>1, RestTrails DEF Place
    <2>7. CASE buf[p] # None
      <3>1. pc' = [pc EXCEPT ![p] = "dump"] /\ buf' = buf
        BY <1>1, <2>7 DEF append_jsonl
      <3>2. Audited(buf'[p], trails')
        BY <2>1, <2>2, <2>7, <3>1 DEF TrailInv, file, row
      <3> QED BY <2>1, <2>4, <2>5, <3>1, <3>2, RestTrails DEF Place
    <2> QED BY <2>6, <2>7
  <1>2. CASE dump_state(p)
    <2>1. /\ pc[p] = "dump" /\ state' = buf[p] /\ trails' = trails /\ pc' = [pc EXCEPT ![p] = "idle"]
      BY <1>2 DEF dump_state, Finished
    <2>2. Audited(state', trails')
      BY <2>1 DEF TrailInv
    <2> QED BY <1>0, <2>1, <2>2, RestTrails DEF Place
  <1>3. CASE archive_state(p)
    <2>1. /\ pc[p] = "archive_state" /\ state' = None /\ trails' = trails
          /\ pc' = [pc EXCEPT ![p] = "archive_gates"]
      BY <1>3 DEF archive_state
    <2> QED BY <1>0, <2>1, RestTrails DEF Place
  <1>4. CASE archive_gates(p)
    <2>1. /\ pc[p] = "archive_gates" /\ state' = None /\ trails' = [trails EXCEPT ![GatesFile] = <<>>]
          /\ pc' = [pc EXCEPT ![p] = "dump"] /\ buf' = buf /\ Opening(buf[p])
      BY <1>0, <1>4 DEF archive_gates, Held
    <2>2. trails' \in [TrailFile -> Seq(Line)]
      BY WriteKeeps DEF IInv, TypeOK
    <2>3. Opening(buf'[p])
      BY <2>1
    <2>4. Audited(buf'[p], trails')
      BY <2>2, <2>3, NewAudited
    <2>5. \A f \in TrailFile : \A i \in DOMAIN trails'[f] : trails'[f][i].ended
      <3>1. DOMAIN trails'[GatesFile] = {}
        BY <1>0, <2>1
      <3>2. \A f \in TrailFile : f # GatesFile => trails'[f] = trails[f]
        BY <1>0, <2>1
      <3> QED BY <1>0, <3>1, <3>2
    <2> QED BY <2>1, <2>4, <2>5, RestTrails DEF Place
  <1> QED BY <1>1, <1>2, <1>3, <1>4 DEF Write

LEMMA TrailKept ==
    ASSUME TornAppends = FALSE
    PROVE  IInv /\ Current /\ TrailInv /\ OneAtATime /\ OneAtATime' /\ [Next]_vars => TrailInv'
  <1> SUFFICES ASSUME IInv, Current, TrailInv, OneAtATime, OneAtATime', [Next]_vars PROVE TrailInv'
    OBVIOUS
  <1>1. ASSUME NEW p \in Proc, Verb(p) PROVE TrailInv'
    BY <1>1, VerbTrails
  <1>2. ASSUME NEW p \in Proc, Write(p) PROVE TrailInv'
    BY <1>2, WriteTrails
  <1>3. ASSUME NEW p \in Proc, Crash(p) PROVE TrailInv'
    <2>1. /\ pc[p] # "idle" /\ pc' = [pc EXCEPT ![p] = "idle"] /\ UNCHANGED <<state, trails>>
      BY <1>3 DEF Crash, Finished
    <2> QED BY <2>1, RestTrails DEF TrailInv, Place
  <1>4. ASSUME NEW p \in Proc PROVE ~TornCrash(p)
    BY DEF TornCrash
  <1>5. CASE TouchFiles \/ UNCHANGED vars
    BY <1>5 DEF TouchFiles, vars, locals, TrailInv, With
  <1> QED BY <1>1, <1>2, <1>3, <1>4, <1>5 DEF Next

LEMMA InitTrails == Init => TrailInv
  BY DEF Init, TrailInv

THEOREM TrailInvariance ==
    ASSUME TornAppends = FALSE
    PROVE  Spec /\ []OneAtATime => []TrailInv
  <1>1. IInv /\ Current /\ TrailInv /\ OneAtATime /\ OneAtATime' /\ [Next]_vars => TrailInv'
    BY TrailKept
  <1> QED BY <1>1, InitTrails, CurrentInvariance, PTL DEF Spec

\* While invocations do not overlap and appends are whole, a crash leaves the trails ahead
\* of state.json and never behind: for every verb, any archive and any reuse of an id.
THEOREM TrailLeads ==
    ASSUME TornAppends = FALSE
    PROVE  Spec /\ []OneAtATime => []TrailNeverBehind
  <1>1. TrailInv => TrailNeverBehind
    BY DEF TrailInv, TrailNeverBehind, Audited, TasksRecorded, BlockersRecorded, BlockerLines
  <1> QED BY <1>1, TrailInvariance, PTL

\* Under the same conditions a sprint past a gate has its approval on the trail, whatever
\* was decided on the gate since and wherever an invocation died.
THEOREM CrossesOnApproval ==
    ASSUME TornAppends = FALSE
    PROVE  Spec /\ []OneAtATime => []CrossingsAreRuled
  <1>1. TrailInv => CrossingsAreRuled
    BY DEF TrailInv, CrossingsAreRuled, Audited, CrossingsRuled
  <1> QED BY <1>1, TrailInvariance, PTL

----------------------------------------------------------------------------
(* The answers on the trail of a sprint, where no id is used twice. The trail *)
(* of an id outlives its sprint, so it must be empty of answers until the id  *)
(* is taken.                                                                  *)

\* No archived sprint had the id of the one at work.
IdsUsedOnce == state # None => \A n \in DOMAIN archives : archives[n].state.id # state.id

Answers(log) == {i \in Readable(log) : log[i].row.row = "decision"}

Offered(s, tr) ==
    LET log == tr[BlockersFile(s.id)] IN
    /\ \A i, j \in Answers(log) : log[i].row.task = log[j].row.task => i = j
    /\ \A i \in Answers(log) : LET t == log[i].row.task IN
          /\ BlockersOf(s, t) # {}
          /\ log[i].row.option \in FirstBlocker(s, t).options

Taken(id) == \/ state # None /\ state.id = id
             \/ \E n \in DOMAIN archives : archives[n].state.id = id

AnswerInv ==
    /\ state # None => Offered(state, trails)
    /\ \A id \in SprintId : Answers(trails[BlockersFile(id)]) # {} => Taken(id)
    /\ \A p \in Proc :
          /\ pc[p] = "append" => /\ Offered(state, With(out[p].to, out[p].row))
                                 /\ buf[p] # None => Offered(buf[p], With(out[p].to, out[p].row))
          /\ pc[p] = "dump" /\ state # None => Offered(buf[p], trails)

LEMMA FirstOfSome ==
    ASSUME NEW S \in SUBSET Nat, S # {}
    PROVE  \E x \in S : \A y \in S : x <= y
  <1> DEFINE R == {pair \in Nat \X Nat : pair[1] < pair[2]}
  <1>1. R = OpToRel(<, Nat)
    BY Zenon DEF OpToRel
  <1>2. IsWellFoundedOn(R, Nat)
    BY <1>1, NatLessThanWellFounded
  <1>3. PICK x \in S : \A y \in S : <<y, x>> \notin R
    BY <1>2, WFMin
  <1>4. ASSUME NEW y \in S PROVE x <= y
    <2>1. x \in Nat /\ y \in Nat /\ ~(<<y, x>> \in R)
      BY <1>3
    <2>2. y < x => <<y, x>> \in R
      BY <2>1
    <2> QED BY <2>1, <2>2
  <1> QED BY <1>4

\* A second blocker of a task is not its first.
LEMMA FirstStays ==
    ASSUME NEW s \in Sprint, NEW t \in DOMAIN s.tasks, NEW options \in SUBSET Option,
           NEW u, BlockersOf(s, u) # {}
    PROVE  /\ BlockersOf(WithBlocker(s, t, options), u) # {}
           /\ FirstBlocker(WithBlocker(s, t, options), u) = FirstBlocker(s, u)
  <1> DEFINE new == WithBlocker(s, t, options)
             old == BlockersOf(s, u)
             now == BlockersOf(new, u)
  <1>0. s.blockers \in Seq(Blocker) /\ t \in Story
    BY SprintHas
  <1>1. /\ DOMAIN new.blockers = DOMAIN s.blockers \cup {Len(s.blockers) + 1}
        /\ \A i \in DOMAIN s.blockers : new.blockers[i] = s.blockers[i]
    BY <1>0, WithBlockerBlockers
  <1> HIDE DEF new
  <1>2. /\ DOMAIN s.blockers = 1..Len(s.blockers) /\ Len(s.blockers) \in Nat
        /\ old \subseteq now /\ now \subseteq old \cup {Len(s.blockers) + 1}
    BY <1>0, <1>1 DEF BlockersOf
  <1>3. old \in SUBSET Nat /\ \A i \in old : i \in DOMAIN s.blockers /\ i < Len(s.blockers) + 1
    BY <1>2 DEF BlockersOf
  <1> HIDE DEF old, now
  <1>4. PICK x \in old : \A y \in old : x <= y
    BY <1>3, FirstOfSome DEF old
  <1>5. \A y \in now : x <= y
    BY <1>2, <1>3, <1>4
  <1>6. \A i \in old : (\A j \in old : i <= j) => i = x
    BY <1>3, <1>4
  <1>7. \A i \in now : (\A j \in now : i <= j) => i = x
    <2> SUFFICES ASSUME NEW i \in now, \A j \in now : i <= j PROVE i = x
      OBVIOUS
    <2>1. i <= x /\ x <= i
      BY <1>2, <1>4, <1>5
    <2> QED BY <1>2, <1>3, <2>1
  <1>8. (CHOOSE i \in old : \A j \in old : i <= j) = x
    BY <1>4, <1>6
  <1>9. (CHOOSE i \in now : \A j \in now : i <= j) = x
    BY <1>2, <1>4, <1>5, <1>7
  <1>10. new.blockers[x] = s.blockers[x]
    BY <1>1, <1>3, <1>4
  <1> QED BY <1>2, <1>4, <1>8, <1>9, <1>10 DEF FirstBlocker, old, now, new

LEMMA FollowsId ==
    ASSUME NEW s \in Sprint, NEW new, Follows(s, new)
    PROVE  new.id = s.id
  BY DEF Follows, WithArtifact, WithGate, WithBlocker, WithTasks, WithStatus, WithStage, Sprint

LEMMA OfferedLike ==
    ASSUME NEW s, NEW tr, Offered(s, tr), NEW new, NEW more,
           new.id = s.id, new.blockers = s.blockers, more[BlockersFile(s.id)] = tr[BlockersFile(s.id)]
    PROVE  Offered(new, more)
  <1>1. \A t : BlockersOf(new, t) = BlockersOf(s, t)
    BY DEF BlockersOf
  <1>2. ASSUME NEW t PROVE FirstBlocker(new, t) = FirstBlocker(s, t)
    <2> DEFINE first(S) == CHOOSE i \in S : \A j \in S : i <= j
    <2> HIDE DEF first
    <2>1. first(BlockersOf(new, t)) = first(BlockersOf(s, t))
      BY <1>1
    <2> QED BY <2>1 DEF FirstBlocker, first
  <1> QED BY <1>1, <1>2 DEF Offered

LEMMA OfferedBlocker ==
    ASSUME NEW s \in Sprint, NEW tr, Offered(s, tr), NEW t \in DOMAIN s.tasks,
           NEW options \in SUBSET Option
    PROVE  Offered(WithBlocker(s, t, options), tr)
  <1>1. WithBlocker(s, t, options).id = s.id
    BY DEF WithBlocker, Sprint
  <1> QED BY <1>1, FirstStays DEF Offered

\* A row that is no answer of the sprint changes none.
LEMMA OfferedGrows ==
    ASSUME IInv, NEW s \in Sprint, Offered(s, trails), NEW file \in TrailFile, NEW row \in Row,
           file = BlockersFile(s.id) => row.row # "decision"
    PROVE  Offered(s, With(file, row))
  <1>1. CASE file # BlockersFile(s.id)
    <2>1. With(file, row)[BlockersFile(s.id)] = trails[BlockersFile(s.id)]
      BY <1>1, WithLog, SprintHas
    <2> QED BY <2>1, OfferedLike
  <1>2. CASE file = BlockersFile(s.id)
    <2> DEFINE log == trails[file]
    <2>1. log \in Seq(Line) /\ With(file, row)[file] = Longer(log, row)
      BY WithLog
    <2> HIDE DEF log
    <2>2. /\ Readable(Longer(log, row)) = Readable(log) \cup {Len(log) + 1}
          /\ \A i \in Readable(log) : Longer(log, row)[i] = log[i]
          /\ Longer(log, row)[Len(log) + 1].row = row
      BY <2>1, AppendedLog
    <2>3. Answers(Longer(log, row)) = Answers(log) /\ Answers(log) \subseteq Readable(log)
      BY <1>2, <2>2 DEF Answers
    <2>4. \A i \in Answers(log) : Longer(log, row)[i] = log[i]
      BY <2>2, <2>3
    <2> QED BY <1>2, <2>1, <2>3, <2>4 DEF Offered, log
  <1> QED BY <1>1, <1>2

\* The first answer of a task, to a choice its first blocker offers.
LEMMA OfferedAnswer ==
    ASSUME IInv, NEW s \in Sprint, Offered(s, trails), NEW t \in Story, NEW option \in Option,
           BlockersOf(s, t) # {}, option \in FirstBlocker(s, t).options, DecisionRowsOf(s.id, t) = {}
    PROVE  Offered(s, With(BlockersFile(s.id), [row |-> "decision", task |-> t, option |-> option]))
  <1> DEFINE row == [row |-> "decision", task |-> t, option |-> option]
             log == trails[BlockersFile(s.id)]
  <1>1. BlockersFile(s.id) \in TrailFile /\ row \in Row
    BY SprintHas DEF Row, BlockerRow
  <1>2. row.row = "decision" /\ row.task = t /\ row.option = option
    OBVIOUS
  <1> HIDE DEF row
  <1>3. log \in Seq(Line) /\ With(BlockersFile(s.id), row)[BlockersFile(s.id)] = Longer(log, row)
    BY <1>1, WithLog
  <1>4. \A i \in Answers(log) : log[i].row.task # t
    <2>1. ASSUME NEW i \in Answers(log), log[i].row.task = t PROVE FALSE
      <3>1. i \in Readable(log) /\ log[i].row.row = "decision"
        BY DEF Answers
      <3>2. log[i].row \in RowsIn(log)
        BY <3>1 DEF RowsIn
      <3> QED BY <2>1, <3>1, <3>2 DEF DecisionRowsOf
    <2> QED BY <2>1
  <1>5. \A i, j \in Answers(log) : log[i].row.task = log[j].row.task => i = j
    BY DEF Offered
  <1>6. \A i \in Answers(log) : /\ BlockersOf(s, log[i].row.task) # {}
                                /\ log[i].row.option \in FirstBlocker(s, log[i].row.task).options
    BY DEF Offered
  <1> HIDE DEF log
  <1>7. /\ Readable(Longer(log, row)) = Readable(log) \cup {Len(log) + 1}
        /\ \A i \in Readable(log) : Longer(log, row)[i] = log[i]
        /\ Longer(log, row)[Len(log) + 1].row = row
    BY <1>1, <1>3, AppendedLog
  <1>8. Answers(Longer(log, row)) = Answers(log) \cup {Len(log) + 1}
    BY <1>2, <1>7 DEF Answers
  <1>9. \A i \in Answers(log) : Longer(log, row)[i] = log[i]
    BY <1>7 DEF Answers
  <1>10. \A i, j \in Answers(Longer(log, row)) :
            Longer(log, row)[i].row.task = Longer(log, row)[j].row.task => i = j
    BY <1>2, <1>4, <1>5, <1>7, <1>8, <1>9
  <1>11. \A i \in Answers(Longer(log, row)) :
            /\ BlockersOf(s, Longer(log, row)[i].row.task) # {}
            /\ Longer(log, row)[i].row.option \in FirstBlocker(s, Longer(log, row)[i].row.task).options
    BY <1>2, <1>6, <1>7, <1>8, <1>9
  <1>12. Offered(s, With(BlockersFile(s.id), row))
    BY <1>3, <1>10, <1>11 DEF Offered
  <1> QED BY <1>12 DEF row

LEMMA VerbAnswers ==
    ASSUME IInv, AnswerInv, OneAtATime', NEW p \in Proc, Verb(p)
    PROVE  AnswerInv'
  <1>0. /\ state # None => state \in Sprint /\ Offered(state, trails)
        /\ pc \in [Proc -> Place] /\ buf \in [Proc -> Sprint \cup {None}]
        /\ out \in [Proc -> Job \cup {None}]
    BY DEF IInv, TypeOK, Place, AnswerInv
  <1>1. /\ UNCHANGED <<state, trails, archives>> /\ pc[p] = "idle"
        /\ \E at \in Place \ {"idle"} : pc' = [pc EXCEPT ![p] = at]
    BY DEF Verb, record_artifact, record_gate, record_blocker, record_decision, load_tasks,
           record_task_status, advance_stage, init_sprint, Loads, WillAppend, WillDump, Place
  <1>2. ASSUME NEW q \in Proc, q # p PROVE pc'[q] = "idle"
    <2>1. pc'[p] # "idle"
      BY <1>0, <1>1 DEF Place
    <2> QED BY <1>2, <2>1 DEF OneAtATime
  <1>3. ASSUME /\ pc'[p] = "append" =>
                     /\ Offered(state, With(out'[p].to, out'[p].row))
                     /\ buf'[p] # None => Offered(buf'[p], With(out'[p].to, out'[p].row))
               /\ pc'[p] = "dump" /\ state # None => Offered(buf'[p], trails)
        PROVE  AnswerInv'
    BY <1>1, <1>2, <1>3 DEF AnswerInv, Taken, With
  <1>4. ASSUME NEW new, Offered(new, trails), WillDump(p, new) PROVE AnswerInv'
    <2>1. pc'[p] = "dump" /\ buf'[p] = new
      BY <1>0, <1>4 DEF WillDump
    <2> QED BY <1>3, <1>4, <2>1
  <1>5. ASSUME NEW file, NEW row, NEW new, Offered(state, With(file, row)),
               new # None => Offered(new, With(file, row)), WillAppend(p, file, row, new)
        PROVE  AnswerInv'
    <2>1. pc'[p] = "append" /\ buf'[p] = new /\ out'[p].to = file /\ out'[p].row = row
      BY <1>0, <1>5 DEF WillAppend
    <2> QED BY <1>3, <1>5, <2>1
  <1>6. ASSUME NEW name \in ARTIFACT_KEYS, NEW path \in Path, record_artifact(p, name, path)
        PROVE  AnswerInv'
    <2>1. WithArtifact(state, name, path).id = state.id /\ WithArtifact(state, name, path).blockers = state.blockers
      BY <1>0, <1>6 DEF record_artifact, Loads, WithArtifact, Sprint
    <2> QED BY <1>0, <1>4, <1>6, <2>1, OfferedLike DEF record_artifact, Loads
  <1>7. ASSUME NEW gate \in GATE_KEYS, NEW decision \in Decisions, record_gate(p, gate, decision)
        PROVE  AnswerInv'
    <2> DEFINE new == WithGate(state, gate, decision)
               row == [gate |-> gate, decision |-> decision]
    <2>1. new.id = state.id /\ new.blockers = state.blockers /\ state \in Sprint /\ state # None
      BY <1>0, <1>7 DEF record_gate, Loads, WithGate, Sprint
    <2>2. row \in Row
      BY InputAssumption DEF Row, GateRow
    <2>3. WillAppend(p, GatesFile, row, new)
      BY <1>7 DEF record_gate
    <2> HIDE DEF new, row
    <2>4. Offered(state, With(GatesFile, row))
      BY <1>0, <2>1, <2>2, OfferedGrows, SprintHas
    <2>5. Offered(new, With(GatesFile, row))
      BY <2>1, <2>4, OfferedLike
    <2> QED BY <1>5, <2>3, <2>4, <2>5
  <1>8. ASSUME NEW task \in Story, NEW options \in SUBSET Option, record_blocker(p, task, options)
        PROVE  AnswerInv'
    <2> DEFINE new == WithBlocker(state, task, options)
               row == [row |-> "blocker", task |-> task, option |-> None]
    <2>1. state \in Sprint /\ state # None /\ task \in DOMAIN state.tasks
      BY <1>0, <1>8 DEF record_blocker, Loads
    <2>2. row \in Row /\ row.row # "decision"
      BY DEF Row, BlockerRow
    <2>3. WillAppend(p, BlockersFile(state.id), row, new)
      BY <1>8 DEF record_blocker
    <2> HIDE DEF row
    <2>4. Offered(state, With(BlockersFile(state.id), row))
      BY <1>0, <2>1, <2>2, OfferedGrows, SprintHas
    <2>5. Offered(new, With(BlockersFile(state.id), row))
      BY <2>1, <2>4, OfferedBlocker
    <2> QED BY <1>5, <2>3, <2>4, <2>5
  <1>9. ASSUME NEW task \in Story, NEW option \in Option, record_decision(p, task, option)
        PROVE  AnswerInv'
    <2> DEFINE row == [row |-> "decision", task |-> task, option |-> option]
    <2>1. Offered(state, With(BlockersFile(state.id), row))
      BY <1>0, <1>9, OfferedAnswer DEF record_decision, Loads
    <2>2. WillAppend(p, BlockersFile(state.id), row, None)
      BY <1>9 DEF record_decision
    <2> HIDE DEF row
    <2> QED BY <1>5, <2>1, <2>2
  <1>10. ASSUME NEW doc \in Path, NEW stories \in SUBSET Story, load_tasks(p, doc, stories)
         PROVE  AnswerInv'
    <2>1. WithTasks(state, stories).id = state.id /\ WithTasks(state, stories).blockers = state.blockers
      BY <1>0, <1>10 DEF load_tasks, Loads, WithTasks, Sprint
    <2> QED BY <1>0, <1>4, <1>10, <2>1, OfferedLike DEF load_tasks, Loads
  <1>11. ASSUME NEW task \in Story, NEW status \in Reports, record_task_status(p, task, status)
         PROVE  AnswerInv'
    <2> DEFINE new == WithStatus(state, task, status)
               row == [task |-> task, status |-> status]
    <2>1. new.id = state.id /\ new.blockers = state.blockers /\ state \in Sprint /\ state # None
      BY <1>0, <1>11 DEF record_task_status, Loads, WithStatus, Sprint
    <2>2. row \in Row
      BY InputAssumption DEF Row, TaskRow, TERMINAL_STATUSES, TaskStatus
    <2>3. WillAppend(p, TasksFile(state.id), row, new)
      BY <1>11 DEF record_task_status
    <2> HIDE DEF new, row
    <2>4. Offered(state, With(TasksFile(state.id), row))
      BY <1>0, <2>1, <2>2, OfferedGrows, SprintHas
    <2>5. Offered(new, With(TasksFile(state.id), row))
      BY <2>1, <2>4, OfferedLike
    <2> QED BY <1>5, <2>3, <2>4, <2>5
  <1>12. ASSUME NEW to \in Stage, advance_stage(p, to) PROVE AnswerInv'
    <2>1. WithStage(state, to).id = state.id /\ WithStage(state, to).blockers = state.blockers
      BY <1>0, <1>12 DEF advance_stage, Loads, WithStage, Sprint
    <2> QED BY <1>0, <1>4, <1>12, <2>1, OfferedLike DEF advance_stage, Loads
  <1>13. ASSUME NEW id \in SprintId, NEW entry \in ENTRY_STAGES, NEW flags \in InitFlags,
                init_sprint(p, id, entry, flags.backlog, flags.continues)
         PROVE  AnswerInv'
    <2>1. pc'[p] \in {"dump", "archive_state"} /\ (state = None \/ pc'[p] = "archive_state")
      BY <1>0, <1>13 DEF init_sprint
    <2> QED BY <1>3, <2>1
  <1> QED BY <1>6, <1>7, <1>8, <1>9, <1>10, <1>11, <1>12, <1>13 DEF Verb

LEMMA RestAnswers ==
    ASSUME IInv, OneAtATime, NEW p \in Proc, pc[p] # "idle",
           NEW at \in Place \ {"append"}, pc' = [pc EXCEPT ![p] = at],
           at = "dump" /\ state' # None => Offered(buf'[p], trails'),
           state' # None => Offered(state', trails'),
           \A id \in SprintId : Answers(trails'[BlockersFile(id)]) # {} => Taken(id)'
    PROVE  AnswerInv'
  <1>1. pc \in [Proc -> Place]
    BY DEF IInv, TypeOK, Place
  <1>2. ASSUME NEW q \in Proc, q # p PROVE pc'[q] = "idle"
    BY <1>1, <1>2, Alone
  <1>3. pc'[p] = at
    BY <1>1
  <1> QED BY <1>2, <1>3 DEF AnswerInv

\* Each write leaves the answers of an id to the sprints that had it. An opening sprint
\* finds none, because nobody had its id.
LEMMA WriteAnswers ==
    ASSUME IInv, Current, TrailInv, AnswerInv, OneAtATime, IdsUsedOnce', NEW p \in Proc, Write(p)
    PROVE  AnswerInv'
  <1>0. /\ state # None => state \in Sprint /\ Offered(state, trails)
        /\ \A id \in SprintId : Answers(trails[BlockersFile(id)]) # {} => Taken(id)
        /\ trails \in [TrailFile -> Seq(Line)] /\ GatesFile \in TrailFile /\ Held(p)
        /\ archives \in Seq(Archive)
    BY DEF IInv, TypeOK, AnswerInv, TrailFile, Current
  <1>1. CASE append_jsonl(p)
    <2>1. /\ pc[p] = "append" /\ out[p] \in Job /\ state \in Sprint /\ state # None
          /\ UNCHANGED <<state, archives>> /\ out[p].to \in TrailFile /\ out[p].row \in Row
          /\ out[p].to \in {GatesFile, TasksFile(state.id), BlockersFile(state.id)}
      BY <1>0, <1>1 DEF append_jsonl, IInv, TypeOK, Job, Held
    <2> DEFINE file == out[p].to
               row == out[p].row
    <2>2. trails' = With(file, row)
      BY <1>1, AppendsWhole
    <2>3. /\ Offered(state, With(file, row))
          /\ buf[p] # None => Offered(buf[p], With(file, row))
      BY <2>1 DEF AnswerInv
    <2> HIDE DEF file, row
    <2>4. file \in TrailFile /\ row \in Row
      BY <2>1 DEF file, row
    <2>5. ASSUME NEW id \in SprintId, Answers(trails'[BlockersFile(id)]) # {} PROVE Taken(id)'
      <3>1. CASE id = state.id
        BY <2>1, <3>1 DEF Taken
      <3>2. CASE id # state.id
        <4>1. BlockersFile(id) # file /\ BlockersFile(id) \in TrailFile
          <5>1. /\ BlockersFile(id) # GatesFile /\ BlockersFile(id) # TasksFile(state.id)
                /\ BlockersFile(id) # BlockersFile(state.id)
            BY <3>2 DEF GatesFile, TasksFile, BlockersFile
          <5>2. file \in {GatesFile, TasksFile(state.id), BlockersFile(state.id)}
            BY <2>1 DEF file
          <5> QED BY <5>1, <5>2, TrailFiles
        <4>2. trails'[BlockersFile(id)] = trails[BlockersFile(id)]
          BY <2>2, <2>4, <4>1, WithLog
        <4>3. Taken(id)
          BY <1>0, <2>5, <4>2
        <4> QED BY <2>1, <4>3 DEF Taken
      <3> QED BY <3>1, <3>2
    <2>6. state' # None => Offered(state', trails')
      BY <2>1, <2>2, <2>3
    <2>7. CASE buf[p] = None
      <3>1. pc' = [pc EXCEPT ![p] = "idle"]
        BY <1>1, <2>7 DEF append_jsonl, Finished
      <3> QED BY <2>1, <2>5, <2>6, <3>1, RestAnswers DEF Place
    <2>8. CASE buf[p] # None
      <3>1. pc' = [pc EXCEPT ![p] = "dump"] /\ buf' = buf
        BY <1>1, <2>8 DEF append_jsonl
      <3>2. Offered(buf'[p], trails')
        BY <2>2, <2>3, <2>8, <3>1
      <3> QED BY <2>1, <2>5, <2>6, <3>1, <3>2, RestAnswers DEF Place
    <2> QED BY <2>7, <2>8
  <1>2. CASE dump_state(p)
    <2>1. /\ pc[p] = "dump" /\ state' = buf[p] /\ UNCHANGED <<trails, archives>>
          /\ pc' = [pc EXCEPT ![p] = "idle"]
      BY <1>2 DEF dump_state, Finished
    <2>2. state' \in Sprint /\ state' # None
      BY <2>1 DEF IInv, TypeOK
    <2>3. CASE state = None
      <3>1. state'.id \in SprintId /\ ~Taken(state'.id)
        BY <2>1, <2>2, <2>3 DEF IdsUsedOnce, Taken, Sprint
      <3>2. Answers(trails'[BlockersFile(state'.id)]) = {}
        BY <1>0, <2>1, <3>1
      <3>3. Offered(state', trails')
        BY <3>2 DEF Offered
      <3>4. \A id \in SprintId : Answers(trails'[BlockersFile(id)]) # {} => Taken(id)'
        BY <1>0, <2>1, <2>3 DEF Taken
      <3> QED BY <2>1, <3>3, <3>4, RestAnswers DEF Place
    <2>4. CASE state # None
      <3>1. Follows(state, buf[p]) /\ Offered(buf[p], trails)
        BY <1>0, <2>1, <2>4 DEF Held, AnswerInv
      <3>2. state'.id = state.id
        BY <1>0, <2>1, <2>4, <3>1, FollowsId
      <3>3. \A id \in SprintId : Answers(trails'[BlockersFile(id)]) # {} => Taken(id)'
        BY <1>0, <2>1, <2>2, <3>2 DEF Taken
      <3>4. Offered(state', trails')
        BY <2>1, <3>1
      <3>5. pc[p] # "idle" /\ pc' = [pc EXCEPT ![p] = "idle"] /\ "idle" \in Place \ {"append"}
        BY <2>1 DEF Place
      <3> QED BY <3>3, <3>4, <3>5, RestAnswers
    <2> QED BY <2>3, <2>4
  <1>3. CASE archive_state(p)
    <2> DEFINE archive == [state |-> state, gates |-> <<>>]
    <2>1. /\ pc[p] = "archive_state" /\ state # None /\ state' = None /\ trails' = trails
          /\ pc' = [pc EXCEPT ![p] = "archive_gates"] /\ archives' = Append(archives, archive)
      BY <1>3 DEF archive_state
    <2>2. archive \in Archive /\ archive.state = state
      BY <1>0, <2>1 DEF Archive
    <2> HIDE DEF archive
    <2>3. /\ DOMAIN archives' = DOMAIN archives \cup {Len(archives) + 1}
          /\ archives'[Len(archives) + 1] = archive
          /\ \A n \in DOMAIN archives : archives'[n] = archives[n]
      BY <1>0, <2>1, <2>2
    <2>4. \A id : Taken(id) => Taken(id)'
      BY <2>2, <2>3 DEF Taken
    <2> QED BY <1>0, <2>1, <2>4, RestAnswers DEF Place
  <1>4. CASE archive_gates(p)
    <2>1. /\ pc[p] = "archive_gates" /\ state = None /\ state' = None
          /\ trails' = [trails EXCEPT ![GatesFile] = <<>>] /\ slot[p] \in DOMAIN archives
          /\ archives' = [archives EXCEPT ![slot[p]] = [@ EXCEPT !.gates = trails[GatesFile]]]
          /\ pc' = [pc EXCEPT ![p] = "dump"]
      BY <1>0, <1>4 DEF archive_gates, Held, IInv, TypeOK
    <2>2. DOMAIN archives' = DOMAIN archives /\ \A n \in DOMAIN archives : archives'[n].state = archives[n].state
      BY <1>0, <2>1 DEF Archive
    <2>3. \A id : Taken(id) => Taken(id)'
      BY <2>1, <2>2 DEF Taken
    <2>4. \A id \in SprintId : trails'[BlockersFile(id)] = trails[BlockersFile(id)]
      BY <1>0, <2>1, TrailFiles DEF GatesFile, BlockersFile
    <2> QED BY <1>0, <2>1, <2>3, <2>4, RestAnswers DEF Place
  <1> QED BY <1>1, <1>2, <1>3, <1>4 DEF Write

LEMMA AnswersKept ==
    ASSUME TornAppends = FALSE
    PROVE  IInv /\ Current /\ TrailInv /\ AnswerInv /\ OneAtATime /\ OneAtATime' /\ IdsUsedOnce'
           /\ [Next]_vars => AnswerInv'
  <1> SUFFICES ASSUME IInv, Current, TrailInv, AnswerInv, OneAtATime, OneAtATime', IdsUsedOnce', [Next]_vars
               PROVE  AnswerInv'
    OBVIOUS
  <1>1. ASSUME NEW p \in Proc, Verb(p) PROVE AnswerInv'
    BY <1>1, VerbAnswers
  <1>2. ASSUME NEW p \in Proc, Write(p) PROVE AnswerInv'
    BY <1>2, WriteAnswers
  <1>3. ASSUME NEW p \in Proc, Crash(p) PROVE AnswerInv'
    <2>1. /\ pc[p] # "idle" /\ pc' = [pc EXCEPT ![p] = "idle"]
          /\ UNCHANGED <<state, trails, archives>>
      BY <1>3 DEF Crash, Finished
    <2>2. \A id \in SprintId : Answers(trails'[BlockersFile(id)]) # {} => Taken(id)'
      BY <2>1 DEF AnswerInv, Taken
    <2>3. state' # None => Offered(state', trails')
      BY <2>1 DEF AnswerInv
    <2> QED BY <2>1, <2>2, <2>3, RestAnswers DEF Place
  <1>4. ASSUME NEW p \in Proc PROVE ~TornCrash(p)
    BY DEF TornCrash
  <1>5. CASE TouchFiles \/ UNCHANGED vars
    BY <1>5 DEF TouchFiles, vars, locals, AnswerInv, Taken, With
  <1> QED BY <1>1, <1>2, <1>3, <1>4, <1>5 DEF Next

LEMMA InitAnswers == Init => AnswerInv
  <1> SUFFICES ASSUME Init PROVE AnswerInv
    OBVIOUS
  <1>1. \A id \in SprintId : trails[BlockersFile(id)] = <<>>
    BY TrailFiles DEF Init
  <1>2. \A id \in SprintId : Answers(trails[BlockersFile(id)]) = {}
    BY <1>1 DEF Answers, Readable
  <1> QED BY <1>2 DEF Init, AnswerInv

\* While invocations do not overlap, appends are whole and no id is used twice, an answer
\* on the trail of the sprint was offered by the first blocker of its task, and is the
\* only one: an invocation that died after the append is refused when it is retried.
THEOREM AnswersWereOffered ==
    ASSUME TornAppends = FALSE
    PROVE  Spec /\ []OneAtATime /\ []IdsUsedOnce => []DecisionsWereOffered
  <1>1. IInv /\ Current /\ TrailInv /\ AnswerInv /\ OneAtATime /\ OneAtATime' /\ IdsUsedOnce'
        /\ [Next]_vars => AnswerInv'
    BY AnswersKept
  <1>2. AnswerInv => DecisionsWereOffered
    BY DEF AnswerInv, Offered, Answers, DecisionsWereOffered
  <1> QED BY <1>1, <1>2, InitAnswers, CurrentInvariance, TrailInvariance, PTL DEF Spec
=============================================================================
