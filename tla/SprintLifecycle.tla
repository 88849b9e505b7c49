-------------------------- MODULE SprintLifecycle --------------------------
(***************************************************************************)
(* What docs/state-schema.md and transitions.py promise of the sprint on   *)
(* disk, one atomic step a change and nothing of files, trails or crashes: *)
(* a sprint opens empty at its entry stage, collects evidence and rulings, *)
(* moves one stage forward when the evidence is there, never takes a task  *)
(* back, and is retired only when nobody is owed a ruling on it.           *)
(***************************************************************************)
EXTENDS SprintState

VARIABLE state

Init == state = None

\* A field of state.json, or several, change and all others stay.
OnlyChanges(fields) == \A f \in DOMAIN state : f \notin fields => state'[f] = state[f]

Open ==
    /\ state = None
    /\ state' \in {NewSprint(id, entry, backlog, continues) :
                     id \in SprintId, entry \in ENTRY_STAGES,
                     backlog \in BOOLEAN, continues \in SprintId \cup {None}}
    /\ ScopeEntryIsGrounded(state')

Retire == state # None /\ ~Live(state) /\ state' = None

Evidence == OnlyChanges({"artifacts"}) /\ \A a \in ARTIFACT_KEYS :
                state.artifacts[a] # None => state'.artifacts[a] # None

Rule == /\ OnlyChanges({"gates"})
        /\ \A g \in GATE_KEYS : state.gates[g] # None => state'.gates[g] # None

\* The task list is replaced whole, and only while nothing on it has started.
Load == /\ OnlyChanges({"tasks"})
        /\ NoneStarted(state) /\ NoneStarted(state')
        /\ TasksLoaded(state')

\* A started task stays started; the list itself does not change, and a task that
\* becomes BLOCKED does so together with a new blocker on it.
Started(s) == {t \in DOMAIN s.tasks : s.tasks[t] # "PENDING"}

Report == /\ OnlyChanges({"tasks"})
          /\ DOMAIN state'.tasks = DOMAIN state.tasks
          /\ Started(state) \subseteq Started(state')
          /\ \A t \in DOMAIN state.tasks :
                state'.tasks[t] = "BLOCKED" => state.tasks[t] = "BLOCKED"

Halt == /\ OnlyChanges({"tasks", "blockers"})
        /\ DOMAIN state'.tasks = DOMAIN state.tasks
        /\ \E t \in DOMAIN state.tasks :
              /\ state'.tasks = [state.tasks EXCEPT ![t] = "BLOCKED"]
              /\ Len(state'.blockers) = Len(state.blockers) + 1
              /\ Front(state'.blockers) = state.blockers
              /\ Last(state'.blockers).task = t

\* One stage forward, on the evidence the state holds: transitions.py. That the file
\* an artifact names is there is a fact of the moment, not of the state.
Cross == /\ OnlyChanges({"stage"})
         /\ state.stage \in DOMAIN NextStage
         /\ state'.stage = NextStage[state.stage]
         /\ MayEnter(state, state'.stage, Path)

Change == /\ state # None /\ state' # None
          /\ (Evidence \/ Rule \/ Load \/ Report \/ Halt \/ Cross)

Next == Open \/ Retire \/ Change

Spec == Init /\ [][Next]_state
=============================================================================
