-------------------------- MODULE ConductorProofs --------------------------
(***************************************************************************)
(* What TLAPS proves of Conductor for every set of stories, dev plan,      *)
(* report and skill, with any number of commits, deaths and edits. The     *)
(* theorems about the walk of EXECUTE are in DrainProofs.                  *)
(***************************************************************************)
EXTENDS Conductor, SprintStateProofs, WellFoundedInduction

----------------------------------------------------------------------------
(* The inductive invariant. A run may stop anywhere and the next one       *)
(* dispatches on the stage alone, so it ties each pc to its stage and says *)
(* what is true of the disk at each stage, whoever left it there.          *)

StagePc == [SCOPE   |-> {"scope", "record_doc", "audit_doc", "scope_again", "gate1", "cross"},
            PLAN    |-> {"plan", "planning", "head_guard", "audit_plan", "tasks", "gate2", "cross"},
            EXECUTE |-> {"execute", "scan", "walk", "implement", "review", "scoped", "record",
                         "halt"},
            REVIEW  |-> {"guard", "artifacts", "commit", "action", "gate3", "decide",
                         "generative-writeback", "park-at-boundary"}]

PcFits == run.pc \in StagePc[state.stage] \cup {"stopped"}

\* Nothing has been dispatched, halted or decided before EXECUTE.
Untouched == state.stage \in {"SCOPE", "PLAN"} =>
                 /\ NoneStarted(state) /\ state.blockers = <<>> /\ decided = {}
                 /\ \A i \in DOMAIN log : log[i].who # "implementer"

\* From EXECUTE on tasks[] is what the plan names, and at REVIEW all of it is terminal.
Planned == /\ state.stage \in {"EXECUTE", "REVIEW"} => DOMAIN state.tasks = UNION ToSet(plan)
           /\ state.stage = "REVIEW" => Unfinished(state) = {}

Attached == \A i \in DOMAIN state.blockers : state.blockers[i].task \in DOMAIN state.tasks

\* What the run has in hand is loaded, and a cycle is one of a heading.
InHand == /\ run.pc \in {"record", "decide"} => run.todo \subseteq DOMAIN state.tasks
          /\ run.pc \in {"implement", "review", "scoped", "record"} => run.n \in DOMAIN plan

\* What the audits and the coverage join passed in this run is still so at the crossing.
Audited ==
    /\ run.pc \in {"gate1", "cross"} /\ state.stage = "SCOPE" => docs[SprintDoc] = "sound"
    /\ run.pc \in {"gate2", "cross"} /\ state.stage = "PLAN" =>
           docs[DevPlan] = "sound" /\ DOMAIN state.tasks = UNION ToSet(plan)

\* Preflight answered for all the stages the run goes through.
Equipped == run.pc # "stopped" => required_skills(state.stage) \subseteq installed

\* BASE and the line of tasks.jsonl lie behind HEAD.
Behind == run.base <= HEAD /\ (anchor # None => anchor <= HEAD)

\* Since the guard passed only the conductor has committed.
Reviewing == run.pc \in {"artifacts", "commit", "action", "gate3", "decide",
                         "generative-writeback"} =>
                 /\ package # None
                 /\ \A i \in DOMAIN log : i > package => log[i].who = "conductor"

IInv == /\ TypeOK /\ PcFits /\ Untouched /\ Planned /\ Attached /\ InHand /\ Audited
        /\ Equipped /\ Behind /\ Reviewing /\ CommitsAreAccounted

\* What git ls-files answered for is still in the index at the ruling, committed or not.
InTheIndex == /\ run.pc \in {"commit", "gate3", "decide"} => Recorded(state) \subseteq Index
              /\ run.pc = "action" /\ state.gates["G3"] = None => Recorded(state) \subseteq Index
              /\ run.pc = "generative-writeback" => state.gates["G3"] # None

----------------------------------------------------------------------------
(* Sets of numbers. *)

LEMMA Least ==
    ASSUME NEW S \in SUBSET Nat, S # {}
    PROVE  \E x \in S : \A y \in S : x <= y
  <1> DEFINE R == {pair \in Nat \X Nat : pair[1] < pair[2]}
  <1>1. R = OpToRel(<, Nat)
    BY Zenon DEF OpToRel
  <1>2. IsWellFoundedOn(R, Nat)
    BY <1>1, NatLessThanWellFounded
  <1>3. PICK x \in S : \A y \in S : <<y, x>> \notin R
    BY <1>2, WFMin
  <1>4. ASSUME NEW y \in S PROVE x <= y
    <2>1. x \in Nat /\ y \in Nat /\ ~(<<y, x>> \in R)
      BY <1>3
    <2>2. y < x => <<y, x>> \in R
      BY <2>1
    <2> QED BY <2>1, <2>2
  <1> QED BY <1>4

\* FirstHeading takes the least and the greatest heading of a set of them.
LEMMA MinIs ==
    ASSUME NEW S \in SUBSET Nat, S # {}
    PROVE  Min(S) \in S /\ \A y \in S : Min(S) <= y
  BY Least DEF Min

LEMMA MaxIs ==
    ASSUME NEW N \in Nat, NEW S \in SUBSET (0..N), S # {}
    PROVE  Max(S) \in S /\ \A y \in S : y <= Max(S)
  <1> DEFINE T == {N - x : x \in S}
  <1>1. T \in SUBSET Nat /\ T # {}
    <2>1. \A x \in S : N - x \in Nat
      OBVIOUS
    <2>2. T \subseteq Nat
      BY <2>1
    <2>3. PICK x \in S : TRUE
      OBVIOUS
    <2>4. N - x \in T
      BY <2>3
    <2> QED BY <2>2, <2>4
  <1>2. PICK z \in T : \A y \in T : z <= y
    BY <1>1, Least
  <1>3. PICK x \in S : z = N - x
    OBVIOUS
  <1>4. \A y \in S : N - x <= N - y
    BY <1>2, <1>3
  <1>5. \A y \in S : x >= y
    BY <1>4
  <1> QED BY <1>5 DEF Max

----------------------------------------------------------------------------
(* Types. *)

Conversation == [pc : Pc, n : Nat, base : Nat, todo : SUBSET Story,
                 report : TaskStatus \cup {None},
                 checked : BOOLEAN, retried : BOOLEAN, answered : BOOLEAN]

LEMMA StoppedType == Stopped \in Conversation
  BY DEF Stopped, Conversation, Pc

LEMMA GoesType ==
    ASSUME run \in Conversation, NEW pc \in Pc, Goes(pc)
    PROVE  /\ run' \in Conversation /\ run'.pc = pc
           /\ run'.n = run.n /\ run'.base = run.base /\ run'.todo = run.todo
           /\ run'.report = run.report /\ run'.checked = run.checked
           /\ run'.retried = run.retried /\ run'.answered = run.answered
  BY DEF Conversation, Goes

LEMMA StopsType ==
    ASSUME Stops
    PROVE  /\ run' \in Conversation /\ run'.pc = "stopped" /\ run'.base = 0 /\ run'.todo = {}
           /\ run'.n = 0 /\ run'.report = None /\ run'.checked = FALSE
  BY StoppedType DEF Stops, Stopped

LEMMA WalksType ==
    ASSUME run \in Conversation, NEW n \in Nat, Walks(n)
    PROVE  /\ run' \in Conversation /\ run'.pc = "walk" /\ run'.n = n /\ run'.base = 0
           /\ run'.todo = {} /\ run'.report = None /\ run'.checked = run.checked
  <1>1. run' = [run EXCEPT !.pc = "walk", !.n = n, !.base = 0, !.todo = {},
                           !.report = None, !.retried = FALSE]
    BY DEF Walks
  <1>2. "walk" \in Pc
    BY DEF Pc
  <1> QED BY <1>1, <1>2 DEF Conversation

\* What dispatch makes of the run, BASE being where the branch stands.
LEMMA DispatchType ==
    ASSUME run \in Conversation, HEAD \in Nat, dispatch
    PROVE  /\ run' \in Conversation /\ run'.pc = "implement" /\ run'.base = HEAD
           /\ run'.n = run.n /\ run'.report = run.report
           /\ run'.checked = (run.checked \/ plan[run.n] # {})
  <1>1. PICK c \in BOOLEAN : c = (run.checked \/ plan[run.n] # {})
    OBVIOUS
  <1>2. run' = [run EXCEPT !.pc = "implement", !.base = HEAD, !.checked = c]
    BY <1>1 DEF dispatch
  <1>3. "implement" \in Pc
    BY DEF Pc
  <1> QED BY <1>1, <1>2, <1>3 DEF Conversation

LEMMA PlanType == TypeOK => /\ plan \in Seq(SUBSET Story)
                            /\ UNION ToSet(plan) \in SUBSET Story /\ UNION ToSet(plan) # {}
  <1> SUFFICES ASSUME TypeOK PROVE /\ plan \in Seq(SUBSET Story)
                                   /\ UNION ToSet(plan) \in SUBSET Story /\ UNION ToSet(plan) # {}
    OBVIOUS
  <1>1. plan \in Seq(SUBSET Story) /\ UNION ToSet(plan) # {}
    BY PlansAssumption DEF TypeOK
  <1>2. \A i \in DOMAIN plan : plan[i] \in SUBSET Story
    BY <1>1
  <1> QED BY <1>1, <1>2 DEF ToSet

\* A step of the conversation alone, when what depends on the pc is seen to.
LEMMA MoveKeeps ==
    ASSUME IInv, OnlyRun, run' \in Conversation, PcFits', InHand', Audited', Equipped',
           run'.base <= HEAD, Reviewing', CommitsAreAccounted'
    PROVE  IInv'
  <1>1. TypeOK'
    BY DEF IInv, TypeOK, OnlyRun, OnlyState, conductor_vars, Conversation
  <1>2. Untouched' /\ Planned' /\ Attached'
    BY DEF IInv, Untouched, Planned, Attached, OnlyRun, OnlyState, conductor_vars, NoneStarted,
           Unfinished
  <1>3. Behind'
    BY DEF IInv, Behind, OnlyRun, OnlyState, HEAD
  <1> QED BY <1>1, <1>2, <1>3 DEF IInv

LEMMA StopKeeps == ASSUME IInv, OnlyRun, Stops, Unaccounted \subseteq lost PROVE IInv'
  <1>1. run' \in Conversation /\ run'.pc = "stopped" /\ run'.base = 0
    BY StopsType
  <1>2. PcFits' /\ InHand' /\ Audited' /\ Equipped' /\ Reviewing'
    BY <1>1 DEF PcFits, InHand, Audited, Equipped, Reviewing
  <1>3. CommitsAreAccounted'
    BY DEF IInv, OnlyRun, OnlyState, conductor_vars, CommitsAreAccounted, Unaccounted
  <1>4. 0 <= HEAD
    BY DEF IInv, TypeOK, HEAD
  <1> QED BY <1>1, <1>2, <1>3, <1>4, MoveKeeps

LEMMA StageIs ==
    ASSUME IInv
    PROVE  /\ run.pc \in {"scope", "record_doc", "audit_doc", "scope_again", "gate1"} =>
                  state.stage = "SCOPE"
           /\ run.pc \in {"plan", "planning", "head_guard", "audit_plan", "tasks", "gate2"} =>
                  state.stage = "PLAN"
           /\ run.pc = "cross" => state.stage \in {"SCOPE", "PLAN"}
           /\ run.pc \in {"execute", "scan", "walk", "implement", "review", "scoped", "record", "halt"} =>
                  state.stage = "EXECUTE"
           /\ run.pc \in {"guard", "artifacts", "commit", "action", "gate3", "decide",
                         "generative-writeback", "park-at-boundary"} => state.stage = "REVIEW"
  <1>1. state.stage \in Stage /\ PcFits
    BY DEF IInv, TypeOK, Sprint
  <1>2. state.stage = "SCOPE" => run.pc \in StagePc.SCOPE \cup {"stopped"}
    BY <1>1 DEF PcFits
  <1>3. state.stage = "PLAN" => run.pc \in StagePc.PLAN \cup {"stopped"}
    BY <1>1 DEF PcFits
  <1>4. state.stage = "EXECUTE" => run.pc \in StagePc.EXECUTE \cup {"stopped"}
    BY <1>1 DEF PcFits
  <1>5. state.stage = "REVIEW" => run.pc \in StagePc.REVIEW \cup {"stopped"}
    BY <1>1 DEF PcFits
  <1> QED BY <1>1, <1>2, <1>3, <1>4, <1>5 DEF Stage, StagePc

LEMMA NothingOwed ==
    ASSUME IInv, run.pc \notin {"planning", "head_guard", "action"}
    PROVE  Unaccounted \subseteq lost
  BY DEF IInv, CommitsAreAccounted

\* A step within a run that has accounted for every commit: it may file something in
\* state.json, or a line in a trail, but neither in tasks[] nor in the repository.
LEMMA FilingKeeps ==
    ASSUME IInv, run.pc \notin {"stopped", "planning", "head_guard", "action"},
           UNCHANGED <<plan, docs, log, ran, package, conductor_vars>>,
           anchor' \in {anchor, HEAD}, state' \in Sprint, state'.stage = state.stage,
           state'.tasks = state.tasks, state'.blockers = state.blockers,
           run' \in Conversation, PcFits', InHand', Audited', run'.base <= HEAD, Reviewing'
    PROVE  IInv'
  <1>0. HEAD \in Nat /\ HEAD' = HEAD
    BY DEF IInv, TypeOK, HEAD
  <1>1. TypeOK'
    BY <1>0 DEF IInv, TypeOK, conductor_vars, Conversation
  <1>2. Untouched' /\ Planned' /\ Attached'
    BY DEF IInv, Untouched, Planned, Attached, conductor_vars, NoneStarted, Unfinished
  <1>3. Behind'
    BY <1>0 DEF IInv, Behind
  <1>4. Equipped'
    BY DEF IInv, Equipped, conductor_vars
  <1>5. CommitsAreAccounted'
    BY NothingOwed DEF conductor_vars, CommitsAreAccounted, Unaccounted
  <1> QED BY <1>1, <1>2, <1>3, <1>4, <1>5 DEF IInv

LEMMA StepKeeps ==
    ASSUME IInv, OnlyRun, run.pc \notin {"stopped", "planning", "head_guard", "action"},
           run' \in Conversation, PcFits', InHand', Audited', run'.base <= HEAD, Reviewing'
    PROVE  IInv'
  <1>1. state \in Sprint
    BY DEF IInv, TypeOK
  <1> QED BY <1>1, FilingKeeps DEF OnlyRun, OnlyState

----------------------------------------------------------------------------
(* The run checklist, SCOPE and PLAN. *)

LEMMA InvokeKeeps == IInv /\ invoke => IInv'
  <1> SUFFICES ASSUME IInv, invoke PROVE IInv'
    OBVIOUS
  <1>0. state.stage \in Stage
    BY DEF IInv, TypeOK, Sprint
  <1>1. /\ OnlyRun /\ run.pc = "stopped" /\ run \in Conversation
        /\ Goes(FirstStep[state.stage]) /\ FirstStep[state.stage] \in Pc
    BY <1>0 DEF invoke, At, OnlyRun, OnlyState, IInv, TypeOK, Conversation, FirstStep, Stage, Pc
  <1>2. /\ run' \in Conversation /\ run'.pc = FirstStep[state.stage] /\ run'.base = run.base
    BY <1>1, GoesType
  <1>3. PcFits' /\ InHand' /\ Audited' /\ Reviewing'
    BY <1>0, <1>1, <1>2 DEF PcFits, InHand, Audited, Reviewing, OnlyRun, OnlyState, Stage,
       FirstStep, StagePc
  <1>4. Equipped'
    BY <1>1 DEF invoke, Equipped, unresolved, OnlyRun, OnlyState, conductor_vars
  <1>5. CommitsAreAccounted'
    BY <1>1, NothingOwed DEF OnlyRun, OnlyState, conductor_vars, CommitsAreAccounted, Unaccounted
  <1>6. run.base <= HEAD
    BY DEF IInv, Behind
  <1> QED BY <1>1, <1>2, <1>3, <1>4, <1>5, <1>6, MoveKeeps

\* scope_resumes, audit_doc, plan_resumes and plan_without_doc.
LEMMA AuditsKeep ==
    IInv /\ (scope_resumes \/ audit_doc \/ plan_resumes \/ plan_without_doc) => IInv'
  <1> SUFFICES ASSUME IInv, scope_resumes \/ audit_doc \/ plan_resumes \/ plan_without_doc
               PROVE  IInv'
    OBVIOUS
  <1>0. run \in Conversation /\ run.base <= HEAD /\ OnlyRun /\ state.stage \in Stage
        /\ run.pc \in {"scope", "audit_doc", "plan"} /\ PcFits
    BY DEF IInv, TypeOK, Conversation, Behind, scope_resumes, audit_doc, plan_resumes,
           plan_without_doc, At, Sprint
  <1>1. CASE Stops
    BY <1>0, <1>1, StopKeeps, NothingOwed
  <1>2. CASE ~Stops
    <2>1. \/ run.pc = "scope" /\ run'.pc = "audit_doc"
          \/ run.pc = "audit_doc" /\ run'.pc = "gate1" /\ docs[SprintDoc] = "sound"
          \/ run.pc = "audit_doc" /\ run'.pc = "scope_again"
          \/ run.pc = "plan" /\ run'.pc = "audit_plan"
      BY <1>0, <1>2 DEF scope_resumes, audit_doc, plan_resumes, plan_without_doc, Goes,
         Conversation, At
    <2>2. run' \in Conversation /\ run'.base = run.base
      BY <1>0, <1>2 DEF scope_resumes, audit_doc, plan_resumes, plan_without_doc, Goes,
         Conversation, Pc
    <2>3. PcFits' /\ InHand' /\ Audited' /\ Reviewing'
      BY <1>0, <2>1 DEF PcFits, InHand, Audited, Reviewing, OnlyRun, OnlyState, Stage, StagePc
    <2> QED BY <1>0, <2>1, <2>2, <2>3, StepKeeps
  <1> QED BY <1>1, <1>2

LEMMA DispatchScopeKeeps ==
    ASSUME IInv, NEW quality \in {docs[SprintDoc]} \cup QualityOf(SprintDoc), dispatch_scope(quality)
    PROVE  IInv'
  <1>a. /\ run \in Conversation /\ run.pc \in {"scope", "scope_again"} /\ state.stage = "SCOPE"
        /\ Goes("record_doc") \/ Goes("audit_doc")
    BY StageIs DEF IInv, TypeOK, Conversation, dispatch_scope, At
  <1>0. run'.pc \in {"record_doc", "audit_doc"} /\ run' \in Conversation /\ run'.base = run.base
    <2>1. "record_doc" \in Pc /\ "audit_doc" \in Pc
      BY DEF Pc
    <2> QED BY <1>a, <2>1, GoesType
  <1>2. UNCHANGED <<state, plan, log, anchor, ran, package, conductor_vars>>
    BY DEF dispatch_scope
  <1>3. docs' \in [Document -> {"missing", "flawed", "holed", "sound"}]
    BY DEF IInv, TypeOK, dispatch_scope, Document, QualityOf
  <1>4. TypeOK'
    BY <1>0, <1>2, <1>3 DEF IInv, TypeOK, Conversation, conductor_vars
  <1>5. PcFits' /\ Untouched' /\ Planned' /\ Attached' /\ InHand' /\ Audited' /\ Reviewing'
    BY <1>a, <1>0, <1>2 DEF IInv, PcFits, Untouched, Planned, Attached, InHand, Audited, Reviewing,
       StagePc, NoneStarted, Unfinished, conductor_vars
  <1>6. Equipped' /\ Behind' /\ CommitsAreAccounted'
    BY <1>a, <1>0, <1>2, NothingOwed DEF IInv, Equipped, Behind, HEAD, CommitsAreAccounted,
       Unaccounted, conductor_vars
  <1> QED BY <1>4, <1>5, <1>6 DEF IInv

LEMMA DispatchPlanKeeps == IInv /\ dispatch_plan => IInv'
  <1> SUFFICES ASSUME IInv, dispatch_plan PROVE IInv'
    OBVIOUS
  <1>1. run \in Conversation /\ run.pc = "plan" /\ state.stage = "PLAN" /\ HEAD \in Nat /\ OnlyRun
    BY StageIs DEF IInv, TypeOK, Conversation, dispatch_plan, At, HEAD
  <1>2. run' \in Conversation /\ run'.pc = "planning" /\ run'.base = HEAD
    BY <1>1 DEF dispatch_plan, Conversation, Pc
  <1>3. PcFits' /\ InHand' /\ Audited' /\ Reviewing'
    BY <1>1, <1>2 DEF PcFits, InHand, Audited, Reviewing, OnlyRun, StagePc
  <1> QED BY <1>1, <1>2, <1>3, StepKeeps

\* What a commit of anyone adds to the branch.
LEMMA AppendType ==
    ASSUME IInv, NEW who \in {"implementer", "planner", "conductor", "operator"}, NEW n \in Nat,
           NEW tree \in SUBSET Path, log' = Append(log, CommitOf(who, n, tree))
    PROVE  /\ log' \in Seq(Commit) /\ HEAD' = HEAD + 1 /\ HEAD \in Nat
           /\ DOMAIN log' = DOMAIN log \cup {HEAD + 1} /\ DOMAIN log = 1..HEAD
           /\ \A i \in DOMAIN log : log'[i] = log[i]
           /\ log'[HEAD + 1] = CommitOf(who, n, tree)
  <1>1. log \in Seq(Commit) /\ CommitOf(who, n, tree) \in Commit
    BY DEF IInv, TypeOK, CommitOf, Commit
  <1> QED BY <1>1 DEF HEAD

LEMMA TreeType == ASSUME IInv PROVE Tree \in SUBSET Path /\ OnDisk \in SUBSET Path
  <1>1. log \in Seq(Commit) /\ DOMAIN docs = Document /\ Document \subseteq Path
    BY DocsAssumption DEF IInv, TypeOK, Document
  <1>2. CASE HEAD = 0
    BY <1>1, <1>2 DEF Tree, TreeAt, OnDisk
  <1>3. CASE HEAD # 0
    <2>1. log[HEAD] \in Commit
      BY <1>1, <1>3 DEF HEAD
    <2> QED BY <1>1, <1>3, <2>1 DEF Tree, TreeAt, OnDisk, Commit
  <1> QED BY <1>2, <1>3

\* Everything after `base` is shown, and nothing else of the log changes.
LEMMA ShowsType ==
    ASSUME IInv, NEW base, Shows(base)
    PROVE  /\ log' \in Seq(Commit) /\ HEAD' = HEAD /\ DOMAIN log' = DOMAIN log
           /\ DOMAIN log = 1..HEAD /\ HEAD \in Nat
           /\ \A i \in DOMAIN log : /\ log'[i].who = log[i].who /\ log'[i].n = log[i].n
                                    /\ log'[i].tree = log[i].tree
                                    /\ log'[i].adrift = log[i].adrift
                                    /\ log'[i].seen = (log[i].seen \/ i > base)
  <1>1. log \in Seq(Commit) /\ DOMAIN log = 1..Len(log) /\ Len(log) \in Nat
    BY DEF IInv, TypeOK
  <1>2. \A i \in DOMAIN log : log[i] \in Commit
    BY <1>1
  <1>3. log' = [i \in 1..Len(log) |-> [log[i] EXCEPT !.seen = @ \/ i > base]]
    BY <1>1 DEF Shows
  <1>4. \A i \in 1..Len(log) : [log[i] EXCEPT !.seen = @ \/ i > base] \in Commit
    BY <1>1, <1>2 DEF Commit
  <1>5. log' \in [1..Len(log) -> Commit]
    BY <1>3, <1>4
  <1>6. log' \in Seq(Commit) /\ Len(log') = Len(log)
    BY <1>1, <1>5
  <1>7. \A i \in DOMAIN log : /\ log'[i].who = log[i].who /\ log'[i].n = log[i].n
                              /\ log'[i].tree = log[i].tree /\ log'[i].adrift = log[i].adrift
                              /\ log'[i].seen = (log[i].seen \/ i > base)
    BY <1>1, <1>2, <1>3 DEF Commit
  <1> QED BY <1>1, <1>6, <1>7 DEF HEAD

\* A BASE that is let go of marks what lies after it, and nothing else of the log changes.
LEMMA LeavesType ==
    ASSUME IInv, LeavesBehind
    PROVE  /\ log' \in Seq(Commit) /\ HEAD' = HEAD /\ DOMAIN log' = DOMAIN log
           /\ DOMAIN log = 1..HEAD /\ HEAD \in Nat
           /\ \A i \in DOMAIN log : /\ log'[i].who = log[i].who /\ log'[i].n = log[i].n
                                    /\ log'[i].tree = log[i].tree /\ log'[i].seen = log[i].seen
                                    /\ log'[i].adrift = (log[i].adrift \/ SinceBase(i))
  <1>1. log \in Seq(Commit) /\ DOMAIN log = 1..Len(log) /\ Len(log) \in Nat
    BY DEF IInv, TypeOK
  <1>2. \A i \in DOMAIN log : log[i] \in Commit
    BY <1>1
  <1>3. log' = [i \in 1..Len(log) |-> [log[i] EXCEPT !.adrift = @ \/ SinceBase(i)]]
    BY <1>1 DEF LeavesBehind
  <1>4. \A i \in 1..Len(log) : [log[i] EXCEPT !.adrift = @ \/ SinceBase(i)] \in Commit
    BY <1>1, <1>2 DEF Commit
  <1>5. log' \in [1..Len(log) -> Commit]
    BY <1>3, <1>4
  <1>6. log' \in Seq(Commit) /\ Len(log') = Len(log)
    BY <1>1, <1>5
  <1>7. \A i \in DOMAIN log : /\ log'[i].who = log[i].who /\ log'[i].n = log[i].n
                              /\ log'[i].tree = log[i].tree /\ log'[i].seen = log[i].seen
                              /\ log'[i].adrift = (log[i].adrift \/ SinceBase(i))
    BY <1>1, <1>2, <1>3 DEF Commit
  <1> QED BY <1>1, <1>6, <1>7 DEF HEAD

LEMMA LosesType ==
    ASSUME IInv, LosesBase
    PROVE  /\ log' \in Seq(Commit) /\ HEAD' = HEAD /\ DOMAIN log' = DOMAIN log
           /\ DOMAIN log = 1..HEAD /\ HEAD \in Nat
           /\ \A i \in DOMAIN log : /\ log'[i].who = log[i].who /\ log'[i].n = log[i].n
                                    /\ log'[i].tree = log[i].tree /\ log'[i].seen = log[i].seen
                                    /\ log[i].adrift => log'[i].adrift
                                    /\ anchor = None /\ SinceBase(i) => log'[i].adrift
  <1>1. CASE anchor = None
    <2>1. LeavesBehind
      BY <1>1 DEF LosesBase
    <2> QED BY <2>1, LeavesType
  <1>2. CASE anchor # None
    <2>1. log' = log /\ log \in Seq(Commit) /\ DOMAIN log = 1..Len(log) /\ Len(log) \in Nat
      BY <1>2 DEF LosesBase, IInv, TypeOK
    <2> QED BY <1>2, <2>1 DEF HEAD
  <1> QED BY <1>1, <1>2

LEMMA PlannerCommitsKeeps == IInv /\ planner_commits => IInv'
  <1> SUFFICES ASSUME IInv, planner_commits PROVE IInv'
    OBVIOUS
  <1>1. PICK tree \in {Tree, Tree \cup OnDisk} : log' = Append(log, CommitOf("planner", 0, tree))
    BY DEF planner_commits, Commits
  <1>2. tree \in SUBSET Path
    BY <1>1, TreeType
  <1>3. /\ log' \in Seq(Commit) /\ HEAD' = HEAD + 1 /\ HEAD \in Nat
        /\ DOMAIN log' = DOMAIN log \cup {HEAD + 1}
        /\ \A i \in DOMAIN log : log'[i] = log[i]
        /\ log'[HEAD + 1].who = "planner"
    <2>1. 0 \in Nat /\ CommitOf("planner", 0, tree).who = "planner"
      BY DEF CommitOf
    <2> QED BY <1>1, <1>2, <2>1, AppendType
  <1>4. /\ UNCHANGED <<state, plan, docs, anchor, ran, package, run, conductor_vars>>
        /\ run.pc = "planning" /\ state.stage = "PLAN"
    BY StageIs DEF planner_commits, At
  <1>5. TypeOK'
    BY <1>3, <1>4 DEF IInv, TypeOK, conductor_vars
  <1>6. PcFits' /\ Planned' /\ Attached' /\ InHand' /\ Audited' /\ Equipped'
    BY <1>4 DEF IInv, PcFits, Planned, Attached, InHand, Audited, Equipped, Unfinished, conductor_vars
  <1>7. Untouched' /\ Reviewing'
    BY <1>3, <1>4 DEF IInv, Untouched, Reviewing, NoneStarted, conductor_vars
  <1>8. Behind' /\ run.base <= HEAD
    BY <1>3, <1>4 DEF IInv, Behind, TypeOK
  <1>9. CommitsAreAccounted'
    <2> SUFFICES ASSUME NEW i \in Unaccounted', i \notin lost PROVE i > run.base
      BY <1>4 DEF CommitsAreAccounted, conductor_vars
    <2>1. CASE i = HEAD + 1
      BY <2>1, <1>3, <1>8 DEF IInv, TypeOK
    <2>2. CASE i # HEAD + 1
      <3>1. i \in Unaccounted
        BY <2>2, <1>3 DEF Unaccounted
      <3> QED BY <3>1, <1>4 DEF IInv, CommitsAreAccounted
    <2> QED BY <2>1, <2>2
  <1> QED BY <1>5, <1>6, <1>7, <1>8, <1>9 DEF IInv

LEMMA PlannerWritesKeeps ==
    ASSUME IInv, NEW quality \in {docs[DevPlan]} \cup QualityOf(DevPlan), planner_writes(quality)
    PROVE  IInv'
  <1>1. /\ UNCHANGED <<state, plan, log, anchor, ran, package, conductor_vars>>
        /\ run.pc = "planning" /\ state.stage = "PLAN" /\ run \in Conversation
    BY StageIs DEF IInv, TypeOK, Conversation, planner_writes, At
  <1>2. run'.pc = "head_guard" /\ run' \in Conversation /\ run'.base = run.base
    <2>1. "head_guard" \in Pc
      BY DEF Pc
    <2> QED BY <1>1, <2>1, GoesType DEF planner_writes
  <1>3. docs' \in [Document -> {"missing", "flawed", "holed", "sound"}]
    BY DEF IInv, TypeOK, planner_writes, Document, QualityOf
  <1>4. TypeOK'
    BY <1>1, <1>2, <1>3 DEF IInv, TypeOK, Conversation, conductor_vars
  <1>5. PcFits' /\ Untouched' /\ Planned' /\ Attached' /\ InHand' /\ Audited' /\ Reviewing'
    BY <1>1, <1>2 DEF IInv, PcFits, Untouched, Planned, Attached, InHand, Audited, Reviewing,
       StagePc, NoneStarted, Unfinished, conductor_vars
  <1>6. Equipped' /\ Behind' /\ CommitsAreAccounted'
    BY <1>1, <1>2 DEF IInv, Equipped, Behind, HEAD, CommitsAreAccounted, Unaccounted, conductor_vars
  <1> QED BY <1>4, <1>5, <1>6 DEF IInv

\* plan-guard: the run stops over commits it has told, or there are none.
LEMMA StopOnCommitsKeeps == IInv /\ stop_on_commits => IInv'
  <1> SUFFICES ASSUME IInv, stop_on_commits PROVE IInv'
    OBVIOUS
  <1>1. /\ UNCHANGED <<state, plan, docs, anchor, ran, package, conductor_vars>>
        /\ run.pc = "head_guard" /\ state.stage = "PLAN"
        /\ run' \in Conversation /\ run'.pc = "stopped" /\ run'.base = 0
    BY StageIs, StopsType DEF stop_on_commits, At
  <1>2. /\ log' \in Seq(Commit) /\ HEAD' = HEAD /\ DOMAIN log' = DOMAIN log /\ HEAD \in Nat
        /\ \A i \in DOMAIN log : /\ log'[i].who = log[i].who
                                 /\ log'[i].seen = (log[i].seen \/ i > run.base)
    BY ShowsType DEF stop_on_commits
  <1>3. TypeOK'
    BY <1>1, <1>2 DEF IInv, TypeOK, Conversation, conductor_vars
  <1>4. PcFits' /\ Planned' /\ Attached' /\ InHand' /\ Audited' /\ Equipped' /\ Reviewing'
    BY <1>1 DEF IInv, PcFits, Planned, Attached, InHand, Audited, Equipped, Reviewing, Unfinished,
       conductor_vars
  <1>5. Untouched' /\ Behind'
    BY <1>1, <1>2 DEF IInv, Untouched, Behind, NoneStarted, conductor_vars
  <1>6. CommitsAreAccounted'
    BY <1>1, <1>2 DEF IInv, CommitsAreAccounted, Unaccounted, conductor_vars
  <1> QED BY <1>3, <1>4, <1>5, <1>6 DEF IInv

LEMMA HeadUnmovedKeeps == IInv /\ head_unmoved => IInv'
  <1> SUFFICES ASSUME IInv, head_unmoved PROVE IInv'
    OBVIOUS
  <1>1. /\ OnlyRun /\ run.pc = "head_guard" /\ state.stage = "PLAN" /\ run.base = HEAD
        /\ run \in Conversation
    BY StageIs DEF IInv, TypeOK, Conversation, head_unmoved, At, head_moved
  <1>2. run'.pc = "audit_plan" /\ run' \in Conversation /\ run'.base = run.base
    <2>1. "audit_plan" \in Pc
      BY DEF Pc
    <2> QED BY <1>1, <2>1, GoesType DEF head_unmoved
  <1>3. PcFits' /\ InHand' /\ Audited' /\ Reviewing' /\ Equipped'
    BY <1>1, <1>2 DEF IInv, PcFits, InHand, Audited, Reviewing, Equipped, OnlyRun, OnlyState, StagePc,
       conductor_vars
  <1>4. \A i \in DOMAIN log : ~(i > run.base) /\ HEAD \in Nat
    BY <1>1 DEF IInv, TypeOK, HEAD
  <1>5. Unaccounted \subseteq lost
    BY <1>4 DEF IInv, CommitsAreAccounted, Unaccounted
  <1>6. CommitsAreAccounted'
    BY <1>1, <1>5 DEF OnlyRun, OnlyState, conductor_vars, CommitsAreAccounted, Unaccounted
  <1>7. run'.base <= HEAD
    BY <1>2 DEF IInv, Behind
  <1> QED BY <1>1, <1>2, <1>3, <1>6, <1>7, MoveKeeps

\* record_doc and audit_plan: the artifact verb.
LEMMA RecordArtifactKeeps == IInv /\ (record_doc \/ audit_plan) => IInv'
  <1> SUFFICES ASSUME IInv, record_doc \/ audit_plan PROVE IInv'
    OBVIOUS
  <1>1. run \in Conversation /\ OnlyState /\ state \in Sprint /\ run.base <= HEAD
    BY DEF IInv, TypeOK, Conversation, record_doc, audit_plan, Behind
  <1>2. CASE Stops /\ UNCHANGED state
    <2>1. run.pc \in {"record_doc", "audit_plan"}
      BY DEF record_doc, audit_plan, At
    <2> QED BY <1>1, <1>2, <2>1, StopKeeps, NothingOwed DEF OnlyRun
  <1>3. CASE record_doc /\ SprintDoc \in OnDisk
    <2>1. /\ state' = WithArtifact(state, "sprint_doc", SprintDoc) /\ Goes("audit_doc")
          /\ run.pc = "record_doc" /\ state.stage = "SCOPE" /\ "audit_doc" \in Pc
      BY <1>3, StageIs DEF record_doc, At, Pc
    <2>2. run' \in Conversation /\ run'.pc = "audit_doc" /\ run'.base = run.base
      BY <1>1, <2>1, GoesType
    <2>3. /\ state' \in Sprint /\ state'.stage = state.stage
          /\ state'.tasks = state.tasks /\ state'.blockers = state.blockers
      BY <1>1, <2>1, WithArtifactType, DocsAssumption DEF WithArtifact, Sprint, ARTIFACT_KEYS
    <2>4. PcFits' /\ InHand' /\ Audited' /\ Reviewing'
      BY <2>1, <2>2, <2>3 DEF PcFits, InHand, Audited, Reviewing, StagePc
    <2> QED BY <1>1, <2>1, <2>2, <2>3, <2>4, FilingKeeps DEF OnlyState
  <1>4. CASE audit_plan /\ docs[DevPlan] \in {"holed", "sound"}
    <2>1. /\ state' = WithArtifact(state, "dev_plan", DevPlan) /\ Goes("tasks")
          /\ run.pc = "audit_plan" /\ state.stage = "PLAN" /\ "tasks" \in Pc
      BY <1>4, StageIs DEF audit_plan, At, Pc
    <2>2. run' \in Conversation /\ run'.pc = "tasks" /\ run'.base = run.base
      BY <1>1, <2>1, GoesType
    <2>3. /\ state' \in Sprint /\ state'.stage = state.stage
          /\ state'.tasks = state.tasks /\ state'.blockers = state.blockers
      BY <1>1, <2>1, WithArtifactType, DocsAssumption DEF WithArtifact, Sprint, ARTIFACT_KEYS
    <2>4. PcFits' /\ InHand' /\ Audited' /\ Reviewing'
      BY <2>1, <2>2, <2>3 DEF PcFits, InHand, Audited, Reviewing, StagePc
    <2> QED BY <1>1, <2>1, <2>2, <2>3, <2>4, FilingKeeps DEF OnlyState
  <1> QED BY <1>2, <1>3, <1>4 DEF record_doc, audit_plan

LEMMA LoadTasksKeeps == IInv /\ load_tasks => IInv'
  <1> SUFFICES ASSUME IInv, load_tasks PROVE IInv'
    OBVIOUS
  <1>1. run \in Conversation /\ OnlyState /\ state \in Sprint /\ run.base <= HEAD
        /\ run.pc = "tasks" /\ state.stage = "PLAN"
    BY StageIs DEF IInv, TypeOK, Conversation, load_tasks, Behind, At
  <1>2. /\ state' = WithTasks(state, UNION ToSet(plan)) /\ Goes("gate2")
        /\ docs[DevPlan] = "sound" /\ "gate2" \in Pc
    BY DEF load_tasks, Pc
  <1>3. run' \in Conversation /\ run'.pc = "gate2" /\ run'.base = run.base
    BY <1>1, <1>2, GoesType
  <1>4. /\ state' \in Sprint /\ state'.stage = "PLAN" /\ state'.blockers = state.blockers
        /\ DOMAIN state'.tasks = UNION ToSet(plan) /\ NoneStarted(state')
    <2>1. UNION ToSet(plan) \in SUBSET Story
      BY PlanType DEF IInv
    <2> QED BY <1>1, <1>2, <2>1, WithTasksType DEF WithTasks, Sprint, NoneStarted
  <1>5. decided = {} /\ state.blockers = <<>>
    BY <1>1 DEF IInv, Untouched
  <1>6. UNCHANGED <<plan, docs, log, anchor, ran, package, conductor_vars>>
    BY <1>1 DEF OnlyState
  <1>7. TypeOK'
    BY <1>3, <1>4, <1>5, <1>6 DEF IInv, TypeOK, conductor_vars, Conversation
  <1>8. PcFits' /\ InHand' /\ Audited' /\ Reviewing' /\ Attached'
    <2>1. Attached'
      BY <1>4, <1>5 DEF Attached
    <2>2. Audited'
      BY <1>2, <1>3, <1>4, <1>6 DEF Audited
    <2> QED BY <1>3, <1>4, <2>1, <2>2 DEF PcFits, InHand, Reviewing, StagePc
  <1>9. Untouched' /\ Planned'
    BY <1>1, <1>4, <1>5, <1>6 DEF IInv, Untouched, Planned, conductor_vars
  <1>10. Equipped' /\ Behind' /\ CommitsAreAccounted'
    BY <1>1, <1>3, <1>4, <1>6, NothingOwed DEF IInv, Equipped, Behind, HEAD, CommitsAreAccounted,
       Unaccounted, conductor_vars
  <1> QED BY <1>7, <1>8, <1>9, <1>10 DEF IInv

\* Two stops that move nothing else.
LEMMA RefusalsKeep == IInv /\ (load_refused \/ gate_unanswered \/ commit_refused) => IInv'
  <1> SUFFICES ASSUME IInv, load_refused \/ gate_unanswered \/ commit_refused PROVE IInv'
    OBVIOUS
  <1>1. OnlyRun /\ Stops /\ run.pc \in {"tasks", "gate1", "gate2", "gate3", "commit"}
    BY DEF load_refused, gate_unanswered, commit_refused, At
  <1> QED BY <1>1, StopKeeps, NothingOwed

----------------------------------------------------------------------------
(* Gates 1 and 2, and the crossing they open. *)

LEMMA GateRejectedKeeps ==
    ASSUME IInv, NEW gate \in {"G1", "G2"}, gate_rejected(gate)
    PROVE  IInv'
  <1>1. /\ OnlyState /\ state \in Sprint /\ run.pc \in {"gate1", "gate2"}
        /\ state' = WithGate(state, gate, "rejected")
    BY DEF IInv, TypeOK, gate_rejected, GateOf
  <1>2. run' \in Conversation /\ run'.pc = "stopped" /\ run'.base = 0
    BY StopsType DEF gate_rejected
  <1>3. /\ state' \in Sprint /\ state'.stage = state.stage
        /\ state'.tasks = state.tasks /\ state'.blockers = state.blockers
    BY <1>1, WithGateType DEF WithGate, Sprint, GATE_KEYS, GATE_DECISIONS
  <1>4. PcFits' /\ InHand' /\ Audited' /\ Reviewing'
    BY <1>2 DEF PcFits, InHand, Audited, Reviewing
  <1>5. 0 <= HEAD
    BY DEF IInv, TypeOK, HEAD
  <1> QED BY <1>1, <1>2, <1>3, <1>4, <1>5, FilingKeeps DEF OnlyState

LEMMA GateApprovedKeeps ==
    ASSUME IInv, NEW gate \in {"G1", "G2"}, gate_approved(gate)
    PROVE  IInv'
  <1>1. /\ UNCHANGED <<plan, docs, log, anchor, ran, package, conductor_vars>>
        /\ state \in Sprint /\ run \in Conversation /\ run.base <= HEAD
        /\ \/ run.pc = "gate1" /\ state.stage = "SCOPE"
           \/ run.pc = "gate2" /\ state.stage = "PLAN"
        /\ state' = WithGate(state, gate, "approved")
    BY StageIs DEF IInv, TypeOK, gate_approved, GateOf, Behind, Conversation, OnlyState
  <1>2. run' \in Conversation /\ run'.pc = "cross" /\ run'.base = run.base
    <2>1. "cross" \in Pc
      BY DEF Pc
    <2> QED BY <1>1, <2>1, GoesType DEF gate_approved
  <1>3. /\ state' \in Sprint /\ state'.stage = state.stage
        /\ state'.tasks = state.tasks /\ state'.blockers = state.blockers
    BY <1>1, WithGateType DEF WithGate, Sprint, GATE_KEYS, GATE_DECISIONS
  <1>4. PcFits'
    BY <1>1, <1>2, <1>3 DEF PcFits, StagePc
  <1>5. Audited'
    BY <1>1, <1>2, <1>3 DEF IInv, Audited
  <1>6. InHand' /\ Reviewing'
    BY <1>2 DEF InHand, Reviewing
  <1> QED BY <1>1, <1>2, <1>3, <1>4, <1>5, <1>6, FilingKeeps

LEMMA LaterSkills ==
    /\ required_skills("PLAN") \subseteq required_skills("SCOPE")
    /\ required_skills("EXECUTE") \subseteq required_skills("PLAN")
  <1>1. \A x \in Stage : /\ StageIndex[x] >= StageIndex["PLAN"] => StageIndex[x] >= StageIndex["SCOPE"]
                         /\ StageIndex[x] >= StageIndex["EXECUTE"] => StageIndex[x] >= StageIndex["PLAN"]
    BY DEF Stage, StageIndex
  <1> QED BY <1>1 DEF required_skills

LEMMA CrossKeeps == IInv /\ cross => IInv'
  <1> SUFFICES ASSUME IInv, cross PROVE IInv'
    OBVIOUS
  <1>1. /\ OnlyState /\ state \in Sprint /\ run.pc = "cross" /\ state.stage \in {"SCOPE", "PLAN"}
    BY StageIs DEF IInv, TypeOK, cross, At
  <1>2. CASE Stops /\ UNCHANGED state
    BY <1>1, <1>2, StopKeeps, NothingOwed DEF OnlyRun
  <1>3. CASE ~(Stops /\ UNCHANGED state)
    <2> DEFINE to == NextStage[state.stage]
    <2>1. /\ state' = WithStage(state, to) /\ run' = [Stopped EXCEPT !.pc = FirstStep[to]]
      BY <1>3 DEF cross
    <2>2. \/ state.stage = "SCOPE" /\ to = "PLAN" /\ FirstStep[to] = "plan"
          \/ state.stage = "PLAN" /\ to = "EXECUTE" /\ FirstStep[to] = "execute"
      BY <1>1 DEF NextStage, FirstStep
    <2>3. /\ state' \in Sprint /\ state'.stage = to
          /\ state'.tasks = state.tasks /\ state'.blockers = state.blockers
      BY <1>1, <2>1, <2>2, WithStageType DEF WithStage, Sprint, Stage
    <2>4. run' \in Conversation /\ run'.pc = FirstStep[to] /\ run'.base = 0
      BY <2>1, <2>2, StoppedType DEF Stopped, Conversation, Pc
    <2>5. UNCHANGED <<plan, docs, log, anchor, ran, package, conductor_vars>> /\ HEAD \in Nat
      BY <1>1 DEF IInv, TypeOK, OnlyState, HEAD
    <2>6. TypeOK'
      BY <2>3, <2>4, <2>5 DEF IInv, TypeOK, conductor_vars, Conversation
    <2>7. PcFits' /\ InHand' /\ Audited' /\ Reviewing'
      BY <2>2, <2>3, <2>4 DEF PcFits, InHand, Audited, Reviewing, StagePc
    <2>8. Untouched' /\ Attached'
      BY <1>1, <2>2, <2>3, <2>5 DEF IInv, Untouched, Attached, NoneStarted, conductor_vars
    <2>9. Planned'
      <3>1. state.stage = "PLAN" => DOMAIN state.tasks = UNION ToSet(plan)
        BY <1>1 DEF IInv, Audited
      <3> QED BY <2>2, <2>3, <2>5, <3>1 DEF Planned
    <2>10. Equipped'
      BY <1>1, <2>2, <2>3, <2>5, LaterSkills DEF IInv, Equipped, conductor_vars
    <2>11. Behind' /\ CommitsAreAccounted'
      BY <1>1, <2>4, <2>5, NothingOwed DEF IInv, Behind, HEAD, CommitsAreAccounted, Unaccounted,
         conductor_vars
    <2> QED BY <2>6, <2>7, <2>8, <2>9, <2>10, <2>11 DEF IInv
  <1> QED BY <1>2, <1>3

----------------------------------------------------------------------------
(* EXECUTE. *)

LEMMA EnterExecuteKeeps == IInv /\ enter_execute => IInv'
  <1> SUFFICES ASSUME IInv, enter_execute PROVE IInv'
    OBVIOUS
  <1>1. /\ UNCHANGED <<state, plan, docs, log, anchor, ran, package,
                       staged, decided, installed, lost, deaths, edits>>
        /\ run.pc = "execute" /\ state.stage = "EXECUTE" /\ run \in Conversation
        /\ run.base <= HEAD /\ 0 <= HEAD
    BY StageIs DEF IInv, TypeOK, Conversation, enter_execute, At, Behind, HEAD
  <1>2. run' \in Conversation /\ run'.pc \in {"scan", "stopped"} /\ run'.base <= HEAD
    <2>1. "scan" \in Pc
      BY DEF Pc
    <2> QED BY <1>1, <2>1, GoesType, StopsType DEF enter_execute
  <1>3. repo_tree' \in (SUBSET Path) \cup {None}
    BY TreeType DEF IInv, TypeOK, enter_execute
  <1>4. TypeOK'
    BY <1>1, <1>2, <1>3 DEF IInv, TypeOK, Conversation
  <1>5. PcFits' /\ Untouched' /\ Planned' /\ Attached' /\ InHand' /\ Audited' /\ Reviewing'
    BY <1>1, <1>2 DEF IInv, PcFits, Untouched, Planned, Attached, InHand, Audited, Reviewing,
       StagePc, NoneStarted, Unfinished
  <1>6. Equipped' /\ Behind' /\ CommitsAreAccounted'
    BY <1>1, <1>2, NothingOwed DEF IInv, Equipped, Behind, HEAD, CommitsAreAccounted, Unaccounted
  <1> QED BY <1>4, <1>5, <1>6 DEF IInv

LEMMA NamedHeadings ==
    ASSUME IInv
    PROVE  /\ DOMAIN plan = 1..Len(plan) /\ Len(plan) \in Nat
           /\ \A n \in DOMAIN plan : plan[n] \in SUBSET Story
           /\ {n \in DOMAIN plan : plan[n] # {}} # {}
  <1>1. plan \in Seq(SUBSET Story) /\ UNION ToSet(plan) # {}
    BY PlanType DEF IInv
  <1>2. PICK S \in ToSet(plan) : S # {}
    BY <1>1
  <1>3. PICK n \in DOMAIN plan : plan[n] = S
    BY <1>2 DEF ToSet
  <1> QED BY <1>1, <1>2, <1>3

\* The walk starts at a heading or right after the last one; before it every heading's
\* stories are terminal.
LEMMA FirstHeadingIs ==
    ASSUME IInv
    PROVE  /\ FirstHeading \in Nat /\ FirstHeading >= 1
           /\ \A n \in DOMAIN plan : n < FirstHeading => Pending(n) = {}
           /\ \A n \in DOMAIN plan : Pending(n) # {} => FirstHeading <= n
  <1> DEFINE named   == {n \in DOMAIN plan : plan[n] # {}}
             waiting == {n \in named : Pending(n) # {}}
  <1>1. /\ DOMAIN plan = 1..Len(plan) /\ Len(plan) \in Nat /\ named # {}
        /\ named \in SUBSET Nat /\ waiting \in SUBSET Nat /\ named \in SUBSET (0..Len(plan))
    BY NamedHeadings
  <1>2. \A n \in DOMAIN plan : Pending(n) # {} => n \in waiting
    BY DEF Pending
  <1>3. \A n \in DOMAIN plan : n \in Nat /\ n >= 1
    BY <1>1
  <1>4. CASE NoneStarted(state)
    <2>1. FirstHeading = 1
      BY <1>4 DEF FirstHeading
    <2> QED BY <2>1, <1>3
  <1>5. CASE ~NoneStarted(state) /\ waiting # {}
    <2>1. FirstHeading = Min(waiting)
      BY <1>5 DEF FirstHeading
    <2>2. Min(waiting) \in waiting /\ \A y \in waiting : Min(waiting) <= y
      BY <1>1, <1>5, MinIs
    <2>3. \A n \in DOMAIN plan : n < Min(waiting) => n \notin waiting
      BY <2>2, <1>3
    <2>4. Min(waiting) \in Nat /\ Min(waiting) >= 1
      BY <2>2, <1>3
    <2> HIDE DEF named, waiting
    <2> QED BY <2>1, <2>2, <2>3, <2>4, <1>2
  <1>6. CASE ~NoneStarted(state) /\ waiting = {}
    <2>1. FirstHeading = Max(named) + 1
      BY <1>6 DEF FirstHeading
    <2>2. Max(named) \in named
      BY <1>1, MaxIs
    <2> QED BY <2>1, <2>2, <1>2, <1>3, <1>6
  <1> QED BY <1>4, <1>5, <1>6

\* Every step of the walk that only moves the run.
LEMMA WalkStepsKeep ==
    ASSUME IInv, UNCHANGED conductor_vars,
           \/ start_drain \/ skip_heading \/ block_half_done \/ dispatch
           \/ (\E status \in Reports : report_done(status))
           \/ report_blocked
    PROVE  IInv'
  <1>1. OnlyRun /\ run \in Conversation /\ run.base <= HEAD /\ HEAD \in Nat
        /\ run.pc \in {"scan", "walk", "implement"} /\ state.stage = "EXECUTE"
    <2>1. run \in Conversation /\ run.base <= HEAD /\ HEAD \in Nat
      BY DEF IInv, TypeOK, Conversation, Behind, HEAD
    <2>2. OnlyRun /\ run.pc \in {"scan", "walk", "implement"}
      BY DEF OnlyRun, OnlyState, start_drain, skip_heading, block_half_done, dispatch, report_done,
         report_blocked, Heading, At
    <2> QED BY <2>1, <2>2, StageIs
  <1>2. /\ run' \in Conversation /\ run'.base <= HEAD
        /\ run'.pc \in {"walk", "record", "implement", "review", "scoped"}
        /\ run'.pc = "record" => run'.todo \subseteq DOMAIN state.tasks
        /\ run'.pc # "walk" => run'.n \in DOMAIN plan
    <2>1. CASE start_drain
      BY <1>1, <2>1, FirstHeadingIs, WalksType DEF start_drain
    <2>2. CASE skip_heading
      <3>1. run.n + 1 \in Nat
        BY <1>1 DEF Conversation
      <3> QED BY <1>1, <2>2, <3>1, WalksType DEF skip_heading
    <2>3. CASE block_half_done
      <3>1. Pending(run.n) \in SUBSET Story /\ Pending(run.n) \subseteq DOMAIN state.tasks
        BY <2>3, NamedHeadings DEF block_half_done, Heading, Pending, Unfinished
      <3>2. "BLOCKED" \in TaskStatus
        BY DEF TaskStatus
      <3>3. /\ run' = [run EXCEPT !.pc = "record", !.todo = Pending(run.n), !.report = "BLOCKED",
                                  !.checked = TRUE]
            /\ "record" \in Pc /\ run.n \in DOMAIN plan
        BY <2>3 DEF block_half_done, Heading, Pc
      <3> QED BY <1>1, <3>1, <3>2, <3>3 DEF Conversation
    <2>4. CASE dispatch
      BY <1>1, <2>4, DispatchType DEF dispatch, Heading
    <2>5. CASE \E status \in Reports : report_done(status)
      <3>1. PICK status \in Reports : report_done(status)
        BY <2>5
      <3>2. status \in TaskStatus
        BY ReportsAssumption DEF RESOLVING_STATUSES, TaskStatus
      <3>3. run' = [run EXCEPT !.pc = "review", !.report = status] /\ "review" \in Pc
        BY <3>1 DEF report_done, Pc
      <3>4. run' \in Conversation
        BY <1>1, <3>2, <3>3 DEF Conversation
      <3>5. run'.pc = "review" /\ run'.base = run.base /\ run'.n = run.n
        BY <1>1, <3>3 DEF Conversation
      <3>6. run.n \in DOMAIN plan
        BY <3>1 DEF report_done, At, IInv, InHand
      <3> QED BY <1>1, <3>4, <3>5, <3>6
    <2>6. CASE report_blocked
      <3>1. run' = [run EXCEPT !.pc = "scoped", !.report = "BLOCKED"]
        BY <2>6 DEF report_blocked
      <3>2. run.n \in DOMAIN plan
        BY <2>6 DEF report_blocked, At, IInv, InHand
      <3>3. "scoped" \in Pc /\ "BLOCKED" \in TaskStatus
        BY DEF Pc, TaskStatus
      <3> QED BY <1>1, <3>1, <3>2, <3>3 DEF Conversation
    <2> QED BY <2>1, <2>2, <2>3, <2>4, <2>5, <2>6
  <1>3. PcFits' /\ InHand' /\ Audited' /\ Reviewing'
    BY <1>1, <1>2 DEF PcFits, InHand, Audited, Reviewing, OnlyRun, OnlyState, StagePc
  <1> QED BY <1>1, <1>2, <1>3, StepKeeps

\* A second implementer dispatch, and a stop that takes BASE with it.
LEMMA BaseGoesKeeps ==
    IInv /\ (report_needs_context \/ stop_on_foreign) /\ UNCHANGED conductor_vars => IInv'
  <1> SUFFICES ASSUME IInv, report_needs_context \/ stop_on_foreign, UNCHANGED conductor_vars
               PROVE  IInv'
    OBVIOUS
  <1>1. /\ UNCHANGED <<state, plan, docs, anchor, ran, package, conductor_vars>>
        /\ run.pc \in {"implement", "scoped"} /\ state.stage = "EXECUTE"
        /\ run \in Conversation /\ run.n \in DOMAIN plan /\ HEAD \in Nat
    BY StageIs DEF IInv, TypeOK, Conversation, report_needs_context, stop_on_foreign, At, InHand, HEAD
  <1>2. /\ log' \in Seq(Commit) /\ HEAD' = HEAD /\ DOMAIN log' = DOMAIN log
        /\ \A i \in DOMAIN log : log'[i].who = log[i].who /\ log'[i].seen = log[i].seen
    BY LeavesType, LosesType DEF report_needs_context, stop_on_foreign
  <1>3. /\ run' \in Conversation /\ run'.pc \in {"implement", "stopped"} /\ run'.base <= HEAD
        /\ run'.pc = "implement" => run'.n \in DOMAIN plan
    <2>1. CASE report_needs_context
      <3>1. run' = [run EXCEPT !.retried = TRUE, !.base = HEAD] /\ run.pc = "implement"
        BY <2>1 DEF report_needs_context, At
      <3>2. /\ run' \in Conversation /\ run'.pc = "implement" /\ run'.base = HEAD
            /\ run'.n = run.n
        BY <1>1, <3>1 DEF Conversation
      <3>3. HEAD <= HEAD
        BY <1>1
      <3> QED BY <1>1, <3>2, <3>3
    <2>2. CASE stop_on_foreign
      BY <1>1, <2>2, StopsType DEF stop_on_foreign
    <2> QED BY <2>1, <2>2
  <1>4. TypeOK'
    BY <1>1, <1>2, <1>3 DEF IInv, TypeOK, Conversation, conductor_vars
  <1>5. PcFits' /\ Planned' /\ Attached' /\ InHand' /\ Audited' /\ Equipped' /\ Reviewing' /\ Untouched'
    BY <1>1, <1>3 DEF IInv, PcFits, Planned, Attached, InHand, Audited, Equipped, Reviewing, Untouched,
       Unfinished, StagePc, conductor_vars
  <1>6. Behind'
    BY <1>1, <1>2, <1>3 DEF IInv, Behind
  <1>7. CommitsAreAccounted'
    <2>1. Unaccounted' = Unaccounted
      BY <1>2 DEF Unaccounted
    <2> QED BY <2>1, <1>1, NothingOwed DEF CommitsAreAccounted, conductor_vars
  <1> QED BY <1>4, <1>5, <1>6, <1>7 DEF IInv

LEMMA ImplementerCommitsKeeps == IInv /\ implementer_commits /\ UNCHANGED conductor_vars => IInv'
  <1> SUFFICES ASSUME IInv, implementer_commits, UNCHANGED conductor_vars PROVE IInv'
    OBVIOUS
  <1>1. PICK tree \in {Tree, Tree \ Foreign, Tree \cup Foreign \cup OnDisk} :
            log' = Append(log, CommitOf("implementer", run.n, tree))
    BY DEF implementer_commits, Commits
  <1>2. tree \in SUBSET Path /\ run.n \in Nat
    BY <1>1, TreeType, ForeignAssumption DEF IInv, TypeOK
  <1>3. /\ log' \in Seq(Commit) /\ HEAD' = HEAD + 1 /\ HEAD \in Nat
        /\ DOMAIN log' = DOMAIN log \cup {HEAD + 1}
        /\ \A i \in DOMAIN log : log'[i] = log[i]
        /\ log'[HEAD + 1].who = "implementer"
    <2>1. CommitOf("implementer", run.n, tree).who = "implementer"
      BY DEF CommitOf
    <2> QED BY <1>1, <1>2, <2>1, AppendType
  <1>4. /\ UNCHANGED <<state, plan, docs, anchor, ran, package, run, conductor_vars>>
        /\ run.pc = "implement" /\ state.stage = "EXECUTE"
    BY StageIs DEF implementer_commits, At
  <1>5. TypeOK'
    BY <1>3, <1>4 DEF IInv, TypeOK, conductor_vars
  <1>6. PcFits' /\ Planned' /\ Attached' /\ InHand' /\ Audited' /\ Equipped'
    BY <1>4 DEF IInv, PcFits, Planned, Attached, InHand, Audited, Equipped, Unfinished, conductor_vars
  <1>7. Untouched' /\ Reviewing'
    BY <1>4 DEF Untouched, Reviewing
  <1>8. Behind'
    BY <1>3, <1>4 DEF IInv, Behind, TypeOK
  <1>9. CommitsAreAccounted'
    <2>1. Unaccounted' \subseteq Unaccounted
      BY <1>3 DEF Unaccounted
    <2> QED BY <2>1, <1>4, NothingOwed DEF CommitsAreAccounted, conductor_vars
  <1> QED BY <1>5, <1>6, <1>7, <1>8, <1>9 DEF IInv

\* The reviewer's three answers.
LEMMA ReviewKeeps ==
    IInv /\ (approve_task \/ send_back \/ escalate) /\ UNCHANGED conductor_vars => IInv'
  <1> SUFFICES ASSUME IInv, approve_task \/ send_back \/ escalate, UNCHANGED conductor_vars
               PROVE  IInv'
    OBVIOUS
  <1>1. /\ UNCHANGED <<state, plan, docs, anchor, ran, package, conductor_vars>>
        /\ run.pc = "review" /\ state.stage = "EXECUTE" /\ run \in Conversation /\ Shows(run.base)
    BY StageIs DEF IInv, TypeOK, Conversation, approve_task, send_back, escalate, At
  <1>2. /\ run' \in Conversation /\ run'.pc \in {"scoped", "implement"} /\ run'.base = run.base
        /\ run'.n \in DOMAIN plan
    <2>1. "scoped" \in Pc /\ "implement" \in Pc /\ "BLOCKED" \in TaskStatus /\ run.n \in DOMAIN plan
      BY <1>1 DEF Pc, TaskStatus, IInv, InHand
    <2>2. CASE escalate
      BY <1>1, <2>1, <2>2 DEF escalate, Conversation
    <2> QED BY <1>1, <2>1, <2>2, GoesType DEF approve_task, send_back
  <1>3. /\ log' \in Seq(Commit) /\ HEAD' = HEAD /\ DOMAIN log' = DOMAIN log /\ HEAD \in Nat
        /\ \A i \in DOMAIN log : /\ log'[i].who = log[i].who
                                 /\ log[i].seen => log'[i].seen
    BY <1>1, ShowsType
  <1>4. TypeOK'
    BY <1>1, <1>2, <1>3 DEF IInv, TypeOK, Conversation, conductor_vars
  <1>5. PcFits' /\ Planned' /\ Attached' /\ InHand' /\ Audited' /\ Equipped' /\ Reviewing' /\ Untouched'
    BY <1>1, <1>2 DEF IInv, PcFits, Planned, Attached, InHand, Audited, Equipped, Reviewing, Untouched,
       Unfinished, StagePc, conductor_vars
  <1>6. Behind'
    BY <1>1, <1>2, <1>3 DEF IInv, Behind
  <1>7. CommitsAreAccounted'
    <2>1. Unaccounted' \subseteq Unaccounted
      BY <1>3 DEF Unaccounted
    <2> QED BY <2>1, <1>1, NothingOwed DEF CommitsAreAccounted, conductor_vars
  <1> QED BY <1>4, <1>5, <1>6, <1>7 DEF IInv

LEMMA HeadingsAreLoaded ==
    ASSUME IInv, state.stage \in {"EXECUTE", "REVIEW"}, NEW n \in DOMAIN plan
    PROVE  plan[n] \subseteq DOMAIN state.tasks /\ plan[n] \in SUBSET Story
  <1>1. plan[n] \in ToSet(plan)
    BY DEF ToSet
  <1> QED BY <1>1, NamedHeadings DEF IInv, Planned

LEMMA EndCycleKeeps ==
    ASSUME IInv, end_cycle, UNCHANGED conductor_vars
    PROVE  IInv'
  <1>1. /\ UNCHANGED <<state, plan, docs, log, anchor, package, conductor_vars>>
        /\ run.pc = "scoped" /\ state.stage = "EXECUTE" /\ run \in Conversation /\ run.base <= HEAD
        /\ run.n \in DOMAIN plan
    BY StageIs DEF IInv, TypeOK, Conversation, end_cycle, At, Behind, InHand
  <1>2. /\ run' \in Conversation /\ run'.pc \in {"walk", "record"} /\ run'.base <= HEAD
        /\ run'.pc = "record" => run'.todo \subseteq DOMAIN state.tasks /\ run'.n \in DOMAIN plan
    <2>1. CASE plan[run.n] = {}
      <3>1. run.n + 1 \in Nat /\ 0 <= HEAD
        BY <1>1 DEF IInv, TypeOK, Conversation, HEAD
      <3> QED BY <1>1, <2>1, <3>1, WalksType DEF end_cycle
    <2>2. CASE plan[run.n] # {}
      <3>1. plan[run.n] \in SUBSET Story /\ plan[run.n] \subseteq DOMAIN state.tasks
        BY <1>1, HeadingsAreLoaded
      <3>2. run' = [run EXCEPT !.pc = "record", !.todo = plan[run.n]] /\ "record" \in Pc
        BY <2>2 DEF end_cycle, Pc
      <3> QED BY <1>1, <3>1, <3>2 DEF Conversation
    <2> QED BY <2>1, <2>2
  <1>3. ran' \subseteq DOMAIN plan
    BY <1>1 DEF end_cycle, IInv, TypeOK
  <1>4. TypeOK'
    BY <1>1, <1>2, <1>3 DEF IInv, TypeOK, Conversation, conductor_vars
  <1>5. PcFits' /\ Planned' /\ Attached' /\ InHand' /\ Audited' /\ Equipped' /\ Reviewing' /\ Untouched'
    BY <1>1, <1>2 DEF IInv, PcFits, Planned, Attached, InHand, Audited, Equipped, Reviewing, Untouched,
       Unfinished, StagePc, conductor_vars
  <1>6. Behind' /\ CommitsAreAccounted'
    BY <1>1, <1>2, NothingOwed DEF IInv, Behind, HEAD, CommitsAreAccounted, Unaccounted, conductor_vars
  <1> QED BY <1>4, <1>5, <1>6 DEF IInv

\* A step of EXECUTE that moves tasks.
LEMMA WorkKeeps ==
    ASSUME IInv, run.pc \in {"scan", "record"},
           UNCHANGED <<plan, docs, log, ran, package, conductor_vars>>,
           anchor' \in {anchor, HEAD}, state' \in Sprint, state'.stage = "EXECUTE",
           DOMAIN state'.tasks = DOMAIN state.tasks, Attached',
           run' \in Conversation, run'.pc \in {"scan", "walk", "record"}, InHand',
           run'.base <= HEAD
    PROVE  IInv'
  <1>0. HEAD \in Nat /\ HEAD' = HEAD /\ state.stage = "EXECUTE"
    BY StageIs DEF IInv, TypeOK, HEAD
  <1>1. TypeOK'
    BY <1>0 DEF IInv, TypeOK, conductor_vars, Conversation
  <1>2. Untouched' /\ Planned' /\ PcFits' /\ Audited' /\ Reviewing'
    BY <1>0 DEF IInv, Untouched, Planned, PcFits, StagePc, Audited, Reviewing
  <1>3. Behind'
    BY <1>0 DEF IInv, Behind
  <1>4. Equipped'
    BY <1>0 DEF IInv, Equipped, conductor_vars
  <1>5. CommitsAreAccounted'
    BY NothingOwed DEF conductor_vars, CommitsAreAccounted, Unaccounted
  <1> QED BY <1>1, <1>2, <1>3, <1>4, <1>5 DEF IInv

LEMMA ScanPlanKeeps ==
    ASSUME IInv, NEW t \in Story, scan_plan(t), UNCHANGED conductor_vars
    PROVE  IInv'
  <1>1. /\ UNCHANGED <<plan, docs, log, anchor, ran, package, run, conductor_vars>>
        /\ run.pc = "scan" /\ state.stage = "EXECUTE" /\ run \in Conversation /\ run.base <= HEAD
        /\ state \in Sprint /\ t \in DOMAIN state.tasks /\ state' = WithBlocker(state, t, Option)
    BY StageIs DEF IInv, TypeOK, Conversation, scan_plan, At, Behind, Unfinished
  <1>2. /\ state' \in Sprint /\ state'.stage = "EXECUTE"
        /\ DOMAIN state'.tasks = DOMAIN state.tasks
        /\ DOMAIN state'.blockers = DOMAIN state.blockers \cup {Len(state.blockers) + 1}
        /\ state'.blockers[Len(state.blockers) + 1].task = t
        /\ \A i \in DOMAIN state.blockers : state'.blockers[i] = state.blockers[i]
    <2>1. Option \in SUBSET Option
      OBVIOUS
    <2> QED BY <1>1, <2>1, WithBlockerTasks, WithBlockerBlockers
  <1>3. Attached'
    BY <1>1, <1>2 DEF IInv, Attached
  <1>4. InHand'
    BY <1>1 DEF InHand
  <1> QED BY <1>1, <1>2, <1>3, <1>4, WorkKeeps

LEMMA RecordKeeps ==
    ASSUME IInv, NEW t \in Story, NEW status \in TERMINAL_STATUSES, record(t, status),
           UNCHANGED conductor_vars
    PROVE  IInv'
  <1>1. /\ UNCHANGED <<plan, docs, log, ran, package, conductor_vars>> /\ anchor' \in {anchor, HEAD}
        /\ run.pc = "record" /\ state.stage = "EXECUTE" /\ run \in Conversation /\ run.base <= HEAD
        /\ state \in Sprint /\ t \in DOMAIN state.tasks /\ run.n \in DOMAIN plan
        /\ run.todo \subseteq DOMAIN state.tasks /\ run.n \in Nat /\ HEAD \in Nat
    BY StageIs DEF IInv, TypeOK, Conversation, record, At, Behind, InHand, HEAD
  <1>2. /\ state' \in Sprint /\ state'.stage = "EXECUTE"
        /\ DOMAIN state'.tasks = DOMAIN state.tasks
        /\ Attached'
    <2>1. CASE state' = state
      BY <1>1, <2>1 DEF IInv, Attached
    <2>2. CASE state' = WithBlocker(state, t, Option)
      <3>1. Option \in SUBSET Option
        OBVIOUS
      <3>2. /\ state' \in Sprint /\ state'.stage = "EXECUTE"
            /\ DOMAIN state'.tasks = DOMAIN state.tasks
            /\ DOMAIN state'.blockers = DOMAIN state.blockers \cup {Len(state.blockers) + 1}
            /\ state'.blockers[Len(state.blockers) + 1].task = t
            /\ \A i \in DOMAIN state.blockers : state'.blockers[i] = state.blockers[i]
        BY <1>1, <2>2, <3>1, WithBlockerTasks, WithBlockerBlockers
      <3> QED BY <1>1, <3>2 DEF IInv, Attached
    <2>3. CASE state' = WithStatus(state, t, status)
      BY <1>1, <2>3, WithStatusFields DEF IInv, Attached, TERMINAL_STATUSES, TaskStatus
    <2> QED BY <2>1, <2>2, <2>3 DEF record
  <1>3. /\ run' \in Conversation /\ run'.pc \in {"walk", "record"} /\ run'.base <= HEAD
        /\ InHand'
    <2>1. CASE run.todo = {t}
      <3>1. Walks(run.n + 1) /\ run.n + 1 \in Nat
        BY <1>1, <2>1 DEF record
      <3> QED BY <1>1, <3>1, WalksType DEF InHand
    <2>2. CASE run.todo # {t}
      <3>1. run' = [run EXCEPT !.todo = @ \ {t}]
        BY <2>2 DEF record
      <3>2. run' \in Conversation /\ run'.pc = "record" /\ run'.base = run.base /\ run'.n = run.n
            /\ run'.todo = run.todo \ {t}
        BY <1>1, <3>1 DEF Conversation
      <3> QED BY <1>1, <1>2, <3>2 DEF InHand
    <2> QED BY <2>1, <2>2
  <1> QED BY <1>1, <1>2, <1>3, WorkKeeps

LEMMA CutPackageKeeps == IInv /\ cut_package /\ UNCHANGED conductor_vars => IInv'
  <1> SUFFICES ASSUME IInv, cut_package, UNCHANGED conductor_vars PROVE IInv'
    OBVIOUS
  <1>1. /\ UNCHANGED <<state, plan, docs, log, anchor, ran, conductor_vars>>
        /\ run.pc = "walk" /\ state.stage = "EXECUTE" /\ run \in Conversation
        /\ package' \in Nat /\ HEAD \in Nat
    BY StageIs DEF IInv, TypeOK, Conversation, cut_package, At, HEAD
  <1>2. run' \in Conversation /\ run'.pc = "halt" /\ run'.base = run.base
    <2>1. "halt" \in Pc
      BY DEF Pc
    <2> QED BY <1>1, <2>1, GoesType DEF cut_package
  <1>3. TypeOK'
    BY <1>1, <1>2 DEF IInv, TypeOK, Conversation, conductor_vars
  <1>4. PcFits' /\ Planned' /\ Attached' /\ InHand' /\ Audited' /\ Equipped' /\ Reviewing' /\ Untouched'
    BY <1>1, <1>2 DEF IInv, PcFits, Planned, Attached, InHand, Audited, Equipped, Reviewing, Untouched,
       Unfinished, StagePc, conductor_vars
  <1>5. Behind' /\ CommitsAreAccounted'
    BY <1>1, <1>2, NothingOwed DEF IInv, Behind, HEAD, CommitsAreAccounted, Unaccounted, conductor_vars
  <1> QED BY <1>3, <1>4, <1>5 DEF IInv

LEMMA AdvanceToReviewKeeps == IInv /\ advance_to_review /\ UNCHANGED conductor_vars => IInv'
  <1> SUFFICES ASSUME IInv, advance_to_review, UNCHANGED conductor_vars PROVE IInv'
    OBVIOUS
  <1>1. /\ UNCHANGED <<plan, docs, log, anchor, package, conductor_vars>>
        /\ run.pc = "halt" /\ state.stage = "EXECUTE" /\ state \in Sprint /\ HEAD \in Nat
        /\ ran' = {} /\ Unfinished(state) = {} /\ state' = WithStage(state, "REVIEW")
    BY StageIs DEF IInv, TypeOK, advance_to_review, At, HEAD, MayEnter
  <1>2. run' \in Conversation /\ run'.pc = "stopped" /\ run'.base = 0
    BY StopsType DEF advance_to_review
  <1>3. /\ state' \in Sprint /\ state'.stage = "REVIEW"
        /\ state'.tasks = state.tasks /\ state'.blockers = state.blockers
    BY <1>1, WithStageType DEF WithStage, Sprint, Stage
  <1>4. TypeOK'
    BY <1>1, <1>2, <1>3 DEF IInv, TypeOK, Conversation, conductor_vars
  <1>5. PcFits' /\ InHand' /\ Audited' /\ Equipped' /\ Reviewing' /\ Untouched'
    BY <1>2, <1>3 DEF PcFits, InHand, Audited, Equipped, Reviewing, Untouched
  <1>6. Planned' /\ Attached'
    BY <1>1, <1>3 DEF IInv, Planned, Attached, Unfinished
  <1>7. Behind' /\ CommitsAreAccounted'
    BY <1>1, <1>2, NothingOwed DEF IInv, Behind, HEAD, CommitsAreAccounted, Unaccounted, conductor_vars
  <1> QED BY <1>4, <1>5, <1>6, <1>7 DEF IInv

LEMMA ExecuteKeeps == IInv /\ execute_stage => IInv'
  BY ScanPlanKeeps, WalkStepsKeep, BaseGoesKeeps, ImplementerCommitsKeeps, ReviewKeeps, EndCycleKeeps, RecordKeeps,
     CutPackageKeeps, AdvanceToReviewKeeps DEF execute_stage, DrainNext

----------------------------------------------------------------------------
(* REVIEW. *)

\* review-guard, the artifacts, the question and a refused replan move the run alone.
LEMMA ReviewMovesKeep ==
    ASSUME IInv,
           \/ review_guard \/ artifacts_tracked \/ stop_on_untracked
           \/ (\E named \in SUBSET Story : ask(named))
           \/ (\E shape \in REPLAN_SHAPES : refuse_replan(shape))
    PROVE  IInv'
  <1>1. /\ OnlyRun /\ run \in Conversation /\ run.base <= HEAD /\ HEAD \in Nat
        /\ run.pc \in {"guard", "artifacts", "gate3", "decide"} /\ state.stage = "REVIEW"
    <2>1. run \in Conversation /\ run.base <= HEAD /\ HEAD \in Nat
      BY DEF IInv, TypeOK, Conversation, Behind, HEAD
    <2>2. OnlyRun /\ run.pc \in {"guard", "artifacts", "gate3", "decide"}
      BY DEF review_guard, artifacts_tracked, stop_on_untracked, ask, refuse_replan, Ruling, At
    <2> QED BY <2>1, <2>2, StageIs
  <1>2. CASE Stops
    BY <1>1, <1>2, StopKeeps, NothingOwed
  <1>3. CASE review_guard /\ ~Stops
    <2>1. package = HEAD /\ Goes("artifacts") /\ "artifacts" \in Pc
      BY <1>3 DEF review_guard, Pc
    <2>2. run' \in Conversation /\ run'.pc = "artifacts" /\ run'.base = run.base
      BY <1>1, <2>1, GoesType
    <2>3. \A i \in DOMAIN log : ~(i > HEAD)
      BY DEF IInv, TypeOK, HEAD
    <2>4. Reviewing'
      BY <1>1, <2>1, <2>2, <2>3, NoNumberAssumption DEF Reviewing, OnlyRun, OnlyState
    <2>5. PcFits' /\ InHand' /\ Audited'
      BY <1>1, <2>2 DEF PcFits, InHand, Audited, OnlyRun, StagePc
    <2> QED BY <1>1, <2>2, <2>4, <2>5, StepKeeps
  <1>4. CASE artifacts_tracked
    <2>1. Goes("gate3") /\ "gate3" \in Pc /\ run.pc = "artifacts"
      BY <1>4 DEF artifacts_tracked, Pc, At
    <2>2. run' \in Conversation /\ run'.pc = "gate3" /\ run'.base = run.base
      BY <1>1, <2>1, GoesType
    <2>3. PcFits' /\ InHand' /\ Audited' /\ Reviewing'
      BY <1>1, <2>1, <2>2 DEF IInv, PcFits, InHand, Audited, Reviewing, OnlyRun, OnlyState, StagePc
    <2> QED BY <1>1, <2>2, <2>3, StepKeeps
  <1>5. CASE \E named \in SUBSET Story : ask(named)
    <2>1. PICK named \in SUBSET Story : ask(named)
      BY <1>5
    <2>2. /\ run' = [run EXCEPT !.pc = "decide", !.todo = named, !.answered = TRUE]
          /\ "decide" \in Pc /\ run.pc = "gate3"
      BY <2>1 DEF ask, Pc, At
    <2>3. run' \in Conversation /\ run'.pc = "decide" /\ run'.base = run.base /\ run'.todo = named
      BY <1>1, <2>2 DEF Conversation
    <2>4. named \subseteq DOMAIN state.tasks
      <3>1. \A b \in ToSet(state.blockers) : b.task \in DOMAIN state.tasks
        BY DEF IInv, Attached, ToSet
      <3>2. \A b \in OpenBlockers(state) : b.task \in DOMAIN state.tasks
        BY <3>1 DEF OpenBlockers
      <3> QED BY <2>1, <3>2 DEF ask
    <2>5. PcFits' /\ InHand' /\ Audited' /\ Reviewing'
      BY <1>1, <2>2, <2>3, <2>4
         DEF IInv, PcFits, InHand, Audited, Reviewing, OnlyRun, OnlyState, StagePc
    <2> QED BY <1>1, <2>3, <2>5, StepKeeps
  <1> QED BY <1>2, <1>3, <1>4, <1>5 DEF stop_on_untracked, refuse_replan

LEMMA IndexType == ASSUME IInv PROVE Untracked \in SUBSET Path /\ Index \in SUBSET Path
  <1>1. \A a \in ARTIFACT_KEYS : state.artifacts[a] \in Path \cup {None}
    BY DEF IInv, TypeOK, Sprint
  <1>2. Untracked \in SUBSET Path
    BY <1>1 DEF Untracked, untracked, Recorded
  <1>3. repo_tree \in (SUBSET Path) \cup {None} /\ staged \subseteq Path
    BY DEF IInv, TypeOK
  <1> QED BY <1>2, <1>3, TreeType DEF Index, RepoTree

\* The index is committed to the root's branch or to the one there is.
LEMMA CommitsIndexType ==
    ASSUME IInv, NEW who \in {"conductor", "operator"}, NEW index \in SUBSET Path,
           CommitsIndex(who, index)
    PROVE  /\ repo_tree' \in (SUBSET Path) \cup {None} /\ staged' = {}
           /\ log' \in Seq(Commit) /\ HEAD \in Nat /\ HEAD' \in {HEAD, HEAD + 1}
           /\ DOMAIN log \subseteq DOMAIN log'
           /\ \A i \in DOMAIN log : log'[i] = log[i]
           /\ \A i \in DOMAIN log' \ DOMAIN log : i = HEAD + 1 /\ log'[i].who = who
           /\ RepoTree' = index
  <1>1. repo_tree \in (SUBSET Path) \cup {None} /\ log \in Seq(Commit) /\ HEAD \in Nat /\ staged' = {}
    BY DEF IInv, TypeOK, HEAD, CommitsIndex
  <1>2. CASE Isolated /\ repo_tree # None
    <2>1. repo_tree' = index /\ UNCHANGED log
      BY <1>2 DEF CommitsIndex
    <2>2. repo_tree' # None
      BY <2>1, NoTreeAssumption
    <2> QED BY <1>1, <1>2, <2>1, <2>2 DEF HEAD, RepoTree
  <1>3. CASE ~(Isolated /\ repo_tree # None)
    <2>1. log' = Append(log, CommitOf(who, 0, index)) /\ UNCHANGED repo_tree
      BY <1>3 DEF CommitsIndex
    <2>2. 0 \in Nat /\ CommitOf(who, 0, index).who = who /\ CommitOf(who, 0, index).tree = index
      BY DEF CommitOf
    <2>3. /\ log' \in Seq(Commit) /\ HEAD' = HEAD + 1
          /\ DOMAIN log' = DOMAIN log \cup {HEAD + 1}
          /\ \A i \in DOMAIN log : log'[i] = log[i]
          /\ log'[HEAD + 1] = CommitOf(who, 0, index)
      BY <2>1, <2>2, AppendType
    <2>4. RepoTree' = index
      BY <1>1, <1>3, <2>1, <2>2, <2>3 DEF RepoTree, Tree, TreeAt
    <2> QED BY <1>1, <2>1, <2>2, <2>3, <2>4
  <1> QED BY <1>2, <1>3

\* What is staged is not committed yet.
LEMMA StageArtifactsKeeps ==
    ASSUME IInv, NEW attested, stage_artifacts(attested)
    PROVE  IInv'
  <1>1. /\ UNCHANGED <<state, plan, docs, log, anchor, ran, package,
                       repo_tree, decided, installed, lost, deaths, edits>>
        /\ run' = [run EXCEPT !.pc = "commit", !.base = HEAD] /\ run.pc = "artifacts"
        /\ staged' = staged \cup Untracked
    BY DEF stage_artifacts, At
  <1>2. run \in Conversation /\ HEAD \in Nat /\ state.stage = "REVIEW"
    BY <1>1, StageIs DEF IInv, TypeOK, Conversation, HEAD
  <1>3. run' \in Conversation /\ run'.pc = "commit" /\ run'.base = HEAD
    BY <1>1, <1>2 DEF Conversation, Pc
  <1>4. staged' \subseteq Path
    BY <1>1, IndexType DEF IInv, TypeOK
  <1>5. TypeOK'
    BY <1>1, <1>3, <1>4 DEF IInv, TypeOK, Conversation
  <1>6. PcFits' /\ Planned' /\ Attached' /\ InHand' /\ Audited' /\ Equipped' /\ Untouched'
    BY <1>1, <1>2, <1>3 DEF IInv, PcFits, Planned, Attached, InHand, Audited, Equipped, Untouched,
       Unfinished, StagePc
  <1>7. Behind' /\ Reviewing'
    BY <1>1, <1>2, <1>3 DEF IInv, Behind, HEAD, Reviewing
  <1>8. CommitsAreAccounted'
    BY <1>1, NothingOwed DEF CommitsAreAccounted, Unaccounted
  <1> QED BY <1>5, <1>6, <1>7, <1>8 DEF IInv

\* The two commits of the conductor's own, on record before anything else is done.
LEMMA ConductorCommitKeeps ==
    ASSUME IInv, run.pc \in {"commit", "generative-writeback"}, NEW base \in Nat, base <= HEAD,
           run' = [run EXCEPT !.pc = "action", !.base = base], CommitsIndex("conductor", Index),
           UNCHANGED <<state, plan, docs, anchor, ran, package,
                       decided, installed, lost, deaths, edits>>
    PROVE  IInv'
  <1>0. /\ repo_tree' \in (SUBSET Path) \cup {None} /\ staged' = {}
        /\ log' \in Seq(Commit) /\ HEAD \in Nat /\ HEAD' \in {HEAD, HEAD + 1}
        /\ DOMAIN log \subseteq DOMAIN log'
        /\ \A i \in DOMAIN log : log'[i] = log[i]
        /\ \A i \in DOMAIN log' \ DOMAIN log : i = HEAD + 1 /\ log'[i].who = "conductor"
    BY IndexType, CommitsIndexType
  <1>1. run \in Conversation /\ state.stage = "REVIEW"
    BY StageIs DEF IInv, TypeOK, Conversation
  <1>2. run' \in Conversation /\ run'.pc = "action" /\ run'.base = base
    BY <1>1 DEF Conversation, Pc
  <1>3. TypeOK'
    BY <1>0, <1>2 DEF IInv, TypeOK, Conversation
  <1>4. PcFits' /\ Planned' /\ Attached' /\ InHand' /\ Audited' /\ Equipped' /\ Untouched'
    BY <1>1, <1>2 DEF IInv, PcFits, Planned, Attached, InHand, Audited, Equipped, Untouched,
       Unfinished, StagePc
  <1>5. Behind'
    <2>1. run'.base <= HEAD'
      BY <1>0, <1>2
    <2>2. anchor # None => anchor <= HEAD'
      BY <1>0 DEF IInv, Behind, TypeOK
    <2> QED BY <2>1, <2>2 DEF Behind
  <1>6. Reviewing'
    BY <1>0, <1>2 DEF IInv, Reviewing
  <1>7. CommitsAreAccounted'
    <2> SUFFICES ASSUME NEW i \in Unaccounted', i \notin lost PROVE i > base
      BY <1>2 DEF CommitsAreAccounted
    <2>1. CASE i \in DOMAIN log
      <3>1. i \in Unaccounted
        BY <1>0, <2>1 DEF Unaccounted
      <3> QED BY <3>1, NothingOwed
    <2>2. CASE i \notin DOMAIN log
      BY <1>0, <2>2 DEF Unaccounted
    <2> QED BY <2>1, <2>2
  <1> QED BY <1>3, <1>4, <1>5, <1>6, <1>7 DEF IInv

\* commit_artifacts has its BASE from the staging, write_back takes one.
LEMMA ConductorCommitsKeep == IInv /\ (commit_artifacts \/ write_back) => IInv'
  <1> SUFFICES ASSUME IInv, commit_artifacts \/ write_back PROVE IInv'
    OBVIOUS
  <1>1. HEAD \in Nat /\ HEAD <= HEAD /\ run \in Conversation /\ run.base \in Nat /\ run.base <= HEAD
    BY DEF IInv, TypeOK, HEAD, Conversation, Behind
  <1>2. CASE commit_artifacts
    <2>1. run' = [run EXCEPT !.pc = "action", !.base = run.base]
      BY <1>1, <1>2 DEF commit_artifacts, Goes, Conversation
    <2> QED BY <1>1, <1>2, <2>1, ConductorCommitKeeps DEF commit_artifacts, At
  <1>3. CASE write_back
    BY <1>1, <1>3, ConductorCommitKeeps DEF write_back, At
  <1> QED BY <1>2, <1>3

LEMMA RecordActionKeeps == IInv /\ record_action => IInv'
  <1> SUFFICES ASSUME IInv, record_action PROVE IInv'
    OBVIOUS
  <1>1. /\ UNCHANGED <<state, plan, docs, anchor, ran, package, conductor_vars>>
        /\ run.pc = "action" /\ state.stage = "REVIEW" /\ run \in Conversation /\ Shows(run.base)
        /\ run.base <= HEAD
    BY StageIs DEF IInv, TypeOK, Conversation, record_action, At, Behind
  <1>2. run' \in Conversation /\ run'.pc \in {"gate3", "stopped"} /\ run'.base <= HEAD
    <2>1. "gate3" \in Pc /\ 0 <= HEAD
      BY DEF Pc, IInv, TypeOK, HEAD
    <2> QED BY <1>1, <2>1, GoesType, StopsType DEF record_action
  <1>3. /\ log' \in Seq(Commit) /\ HEAD' = HEAD /\ DOMAIN log' = DOMAIN log /\ HEAD \in Nat
        /\ \A i \in DOMAIN log : /\ log'[i].who = log[i].who
                                 /\ log'[i].seen = (log[i].seen \/ i > run.base)
    BY <1>1, ShowsType
  <1>4. TypeOK'
    BY <1>1, <1>2, <1>3 DEF IInv, TypeOK, Conversation, conductor_vars
  <1>5. PcFits' /\ Planned' /\ Attached' /\ InHand' /\ Audited' /\ Equipped' /\ Untouched'
    BY <1>1, <1>2 DEF IInv, PcFits, Planned, Attached, InHand, Audited, Equipped, Untouched,
       Unfinished, StagePc, conductor_vars
  <1>6. Behind' /\ Reviewing'
    BY <1>1, <1>2, <1>3 DEF IInv, Behind, Reviewing
  <1>7. CommitsAreAccounted'
    BY <1>1, <1>3 DEF IInv, CommitsAreAccounted, Unaccounted, conductor_vars
  <1> QED BY <1>4, <1>5, <1>6, <1>7 DEF IInv

LEMMA DecideKeeps == ASSUME IInv, NEW t \in Story, decide(t) PROVE IInv'
  <1>1. /\ UNCHANGED <<state, plan, docs, log, anchor, ran, package,
                       repo_tree, staged, installed, lost, deaths, edits>>
        /\ run.pc = "decide" /\ state.stage = "REVIEW" /\ run \in Conversation /\ run.base <= HEAD
        /\ t \in run.todo /\ run.todo \subseteq DOMAIN state.tasks /\ 0 <= HEAD
    BY StageIs DEF IInv, TypeOK, Conversation, decide, At, Behind, InHand, HEAD
  <1>2. /\ run' \in Conversation /\ run'.pc \in {"decide", "stopped"} /\ run'.base <= HEAD
        /\ run'.todo \subseteq run.todo
    <2>1. CASE t \in decided
      BY <1>1, <2>1, StopsType DEF decide
    <2>2. CASE t \notin decided
      <3>1. run' = [run EXCEPT !.todo = @ \ {t}]
        BY <2>2 DEF decide
      <3> QED BY <1>1, <3>1 DEF Conversation
    <2> QED BY <2>1, <2>2
  <1>3. decided' \subseteq DOMAIN state.tasks
    BY <1>1 DEF IInv, TypeOK, decide
  <1>4. TypeOK'
    BY <1>1, <1>2, <1>3 DEF IInv, TypeOK, Conversation
  <1>5. PcFits' /\ Planned' /\ Attached' /\ InHand' /\ Audited' /\ Equipped' /\ Untouched'
    BY <1>1, <1>2 DEF IInv, PcFits, Planned, Attached, InHand, Audited, Equipped, Untouched,
       Unfinished, StagePc
  <1>6. Behind' /\ Reviewing' /\ CommitsAreAccounted'
    BY <1>1, <1>2, NothingOwed
       DEF IInv, Behind, HEAD, Reviewing, CommitsAreAccounted, Unaccounted
  <1> QED BY <1>4, <1>5, <1>6 DEF IInv

\* The ruling.
LEMMA RuleKeeps ==
    ASSUME IInv, approve \/ \E shape \in REPLAN_SHAPES : replan(shape)
    PROVE  IInv'
  <1>1. PICK d \in {"approved", "replan"} : state' = WithGate(state, "G3", d)
    BY DEF approve, replan
  <1>2. /\ OnlyState /\ run.pc = "decide" /\ state \in Sprint /\ run \in Conversation
        /\ run.base <= HEAD /\ 0 <= HEAD /\ state.stage = "REVIEW"
    BY StageIs DEF approve, replan, Ruling, At, IInv, TypeOK, Conversation, Behind, HEAD
  <1>3. /\ state' \in Sprint /\ state'.stage = state.stage
        /\ state'.tasks = state.tasks /\ state'.blockers = state.blockers
    BY <1>1, <1>2, WithGateType DEF WithGate, Sprint, GATE_KEYS, GATE_DECISIONS
  <1>4. /\ run' \in Conversation /\ run'.base <= HEAD
        /\ run'.pc \in {"stopped", "generative-writeback", "park-at-boundary"}
    <2>1. "generative-writeback" \in Pc /\ "park-at-boundary" \in Pc
      BY DEF Pc
    <2>2. CASE Stops
      BY <1>2, <2>2, StopsType
    <2>3. CASE ~Stops
      <3>1. Goes("generative-writeback") \/ Goes("park-at-boundary")
        BY <2>3 DEF approve, replan, AMENDING_SHAPES
      <3> QED BY <1>2, <2>1, <3>1, GoesType
    <2> QED BY <2>2, <2>3
  <1>5. PcFits' /\ InHand' /\ Audited'
    BY <1>2, <1>3, <1>4 DEF PcFits, InHand, Audited, StagePc
  <1>6. Reviewing'
    BY <1>2, <1>4 DEF IInv, Reviewing, OnlyState
  <1> QED BY <1>2, <1>3, <1>4, <1>5, <1>6, FilingKeeps DEF OnlyState

LEMMA ParkKeeps == ASSUME IInv, NEW t \in Story, park(t) PROVE IInv'
  <1>1. /\ UNCHANGED <<plan, docs, log, ran, package, conductor_vars>> /\ anchor' = HEAD
        /\ run.pc = "park-at-boundary" /\ state.stage = "REVIEW" /\ state \in Sprint
        /\ HEAD \in Nat /\ state' = WithStatus(state, t, "PARKED") /\ "PARKED" \in TaskStatus
    BY StageIs DEF IInv, TypeOK, park, At, HEAD, TaskStatus
  <1>2. run' \in Conversation /\ run'.pc = "stopped" /\ run'.base = 0
    BY StopsType DEF park
  <1>3. /\ state' \in Sprint /\ state'.stage = "REVIEW" /\ DOMAIN state'.tasks = DOMAIN state.tasks
        /\ state'.blockers = state.blockers
        /\ \A u \in DOMAIN state.tasks :
              state'.tasks[u] = IF u = t THEN "PARKED" ELSE state.tasks[u]
    BY <1>1, WithStatusFields
  <1>4. TypeOK'
    BY <1>1, <1>2, <1>3 DEF IInv, TypeOK, conductor_vars, Conversation
  <1>5. PcFits' /\ InHand' /\ Audited' /\ Equipped' /\ Reviewing' /\ Untouched'
    BY <1>2, <1>3 DEF PcFits, InHand, Audited, Equipped, Reviewing, Untouched
  <1>6. Planned' /\ Attached'
    BY <1>1, <1>3 DEF IInv, Planned, Attached, Unfinished, TERMINAL_STATUSES
  <1>7. Behind' /\ CommitsAreAccounted'
    BY <1>1, <1>2, NothingOwed DEF IInv, Behind, HEAD, CommitsAreAccounted, Unaccounted, conductor_vars
  <1> QED BY <1>4, <1>5, <1>6, <1>7 DEF IInv

----------------------------------------------------------------------------
(* Runs that die, and the operator between the runs. *)

LEMMA DieKeeps == IInv /\ die => IInv'
  <1> SUFFICES ASSUME IInv, die PROVE IInv'
    OBVIOUS
  <1>1. /\ UNCHANGED <<state, plan, docs, anchor, ran, package,
                       repo_tree, staged, decided, installed, edits>>
        /\ deaths' = deaths + 1 /\ deaths < MaxDeaths /\ lost' = lost \cup Unaccounted
    BY DEF die
  <1>0. /\ log' \in Seq(Commit) /\ HEAD' = HEAD /\ DOMAIN log' = DOMAIN log
        /\ \A i \in DOMAIN log : log'[i].who = log[i].who /\ log'[i].seen = log[i].seen
    BY LosesType DEF die
  <1>2. run' \in Conversation /\ run'.pc = "stopped" /\ run'.base = 0
    BY StopsType DEF die
  <1>3. lost' \subseteq DOMAIN log /\ deaths' \in 0..MaxDeaths /\ 0 <= HEAD
    BY <1>1, BoundAssumption DEF IInv, TypeOK, Unaccounted, HEAD
  <1>4. TypeOK'
    BY <1>0, <1>1, <1>2, <1>3 DEF IInv, TypeOK, Conversation
  <1>5. PcFits' /\ InHand' /\ Audited' /\ Equipped' /\ Reviewing'
    BY <1>2 DEF PcFits, InHand, Audited, Equipped, Reviewing
  <1>6. Planned' /\ Attached' /\ Untouched'
    BY <1>0, <1>1 DEF IInv, Planned, Attached, Untouched, Unfinished, NoneStarted
  <1>7. Behind'
    BY <1>0, <1>1, <1>2, <1>3 DEF IInv, Behind
  <1>8. CommitsAreAccounted'
    <2>1. Unaccounted' = Unaccounted
      BY <1>0 DEF Unaccounted
    <2> QED BY <1>1, <2>1 DEF CommitsAreAccounted
  <1> QED BY <1>4, <1>5, <1>6, <1>7, <1>8 DEF IInv

\* Nothing that holds while no run is going on is about the documents or the skills.
LEMMA OperatorKeeps ==
    ASSUME IInv, run.pc = "stopped",
           UNCHANGED <<state, plan, log, anchor, ran, run, repo_tree, staged, decided, lost, deaths>>,
           docs' \in [Document -> {"missing", "flawed", "holed", "sound"}],
           package' \in Nat \cup {None}, installed' \subseteq Skill, edits' \in 0..MaxEdits
    PROVE  IInv'
  <1>1. TypeOK'
    BY DEF IInv, TypeOK
  <1>2. PcFits' /\ InHand' /\ Audited' /\ Equipped' /\ Reviewing'
    BY DEF PcFits, InHand, Audited, Equipped, Reviewing
  <1>3. Planned' /\ Attached' /\ Untouched'
    BY DEF IInv, Planned, Attached, Untouched, Unfinished, NoneStarted
  <1>4. Behind' /\ CommitsAreAccounted'
    BY DEF IInv, Behind, HEAD, CommitsAreAccounted, Unaccounted
  <1> QED BY <1>1, <1>2, <1>3, <1>4 DEF IInv

\* A commit of the operator's own.
LEMMA OperatorCommitsKeeps ==
    ASSUME IInv, run.pc = "stopped",
           UNCHANGED <<state, plan, docs, anchor, ran, package, run,
                       decided, installed, lost, deaths>>,
           repo_tree' \in (SUBSET Path) \cup {None}, staged' \subseteq Path, edits' \in 0..MaxEdits,
           log' \in Seq(Commit), HEAD' \in {HEAD, HEAD + 1}, DOMAIN log \subseteq DOMAIN log',
           \A i \in DOMAIN log : log'[i] = log[i],
           \A i \in DOMAIN log' \ DOMAIN log : log'[i].who = "operator"
    PROVE  IInv'
  <1>1. TypeOK'
    BY DEF IInv, TypeOK
  <1>2. PcFits' /\ InHand' /\ Audited' /\ Equipped' /\ Reviewing'
    BY DEF PcFits, InHand, Audited, Equipped, Reviewing
  <1>3. Planned' /\ Attached' /\ Untouched'
    BY DEF IInv, Planned, Attached, Untouched, Unfinished, NoneStarted
  <1>4. Behind'
    <2>1. HEAD \in Nat /\ run.base \in Nat /\ (anchor # None => anchor \in Nat)
      BY DEF IInv, TypeOK, HEAD
    <2> QED BY <2>1 DEF IInv, Behind
  <1>5. CommitsAreAccounted'
    <2>1. Unaccounted' \subseteq Unaccounted
      BY DEF Unaccounted
    <2> QED BY <2>1, NothingOwed DEF CommitsAreAccounted
  <1> QED BY <1>1, <1>2, <1>3, <1>4, <1>5 DEF IInv

LEMMA BetweenRunsKeeps ==
    ASSUME IInv,
           \/ \E p \in Document : \/ repair(p)
                                  \/ \E quality \in ({"missing"} \cup QualityOf(p)) \ {"sound"} :
                                         edit(p, quality)
           \/ \E skill \in Skill : install(skill)
           \/ commit_out_of_band \/ track \/ recut
    PROVE  IInv'
  <1>0. /\ docs \in [Document -> {"missing", "flawed", "holed", "sound"}] /\ package \in Nat \cup {None}
        /\ installed \subseteq Skill /\ edits \in 0..MaxEdits /\ HEAD \in Nat
        /\ repo_tree \in (SUBSET Path) \cup {None}
    BY DEF IInv, TypeOK, HEAD
  <1>1. ASSUME NEW p \in Document, repair(p) PROVE IInv'
    <2>1. docs' \in [Document -> {"missing", "flawed", "holed", "sound"}]
      BY <1>0, <1>1 DEF repair
    <2> QED BY <1>0, <1>1, <2>1, OperatorKeeps DEF repair, Between, At, conductor_vars
  <1>2. ASSUME NEW p \in Document, NEW quality \in ({"missing"} \cup QualityOf(p)) \ {"sound"},
               edit(p, quality)
        PROVE  IInv'
    <2>1. docs' \in [Document -> {"missing", "flawed", "holed", "sound"}] /\ edits' \in 0..MaxEdits
      BY <1>0, <1>2, BoundAssumption DEF edit, QualityOf
    <2> QED BY <1>0, <1>2, <2>1, OperatorKeeps DEF edit, Between, At
  <1>3. ASSUME NEW skill \in Skill, install(skill) PROVE IInv'
    <2>1. installed' \subseteq Skill
      BY <1>0, <1>3 DEF install
    <2> QED BY <1>0, <1>3, <2>1, OperatorKeeps DEF install, Between, At, drain_vars
  <1>4. CASE recut
    BY <1>0, <1>4, OperatorKeeps DEF recut, Between, At, conductor_vars
  <1>5. CASE commit_out_of_band
    <2>1. PICK tree \in {Tree, Tree \ Foreign}, swept \in {{}, IF Isolated THEN {} ELSE staged} :
              log' = Append(log, CommitOf("operator", 0, tree \cup swept)) /\ staged' = staged \ swept
      BY <1>5 DEF commit_out_of_band, Commits
    <2>2. staged \subseteq Path
      BY DEF IInv, TypeOK
    <2>3. (tree \cup swept) \in SUBSET Path /\ 0 \in Nat /\ staged' \subseteq Path
          /\ CommitOf("operator", 0, tree \cup swept).who = "operator"
      BY <2>1, <2>2, TreeType DEF CommitOf
    <2>4. /\ log' \in Seq(Commit) /\ HEAD' = HEAD + 1
          /\ DOMAIN log' = DOMAIN log \cup {HEAD + 1}
          /\ \A i \in DOMAIN log : log'[i] = log[i]
          /\ log'[HEAD + 1].who = "operator"
      BY <2>1, <2>3, AppendType
    <2>5. edits' \in 0..MaxEdits
      BY <1>0, <1>5, BoundAssumption DEF commit_out_of_band
    <2> QED BY <1>0, <1>5, <2>3, <2>4, <2>5, OperatorCommitsKeeps DEF commit_out_of_band, Between, At
  <1>6. CASE track
    <2>1. Index \cup Untracked \in SUBSET Path /\ CommitsIndex("operator", Index \cup Untracked)
      BY <1>6, IndexType DEF track
    <2>2. /\ repo_tree' \in (SUBSET Path) \cup {None} /\ staged' \subseteq Path
          /\ log' \in Seq(Commit) /\ HEAD' \in {HEAD, HEAD + 1}
          /\ DOMAIN log \subseteq DOMAIN log'
          /\ \A i \in DOMAIN log : log'[i] = log[i]
          /\ \A i \in DOMAIN log' \ DOMAIN log : log'[i].who = "operator"
      BY <2>1, CommitsIndexType
    <2> QED BY <1>0, <1>6, <2>2, OperatorCommitsKeeps DEF track, Between, At
  <1> QED BY <1>1, <1>2, <1>3, <1>4, <1>5, <1>6

----------------------------------------------------------------------------
LEMMA InitEstablishes == Init => IInv
  <1> SUFFICES ASSUME Init PROVE IInv
    OBVIOUS
  <1>1. PICK id \in SprintId : state = NewSprint(id, "SCOPE", TRUE, None)
    BY DEF Init
  <1>2. /\ state \in Sprint /\ state.stage = "SCOPE" /\ DOMAIN state.tasks = {}
        /\ state.blockers = <<>>
    <2>1. state \in Sprint
      BY <1>1, NewSprintType DEF ENTRY_STAGES
    <2> QED BY <1>1, <2>1 DEF NewSprint
  <1>3. log = <<>> /\ DOMAIN log = {} /\ HEAD = 0 /\ log \in Seq(Commit)
    BY DEF Init, HEAD
  <1>4. run = Stopped /\ run \in Conversation /\ run.pc = "stopped" /\ run.base = 0
    BY StoppedType DEF Init, Stopped
  <1>5. TypeOK
    <2>1. docs \in [Document -> {"missing", "flawed", "holed", "sound"}]
      BY DEF Init
    <2>2. anchor \in Nat \cup {None} /\ package \in Nat \cup {None} /\ ran \subseteq DOMAIN plan
          /\ repo_tree \in (SUBSET Path) \cup {None} /\ staged \subseteq Path
          /\ decided \subseteq DOMAIN state.tasks
          /\ installed \subseteq Skill /\ lost \subseteq DOMAIN log
          /\ deaths \in 0..MaxDeaths /\ edits \in 0..MaxEdits /\ plan \in Plans
      BY BoundAssumption DEF Init
    <2> QED BY <1>2, <1>3, <1>4, <2>1, <2>2 DEF TypeOK, Conversation
  <1>6. PcFits /\ InHand /\ Audited /\ Equipped /\ Reviewing
    BY <1>4 DEF PcFits, InHand, Audited, Equipped, Reviewing
  <1>7. Untouched /\ Planned /\ Attached
    BY <1>2, <1>3 DEF Init, Untouched, Planned, Attached, NoneStarted
  <1>8. Behind /\ CommitsAreAccounted
    BY <1>3, <1>4 DEF Init, Behind, CommitsAreAccounted, Unaccounted
  <1> QED BY <1>5, <1>6, <1>7, <1>8 DEF IInv

LEMMA NextKeeps == IInv /\ [Next]_vars => IInv'
  <1> SUFFICES ASSUME IInv, [Next]_vars PROVE IInv'
    OBVIOUS
  <1>1. CASE UNCHANGED vars
    BY <1>1 DEF vars, drain_vars, conductor_vars, IInv, TypeOK, PcFits, Untouched, Planned, Attached,
       InHand, Audited, Equipped, Behind, Reviewing, CommitsAreAccounted, Unaccounted, NoneStarted,
       Unfinished, HEAD
  <1>2. CASE Next
    BY <1>2, InvokeKeeps, DieKeeps, AuditsKeep, DispatchScopeKeeps, RecordArtifactKeeps,
       RefusalsKeep, GateRejectedKeeps, GateApprovedKeeps, CrossKeeps, DispatchPlanKeeps,
       PlannerCommitsKeeps, PlannerWritesKeeps, StopOnCommitsKeeps, HeadUnmovedKeeps, LoadTasksKeeps,
       EnterExecuteKeeps, ExecuteKeeps, ReviewMovesKeep, RecordActionKeeps, StageArtifactsKeeps,
       ConductorCommitsKeep, DecideKeeps, ParkKeeps, RuleKeeps, BetweenRunsKeeps
       DEF Next, Runs, Attended
  <1> QED BY <1>1, <1>2

----------------------------------------------------------------------------
(* The theorems. *)

THEOREM Invariance == Spec => []IInv
  <1> QED BY InitEstablishes, NextKeeps, PTL DEF Spec

\* The repository, state.json and the conversation keep their shape through every run.
THEOREM TypeCorrect == Spec => []TypeOK
  <1>1. IInv => TypeOK
    BY DEF IInv
  <1> QED BY <1>1, Invariance, PTL

\* A run dispatches a planner or an implementer only with the skills of that stage, at
\* whichever stage it started.
THEOREM NeverImprovises == Spec => []NoImprovising
  <1>1. IInv => NoImprovising
    <2> SUFFICES ASSUME IInv PROVE NoImprovising
      OBVIOUS
    <2>1. /\ STAGE_SKILLS.PLAN \subseteq required_skills("PLAN")
          /\ STAGE_SKILLS.EXECUTE \subseteq required_skills("EXECUTE")
      BY DEF required_skills, StageIndex, Stage
    <2>2. At("planning") => STAGE_SKILLS.PLAN \subseteq installed
      BY <2>1, StageIs DEF At, IInv, Equipped
    <2>3. run.pc \in {"scan", "walk", "implement", "review"} => STAGE_SKILLS.EXECUTE \subseteq installed
      BY <2>1, StageIs DEF IInv, Equipped
    <2> QED BY <2>2, <2>3 DEF NoImprovising
  <1> QED BY <1>1, Invariance, PTL

\* Every planner commit is told and every commit of the conductor's is on record before the
\* run does anything else, or the run died over it.
THEOREM AlwaysAccounted == Spec => []CommitsAreAccounted
  <1>1. IInv => CommitsAreAccounted
    BY DEF IInv
  <1> QED BY <1>1, Invariance, PTL

\* The steps that write state.json.
LEMMA Writers ==
    ASSUME Next, state' # state
    PROVE  \/ record_doc \/ audit_plan \/ load_tasks \/ cross \/ approve
           \/ \E gate \in {"G1", "G2"} : gate_rejected(gate) \/ gate_approved(gate)
           \/ \E shape \in REPLAN_SHAPES : replan(shape)
           \/ \E t \in Story : park(t) \/ scan_plan(t)
           \/ \E t \in Story, status \in TERMINAL_STATUSES : record(t, status)
           \/ advance_to_review
  <1>1. CASE execute_stage
    BY <1>1 DEF execute_stage, DrainNext, start_drain, skip_heading, block_half_done, dispatch,
       implementer_commits, report_done, report_blocked, report_needs_context, approve_task,
       send_back, escalate, stop_on_foreign, end_cycle, cut_package
  <1>2. CASE ~execute_stage
    BY <1>2 DEF Next, Runs, Attended, invoke, die, scope_resumes, audit_doc, dispatch_scope, gate_unanswered,
       plan_resumes, plan_without_doc, dispatch_plan, planner_commits, planner_writes,
       stop_on_commits, head_unmoved, enter_execute, review_guard, artifacts_tracked,
       stop_on_untracked, record_action, stage_artifacts, commit_artifacts, commit_refused,
       load_refused, ask, decide, write_back, refuse_replan, repair, edit, install, commit_out_of_band, track, recut, OnlyRun, drain_vars
  <1> QED BY <1>1, <1>2

\* The stage moves at a crossing and nowhere else, and Gate 3 is ruled on by its two answers.
LEMMA StageMoves == ASSUME IInv, Next, state'.stage # state.stage PROVE cross \/ advance_to_review
  <1>1. state \in Sprint
    BY DEF IInv, TypeOK
  <1>2. \A t : WithStatus(state, t, "PARKED").stage = state.stage
    BY <1>1 DEF WithStatus, Sprint
  <1>3. \A t, status : /\ WithStatus(state, t, status).stage = state.stage
                       /\ WithBlocker(state, t, Option).stage = state.stage
    BY <1>1 DEF WithStatus, WithBlocker, Sprint
  <1>4. \A g, d, a, p, S : /\ WithGate(state, g, d).stage = state.stage
                           /\ WithArtifact(state, a, p).stage = state.stage
                           /\ WithTasks(state, S).stage = state.stage
    BY <1>1 DEF WithGate, WithArtifact, WithTasks, Sprint
  <1> QED BY <1>2, <1>3, <1>4, Writers DEF record_doc, audit_plan, load_tasks, approve, gate_rejected,
          gate_approved, replan, park, scan_plan, record

LEMMA GatesMove ==
    ASSUME IInv, Next, state'.gates["G3"] # state.gates["G3"]
    PROVE  approve \/ \E shape \in REPLAN_SHAPES : replan(shape)
  <1>1. state \in Sprint
    BY DEF IInv, TypeOK
  <1>2. \A t, status : /\ WithStatus(state, t, status).gates = state.gates
                       /\ WithBlocker(state, t, Option).gates = state.gates
    BY <1>1 DEF WithStatus, WithBlocker, Sprint
  <1>3. \A a, p, S, to : /\ WithArtifact(state, a, p).gates = state.gates
                         /\ WithTasks(state, S).gates = state.gates
                         /\ WithStage(state, to).gates = state.gates
    BY <1>1 DEF WithArtifact, WithTasks, WithStage, Sprint
  <1>4. \A d : \A g \in {"G1", "G2"} : WithGate(state, g, d).gates["G3"] = state.gates["G3"]
    BY <1>1 DEF WithGate, Sprint, GATE_KEYS
  <1> QED BY <1>2, <1>3, <1>4, Writers DEF record_doc, audit_plan, load_tasks, cross, gate_rejected,
          gate_approved, park, scan_plan, record, advance_to_review

\* PLAN is entered over a doc that passes its audit, EXECUTE over a plan that passes it and
\* covers the stories, whatever was approved, edited or left half done before.
THEOREM CrossesOnSound == Spec => CrossedOnSound
  <1>1. IInv /\ [Next]_vars =>
            [/\ state.stage = "SCOPE" /\ state'.stage = "PLAN" => docs[SprintDoc] = "sound"
             /\ state.stage = "PLAN" /\ state'.stage = "EXECUTE" =>
                    docs[DevPlan] = "sound" /\ DOMAIN state.tasks = UNION ToSet(plan)]_vars
    <2> SUFFICES ASSUME IInv, Next, state'.stage # state.stage
                 PROVE  /\ state.stage = "SCOPE" /\ state'.stage = "PLAN" => docs[SprintDoc] = "sound"
                        /\ state.stage = "PLAN" /\ state'.stage = "EXECUTE" =>
                              docs[DevPlan] = "sound" /\ DOMAIN state.tasks = UNION ToSet(plan)
      OBVIOUS
    <2>1. run.pc = "cross" \/ state.stage = "EXECUTE"
      BY StageMoves, StageIs DEF cross, advance_to_review, At
    <2> QED BY <2>1 DEF IInv, Audited
  <1> QED BY <1>1, Invariance, PTL DEF Spec, CrossedOnSound

\* The branch that is ruled on is the one the reviewers were handed, but for the conductor's
\* own commit of the documents.
THEOREM RulesOnReviewed == Spec => RuledOnReviewed
  <1>1. IInv /\ [Next]_vars =>
            [RulesNow => /\ package # None
                         /\ \A i \in DOMAIN log : i > package => log[i].who = "conductor"]_vars
    <2> SUFFICES ASSUME IInv, Next, RulesNow
                 PROVE  /\ package # None
                        /\ \A i \in DOMAIN log : i > package => log[i].who = "conductor"
      OBVIOUS
    <2>1. run.pc = "decide"
      BY GatesMove DEF RulesNow, approve, replan, Ruling, At
    <2> QED BY <2>1 DEF IInv, Reviewing
  <1> QED BY <1>1, Invariance, PTL DEF Spec, RuledOnReviewed

----------------------------------------------------------------------------
(* The documents at the ruling: this run may have committed them, found    *)
(* them committed, or found them staged by a run that got no further.      *)

AtRuling == {"commit", "action", "gate3", "decide", "generative-writeback"}

\* The steps a run comes to its ruling by.
LEMMA TowardsRuling ==
    ASSUME IInv, Next, run'.pc \in AtRuling
    PROVE  \/ artifacts_tracked \/ commit_artifacts \/ record_action \/ write_back
           \/ \E attested \in Attests : stage_artifacts(attested)
           \/ \E named \in SUBSET Story : ask(named)
           \/ \E t \in Story : decide(t)
           \/ \E shape \in REPLAN_SHAPES : replan(shape)
  <1>0. run \in Conversation /\ state.stage \in Stage
    BY DEF IInv, TypeOK, Conversation, Sprint
  <1>1. \A pc : [run EXCEPT !.pc = pc].pc = pc
    BY <1>0 DEF Conversation
  <1>2. ~Stops /\ \A n : ~Walks(n)
    BY <1>0, StopsType DEF Walks, AtRuling, Conversation
  <1>3. \A pc : Goes(pc) => pc \in AtRuling
    BY <1>1 DEF Goes
  <1>4. ~execute_stage
    <2> SUFFICES ASSUME execute_stage PROVE FALSE
      OBVIOUS
    <2>1. run.pc \in {"scan", "walk", "implement", "review", "scoped", "record", "halt"}
      BY DEF execute_stage, DrainNext, scan_plan, start_drain, skip_heading, block_half_done, dispatch,
         implementer_commits, report_done, report_blocked, report_needs_context, approve_task,
         send_back, escalate, stop_on_foreign, end_cycle, record, cut_package, advance_to_review,
         Heading, At
    <2>2. run'.pc \in {"scan", "walk", "implement", "review", "scoped", "record", "halt"}
      BY <1>0, <1>1, <1>2, <2>1
         DEF execute_stage, DrainNext, scan_plan, start_drain, skip_heading, block_half_done, dispatch,
         implementer_commits, report_done, report_blocked, report_needs_context, approve_task,
         send_back, escalate, stop_on_foreign, end_cycle, record, cut_package, advance_to_review,
         Goes, Conversation
    <2> QED BY <2>2 DEF AtRuling
  <1>5. ~invoke
    <2>1. \A s \in Stage : FirstStep[s] \notin AtRuling
      BY DEF FirstStep, AtRuling, Stage
    <2> QED BY <1>0, <1>3, <2>1 DEF invoke
  <1>6. ~cross
    <2> SUFFICES ASSUME cross PROVE FALSE
      OBVIOUS
    <2>1. state.stage \in {"SCOPE", "PLAN"}
      BY StageIs DEF cross, At
    <2>2. FirstStep[NextStage[state.stage]] \in {"plan", "execute"}
      BY <2>1 DEF FirstStep, NextStage
    <2>3. run' = [Stopped EXCEPT !.pc = FirstStep[NextStage[state.stage]]]
      BY <1>2 DEF cross
    <2>4. run'.pc = FirstStep[NextStage[state.stage]]
      BY <2>3 DEF Stopped
    <2> QED BY <2>2, <2>4 DEF AtRuling
  <1>7. ~(\/ \E p \in Document : repair(p)
          \/ \E p \in Document : \E quality \in ({"missing"} \cup QualityOf(p)) \ {"sound"} : edit(p, quality)
          \/ \E skill \in Skill : install(skill)
          \/ commit_out_of_band \/ track \/ recut)
    BY DEF repair, edit, install, commit_out_of_band, track, recut, Between, At, drain_vars, AtRuling
  <1>8. ~(scope_resumes \/ record_doc \/ \E quality \in {docs[SprintDoc]} \cup QualityOf(SprintDoc) : dispatch_scope(quality))
    BY <1>2, <1>3 DEF scope_resumes, record_doc, dispatch_scope, AtRuling
  <1>9. ~audit_doc
    <2>1. audit_doc => run'.pc \in {"gate1", "scope_again"}
      BY <1>0, <1>1, <1>2 DEF audit_doc, Goes, Conversation
    <2> QED BY <2>1 DEF AtRuling
  <1>10. ~die /\ ~gate_unanswered /\ ~load_refused /\ ~commit_refused /\ \A gate \in {"G1", "G2"} : ~gate_rejected(gate) /\ ~gate_approved(gate)
    BY <1>2, <1>3 DEF die, gate_unanswered, load_refused, commit_refused, gate_rejected, gate_approved, AtRuling
  <1>11. ~plan_resumes /\ ~plan_without_doc /\ ~planner_commits
    BY <1>2, <1>3 DEF plan_resumes, plan_without_doc, planner_commits, At, AtRuling
  <1>12. ~dispatch_plan
    <2>1. dispatch_plan => run'.pc = "planning"
      BY <1>0 DEF dispatch_plan, Conversation
    <2> QED BY <2>1 DEF AtRuling
  <1>13. /\ ~stop_on_commits /\ ~head_unmoved /\ ~audit_plan /\ ~load_tasks /\ ~enter_execute
         /\ \A quality \in {docs[DevPlan]} \cup QualityOf(DevPlan) : ~planner_writes(quality)
    BY <1>2, <1>3 DEF stop_on_commits, head_unmoved, audit_plan, load_tasks, enter_execute, planner_writes, AtRuling
  <1>14. /\ ~review_guard /\ ~stop_on_untracked /\ ~approve /\ \A shape \in REPLAN_SHAPES : ~refuse_replan(shape)
         /\ \A t \in Story : ~park(t)
    BY <1>2, <1>3 DEF review_guard, stop_on_untracked, approve, refuse_replan, park, AtRuling
  <1> QED BY <1>4, <1>5, <1>6, <1>7, <1>8, <1>9, <1>10, <1>11, <1>12, <1>13, <1>14
      DEF Next, Runs, Attended

LEMMA InTheIndexKeeps == IInv /\ InTheIndex /\ [Next]_vars => InTheIndex'
  <1> SUFFICES ASSUME IInv, InTheIndex, Next, run'.pc \in AtRuling PROVE InTheIndex'
    BY DEF vars, drain_vars, conductor_vars, InTheIndex, Index, RepoTree, Tree, TreeAt, HEAD, AtRuling
  <1>0. run \in Conversation /\ HEAD \in Nat /\ state \in Sprint
    BY DEF IInv, TypeOK, Conversation, HEAD
  <1>1. CASE artifacts_tracked
    <2>1. Recorded(state) \subseteq Index
      BY <1>1 DEF artifacts_tracked, Untracked, untracked
    <2>2. Recorded(state)' = Recorded(state) /\ Index' = Index
      BY <1>1 DEF artifacts_tracked, OnlyRun, OnlyState, conductor_vars, Recorded, Index, RepoTree,
         Tree, TreeAt, HEAD
    <2>3. run'.pc = "gate3"
      BY <1>0, <1>1 DEF artifacts_tracked, Goes, Conversation
    <2> QED BY <2>1, <2>2, <2>3 DEF InTheIndex
  <1>2. CASE record_action
    <2>1. /\ Shows(run.base) /\ UNCHANGED <<state, conductor_vars>> /\ run.pc = "action"
          /\ IF state.gates["G3"] = None THEN Goes("gate3") ELSE Stops
      BY <1>2 DEF record_action, At
    <2>2. state.gates["G3"] = None /\ run'.pc = "gate3"
      BY <1>0, <2>1, StopsType DEF Goes, Conversation, AtRuling
    <2>3. Recorded(state)' = Recorded(state)
      BY <2>1 DEF Recorded
    <2>4. Tree' = Tree
      BY <2>1, ShowsType DEF Tree, TreeAt
    <2>5. Index' = Index
      BY <2>1, <2>4 DEF Index, RepoTree, conductor_vars
    <2> QED BY <2>1, <2>2, <2>3, <2>5 DEF InTheIndex
  <1>3. CASE write_back
    <2>1. run.pc = "generative-writeback" /\ UNCHANGED state /\ run'.pc = "action"
      BY <1>0, <1>3 DEF write_back, At, Conversation
    <2> QED BY <2>1 DEF InTheIndex
  <1>4. ASSUME NEW attested \in Attests, stage_artifacts(attested) PROVE InTheIndex'
    <2>1. /\ UNCHANGED <<state, log, repo_tree>> /\ run'.pc = "commit"
          /\ staged' = staged \cup Untracked
      BY <1>0, <1>4 DEF stage_artifacts, Conversation
    <2>2. Recorded(state)' = Recorded(state) /\ Index' = Index \cup Untracked
      BY <2>1 DEF Recorded, Index, RepoTree, Tree, TreeAt, HEAD
    <2>3. Recorded(state) \subseteq Index \cup Untracked
      BY DEF Untracked, untracked
    <2> QED BY <2>1, <2>2, <2>3 DEF InTheIndex
  <1>5. CASE commit_artifacts
    <2>1. /\ UNCHANGED state /\ run.pc = "commit" /\ run'.pc = "action"
          /\ CommitsIndex("conductor", Index)
      BY <1>0, <1>5 DEF commit_artifacts, At, Goes, Conversation
    <2>2. RepoTree' = Index
      BY <2>1, IndexType, CommitsIndexType
    <2>3. Recorded(state)' = Recorded(state) /\ Recorded(state) \subseteq Index
      BY <2>1 DEF Recorded, InTheIndex
    <2>4. Index \subseteq Index'
      BY <2>2 DEF Index
    <2> QED BY <2>1, <2>3, <2>4 DEF InTheIndex
  <1>6. ASSUME NEW named \in SUBSET Story, ask(named) PROVE InTheIndex'
    <2>1. run.pc = "gate3" /\ OnlyRun /\ run'.pc = "decide"
      BY <1>0, <1>6 DEF ask, At, Conversation
    <2>2. Recorded(state)' = Recorded(state) /\ Index' = Index
      BY <2>1 DEF OnlyRun, OnlyState, conductor_vars, Recorded, Index, RepoTree, Tree, TreeAt, HEAD
    <2> QED BY <2>1, <2>2 DEF InTheIndex
  <1>7. ASSUME NEW t \in Story, decide(t) PROVE InTheIndex'
    <2>1. run.pc = "decide" /\ UNCHANGED <<state, log, repo_tree, staged>>
          /\ run'.pc \in {"decide", "stopped"}
      BY <1>0, <1>7, StopsType DEF decide, At, Conversation
    <2>2. Recorded(state)' = Recorded(state) /\ Index' = Index
      BY <2>1 DEF Recorded, Index, RepoTree, Tree, TreeAt, HEAD
    <2> QED BY <2>1, <2>2 DEF InTheIndex
  <1>8. ASSUME NEW shape \in REPLAN_SHAPES, replan(shape) PROVE InTheIndex'
    <2>1. state'.gates["G3"] = "replan"
      BY <1>0, <1>8 DEF replan, WithGate, Sprint, GATE_KEYS
    <2>2. run'.pc \in {"stopped", "generative-writeback", "park-at-boundary"}
      <3>1. shape \in AMENDING_SHAPES /\ IF shape = "fork-on-live-evidence" THEN Stops ELSE Goes(shape)
        BY <1>8 DEF replan
      <3> QED BY <1>0, <3>1, StopsType DEF Goes, Conversation, AMENDING_SHAPES
    <2> QED BY <2>1, <2>2, NoneAssumption DEF InTheIndex, GATE_DECISIONS
  <1> QED BY <1>1, <1>2, <1>3, <1>4, <1>5, <1>6, <1>7, <1>8, TowardsRuling

\* A document state.json names that is missing from the branch at the ruling is in the index
\* there: it was staged and not committed. With or without a worktree.
THEOREM OnlyStagedMisses == Spec => OnlyStagedIsMissing
  <1>1. Init => InTheIndex
    BY DEF Init, Stopped, InTheIndex
  <1>2. IInv /\ InTheIndex /\ [Next]_vars => [RulesNow => Recorded(state) \subseteq RepoTree \cup staged]_vars
    <2> SUFFICES ASSUME IInv, InTheIndex, Next, RulesNow
                 PROVE  Recorded(state) \subseteq RepoTree \cup staged
      OBVIOUS
    <2>1. run.pc = "decide"
      BY GatesMove DEF RulesNow, approve, replan, Ruling, At
    <2> QED BY <2>1 DEF InTheIndex, Index
  <1>3. IInv /\ InTheIndex /\ [Next]_vars => InTheIndex'
    BY InTheIndexKeeps
  <1> QED BY <1>1, <1>2, <1>3, Invariance, PTL DEF Spec, OnlyStagedIsMissing

----------------------------------------------------------------------------
(* The refinement of SprintLifecycle: each verb as the conductor calls it  *)
(* makes one of the changes a sprint may undergo.                          *)

LEMMA FilesEvidence ==
    ASSUME state \in Sprint, NEW a \in ARTIFACT_KEYS, NEW path \in Path,
           state' = WithArtifact(state, a, path)
    PROVE  Lifecycle!Evidence
  <1>1. DOMAIN state = DOMAIN state' /\ path # None
    BY NoneAssumption DEF WithArtifact, Sprint
  <1>2. Lifecycle!OnlyChanges({"artifacts"})
    BY <1>1 DEF WithArtifact, Sprint, Lifecycle!OnlyChanges
  <1>3. \A b \in ARTIFACT_KEYS : state'.artifacts[b] = IF b = a THEN path ELSE state.artifacts[b]
    BY DEF WithArtifact, Sprint
  <1> QED BY <1>1, <1>2, <1>3 DEF Lifecycle!Evidence, Lifecycle!ARTIFACT_KEYS, ARTIFACT_KEYS

LEMMA RecordsRuling ==
    ASSUME state \in Sprint, NEW gate \in GATE_KEYS, NEW decision \in GATE_DECISIONS,
           state' = WithGate(state, gate, decision)
    PROVE  Lifecycle!Rule
  <1>1. Lifecycle!OnlyChanges({"gates"}) /\ decision # None
    BY NoneAssumption DEF WithGate, Sprint, Lifecycle!OnlyChanges
  <1>2. \A g \in GATE_KEYS : state'.gates[g] = IF g = gate THEN decision ELSE state.gates[g]
    BY DEF WithGate, Sprint
  <1> QED BY <1>1, <1>2 DEF Lifecycle!Rule, Lifecycle!GATE_KEYS, GATE_KEYS

LEMMA LoadsTasks ==
    ASSUME state \in Sprint, NEW S \in SUBSET Story, S # {}, NoneStarted(state),
           state' = WithTasks(state, S)
    PROVE  Lifecycle!Load
  <1>1. Lifecycle!OnlyChanges({"tasks"})
    BY DEF WithTasks, Sprint, Lifecycle!OnlyChanges
  <1>2. state'.tasks = [t \in S |-> "PENDING"]
    BY DEF WithTasks, Sprint
  <1> QED BY <1>1, <1>2 DEF Lifecycle!Load, Lifecycle!NoneStarted, NoneStarted, Lifecycle!TasksLoaded

LEMMA ReportsStatus ==
    ASSUME state \in Sprint, NEW t, NEW status \in TERMINAL_STATUSES \ {"BLOCKED"},
           state' = WithStatus(state, t, status)
    PROVE  Lifecycle!Report
  <1>1. Lifecycle!OnlyChanges({"tasks"})
    BY DEF WithStatus, Sprint, Lifecycle!OnlyChanges
  <1>2. /\ DOMAIN state'.tasks = DOMAIN state.tasks
        /\ \A u \in DOMAIN state.tasks : state'.tasks[u] = IF u = t THEN status ELSE state.tasks[u]
    BY WithStatusFields DEF TERMINAL_STATUSES, TaskStatus
  <1> QED BY <1>1, <1>2 DEF Lifecycle!Report, Lifecycle!Started, TERMINAL_STATUSES

LEMMA HaltsOnBlocker ==
    ASSUME state \in Sprint, NEW t \in Story, t \in DOMAIN state.tasks,
           state' = WithBlocker(state, t, Option)
    PROVE  Lifecycle!Halt
  <1>1. Lifecycle!OnlyChanges({"tasks", "blockers"})
    BY DEF WithBlocker, Sprint, Lifecycle!OnlyChanges
  <1>2. state'.tasks = [state.tasks EXCEPT ![t] = "BLOCKED"] /\ DOMAIN state'.tasks = DOMAIN state.tasks
    BY DEF WithBlocker, Sprint
  <1>3. /\ state.blockers \in Seq(Blocker) /\ [task |-> t, options |-> Option] \in Blocker
        /\ state'.blockers = Append(state.blockers, [task |-> t, options |-> Option])
    BY DEF WithBlocker, Sprint, Blocker
  <1>4. /\ state'.blockers \in Seq(Blocker) /\ Len(state'.blockers) = Len(state.blockers) + 1
        /\ state'.blockers[Len(state'.blockers)] = [task |-> t, options |-> Option]
        /\ \A i \in 1..Len(state.blockers) : state'.blockers[i] = state.blockers[i]
        /\ Len(state.blockers) \in Nat
    BY <1>3
  <1>5. Lifecycle!Last(state'.blockers).task = t
    BY <1>4 DEF Lifecycle!Last
  <1>6. Lifecycle!Front(state'.blockers) = state.blockers
    BY <1>3, <1>4 DEF Lifecycle!Front
  <1> QED BY <1>1, <1>2, <1>4, <1>5, <1>6 DEF Lifecycle!Halt

LEMMA CrossesForward ==
    ASSUME state \in Sprint, state.stage \in DOMAIN NextStage, OnDisk \subseteq Path,
           MayEnter(state, NextStage[state.stage], OnDisk),
           state' = WithStage(state, NextStage[state.stage])
    PROVE  Lifecycle!Cross
  <1>1. Lifecycle!OnlyChanges({"stage"}) /\ state'.stage = NextStage[state.stage]
    BY DEF WithStage, Sprint, Lifecycle!OnlyChanges
  <1>2. Lifecycle!MayEnter(state, NextStage[state.stage], Path)
    BY DEF MayEnter, ArtifactPresent, Approved, TasksLoaded, Unfinished, TERMINAL_STATUSES,
           Lifecycle!MayEnter, Lifecycle!ArtifactPresent, Lifecycle!Approved, Lifecycle!TasksLoaded,
           Lifecycle!Unfinished, Lifecycle!TERMINAL_STATUSES
  <1>3. Lifecycle!NextStage = NextStage
    BY DEF NextStage, Lifecycle!NextStage
  <1> QED BY <1>1, <1>2, <1>3 DEF Lifecycle!Cross

LEMMA WritersAreChanges == IInv /\ [Next]_vars => [Lifecycle!Next]_state
  <1> SUFFICES ASSUME IInv, Next, state' # state, IInv' PROVE Lifecycle!Next
    BY NextKeeps DEF vars, drain_vars
  <1>0. /\ state \in Sprint /\ state' \in Sprint /\ OnDisk \subseteq Path
        /\ SprintDoc \in Path /\ DevPlan \in Path
    BY TreeType, DocsAssumption DEF IInv, TypeOK
  <1> SUFFICES \/ Lifecycle!Evidence \/ Lifecycle!Rule \/ Lifecycle!Load \/ Lifecycle!Report
               \/ Lifecycle!Halt \/ Lifecycle!Cross
    BY <1>0, NoneAssumption DEF Lifecycle!Next, Lifecycle!Change
  <1>1. CASE record_doc \/ audit_plan
    BY <1>0, <1>1, FilesEvidence DEF record_doc, audit_plan, ARTIFACT_KEYS
  <1>2. CASE load_tasks
    <2>1. NoneStarted(state) /\ state' = WithTasks(state, UNION ToSet(plan))
      BY <1>2 DEF load_tasks
    <2>2. UNION ToSet(plan) \in SUBSET Story /\ UNION ToSet(plan) # {}
      BY PlanType DEF IInv
    <2> QED BY <1>0, <2>1, <2>2, LoadsTasks
  <1>3. CASE approve \/ \E gate \in {"G1", "G2"} : gate_rejected(gate) \/ gate_approved(gate)
    <2>1. \E gate \in GATE_KEYS, decision \in GATE_DECISIONS : state' = WithGate(state, gate, decision)
      BY <1>3 DEF approve, gate_rejected, gate_approved, GATE_KEYS, GATE_DECISIONS
    <2> QED BY <1>0, <2>1, RecordsRuling
  <1>4. CASE \E shape \in REPLAN_SHAPES : replan(shape)
    <2>1. state' = WithGate(state, "G3", "replan") /\ "G3" \in GATE_KEYS /\ "replan" \in GATE_DECISIONS
      BY <1>4 DEF replan, GATE_KEYS, GATE_DECISIONS
    <2> QED BY <1>0, <2>1, RecordsRuling
  <1>5. ASSUME NEW t \in Story, park(t) \/ scan_plan(t)
        PROVE  Lifecycle!Report \/ Lifecycle!Halt
    <2>1. CASE park(t)
      BY <1>0, <2>1, ReportsStatus DEF park, TERMINAL_STATUSES
    <2>2. CASE scan_plan(t)
      BY <1>0, <2>2, HaltsOnBlocker DEF scan_plan, Unfinished
    <2> QED BY <1>5, <2>1, <2>2
  <1>6. ASSUME NEW t \in Story, NEW status \in TERMINAL_STATUSES, record(t, status)
        PROVE  Lifecycle!Report \/ Lifecycle!Halt
    <2>1. t \in DOMAIN state.tasks
      BY <1>6 DEF record, At, IInv, InHand
    <2>2. \/ state' = WithBlocker(state, t, Option)
          \/ status # "BLOCKED" /\ state' = WithStatus(state, t, status)
      BY <1>6 DEF record
    <2> QED BY <1>0, <2>1, <2>2, ReportsStatus, HaltsOnBlocker
  <1>7. CASE cross
    <2>1. run.pc = "cross"
      BY <1>7 DEF cross, At
    <2>2. state.stage \in DOMAIN NextStage
      BY <2>1, StageIs DEF NextStage
    <2>3. MayEnter(state, NextStage[state.stage], OnDisk)
          /\ state' = WithStage(state, NextStage[state.stage])
      BY <1>7 DEF cross
    <2> QED BY <1>0, <2>2, <2>3, CrossesForward
  <1>8. CASE advance_to_review
    <2>1. run.pc = "halt" /\ MayEnter(state, "REVIEW", OnDisk) /\ state' = WithStage(state, "REVIEW")
      BY <1>8 DEF advance_to_review, At
    <2>2. state.stage = "EXECUTE"
      BY <2>1, StageIs
    <2>3. state.stage \in DOMAIN NextStage /\ NextStage[state.stage] = "REVIEW"
      BY <2>2 DEF NextStage
    <2> QED BY <1>0, <2>1, <2>3, CrossesForward
  <1> QED BY <1>1, <1>2, <1>3, <1>4, <1>5, <1>6, <1>7, <1>8, Writers

\* What the runs of the conductor make of state.json, verb after verb and run after run,
\* is a life SprintLifecycle allows a sprint.
THEOREM DrivesLifecycle == Spec => DrivesTheLifecycle
  <1>1. IInv /\ [Next]_vars => [Lifecycle!Next]_state
    BY WritersAreChanges
  <1> QED BY <1>1, Invariance, PTL DEF Spec, DrivesTheLifecycle
=============================================================================
