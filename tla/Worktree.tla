------------------------------ MODULE Worktree ------------------------------
(***************************************************************************)
(* worktree.py: `supskill-state worktree --branch <b> --artifact ...`, one *)
(* step per file or git operation, the calls of a conductor that dies and  *)
(* is invoked again, git as the code meets it, and an operator who edits   *)
(* the documents at any time and tidies up between the calls.              *)
(*                                                                         *)
(* Of .gitignore the model keeps whether a line covers .worktrees/ and     *)
(* whether the last line has its newline. What git checks out is complete: *)
(* a checkout that a kill cut short is reused like any other directory.    *)
(***************************************************************************)
EXTENDS Naturals, Sequences, SequencesExt, FiniteSets

CONSTANTS Artifacts,    \* the --artifact flags, in order
          None,         \* a file that is not there
          MaxEdits,     \* bound: changes of a document at the repository root
          MaxDeaths,    \* bound: calls that die
          MaxMishaps    \* bound: failing git calls, removed directories, reverted .gitignores

ASSUME ArtifactsAssumption == Artifacts \in Seq(ToSet(Artifacts))
ASSUME BoundAssumption == MaxEdits \in Nat /\ MaxDeaths \in Nat /\ MaxMishaps \in Nat
ASSUME NoneAssumption == None \notin -1..MaxEdits

VARIABLES source,       \* the documents at the repository root, a version each
          edits, deaths, mishaps,
          gitignore,
          branch,       \* refs/heads/<b> exists
          registered,   \* `git worktree list` names the path
          dir,          \* the directory is there
          copy,         \* the documents in it
          pc, todo,     \* the call: its next step and the artifacts left to copy
          during,       \* what each source has held since the call began
          answer        \* of the last call that ended

git == <<branch, registered, dir>>
vars == <<source, edits, deaths, mishaps, gitignore, git, copy, pc, todo, during, answer>>

Artifact == ToSet(Artifacts)
Version == 0..MaxEdits
Other == -1             \* no version of the root's: cut short, or written in EXECUTE
Content == Version \cup {None, Other}
Nothing == [a \in Artifact |-> None]
Ignores == [covered : BOOLEAN, ended : BOOLEAN]

Init ==
    /\ source = [a \in Artifact |-> 0]
    /\ gitignore \in Ignores
    /\ branch \in BOOLEAN
    /\ registered = FALSE /\ dir = FALSE
    /\ copy = Nothing
    /\ pc = "idle" /\ todo = <<>>
    /\ during = [a \in Artifact |-> {}]
    /\ answer = "none"
    /\ edits = 0 /\ deaths = 0 /\ mishaps = 0

Mishap == mishaps < MaxMishaps /\ mishaps' = mishaps + 1

Ends(as) == pc' = "idle" /\ answer' = as

----------------------------------------------------------------------------
(* The call. *)

\* Variant: the list of artifacts is the one an earlier call left.
call_SharedList ==
    /\ pc = "idle"
    /\ pc' = "ignore"
    /\ todo' = todo \o Artifacts
    /\ during' = [a \in Artifact |-> {source[a]}]
    /\ UNCHANGED <<source, edits, deaths, mishaps, gitignore, git, copy, answer>>

call ==
    /\ pc = "idle"
    /\ pc' = "ignore"
    /\ todo' = Artifacts
    /\ during' = [a \in Artifact |-> {source[a]}]
    /\ UNCHANGED <<source, edits, deaths, mishaps, gitignore, git, copy, answer>>

\* Variant: the entry is written where the file ends.
ensure_gitignored_Fused ==
    /\ pc = "ignore"
    /\ gitignore' = [covered |-> gitignore.covered \/ gitignore.ended, ended |-> TRUE]
    /\ pc' = "lookup"
    /\ UNCHANGED <<source, edits, deaths, mishaps, git, copy, todo, during, answer>>

\* An unfinished last line gets its newline before the entry.
ensure_gitignored ==
    /\ pc = "ignore"
    /\ gitignore' = IF gitignore.covered THEN gitignore ELSE [covered |-> TRUE, ended |-> TRUE]
    /\ pc' = "lookup"
    /\ UNCHANGED <<source, edits, deaths, mishaps, git, copy, todo, during, answer>>

refuse_missing ==
    /\ pc = "lookup" /\ registered /\ ~dir
    /\ Ends("refused")
    /\ UNCHANGED <<source, edits, deaths, mishaps, gitignore, git, copy, todo, during>>

\* Variant: a worktree that is there was given its documents when it was created.
reuse_AsItIs ==
    /\ pc = "lookup" /\ registered /\ dir
    /\ pc' = "copy" /\ todo' = <<>>
    /\ UNCHANGED <<source, edits, deaths, mishaps, gitignore, git, copy, during, answer>>

reuse ==
    /\ pc = "lookup" /\ registered /\ dir
    /\ pc' = "copy"
    /\ UNCHANGED <<source, edits, deaths, mishaps, gitignore, git, copy, todo, during, answer>>

create ==
    /\ pc = "lookup" /\ ~registered
    /\ pc' = "add"
    /\ UNCHANGED <<source, edits, deaths, mishaps, gitignore, git, copy, todo, during, answer>>

\* Variant: always -b, which git refuses for a branch that exists.
worktree_add_NewBranch ==
    /\ pc = "add" /\ ~branch
    /\ branch' = TRUE /\ registered' = TRUE /\ dir' = TRUE
    /\ copy' \in [Artifact -> {None, 0}]
    /\ pc' = "copy"
    /\ UNCHANGED <<source, edits, deaths, mishaps, gitignore, todo, during, answer>>

\* Attached to the branch or cut with -b; the commit it checks out may hold a first version.
worktree_add ==
    /\ pc = "add"
    /\ branch' = TRUE /\ registered' = TRUE /\ dir' = TRUE
    /\ copy' \in [Artifact -> {None, 0}]
    /\ pc' = "copy"
    /\ UNCHANGED <<source, edits, deaths, mishaps, gitignore, todo, during, answer>>

\* git undoes the rest of a failing add but not the branch it cut.
worktree_add_fails ==
    /\ pc = "add"
    /\ Mishap
    /\ branch' \in {branch, TRUE}
    /\ Ends("refused")
    /\ UNCHANGED <<source, edits, deaths, gitignore, registered, dir, copy, todo, during>>

artifact_not_found ==
    /\ pc = "copy" /\ todo # <<>>
    /\ source[Head(todo)] = None
    /\ Ends("refused")
    /\ UNCHANGED <<source, edits, deaths, mishaps, gitignore, git, copy, todo, during>>

copy_artifact ==
    /\ pc = "copy" /\ todo # <<>>
    /\ source[Head(todo)] # None
    /\ copy' = [copy EXCEPT ![Head(todo)] = source[Head(todo)]]
    /\ todo' = Tail(todo)
    /\ UNCHANGED <<source, edits, deaths, mishaps, gitignore, git, pc, during, answer>>

ready ==
    /\ pc = "copy" /\ todo = <<>>
    /\ Ends("ready")
    /\ UNCHANGED <<source, edits, deaths, mishaps, gitignore, git, copy, todo, during>>

----------------------------------------------------------------------------
(* A call dies. What it was writing may be there in part.                  *)

dies(step) ==
    /\ pc = step
    /\ deaths < MaxDeaths /\ deaths' = deaths + 1
    /\ Ends("none")
    /\ UNCHANGED <<source, edits, mishaps, todo, during>>

\* The newline, a piece of the entry, or the entry without its newline.
die_ignoring ==
    /\ dies("ignore")
    /\ gitignore' \in {gitignore} \cup
           IF gitignore.covered THEN {}
           ELSE {[covered |-> FALSE, ended |-> TRUE], [covered |-> FALSE, ended |-> FALSE],
                 [covered |-> TRUE, ended |-> FALSE]}
    /\ UNCHANGED <<git, copy>>

\* git cuts the branch, then registers the worktree, then makes the directory.
die_adding ==
    /\ dies("add")
    /\ \E made \in 0..3 :
           branch' = (branch \/ made >= 1) /\ registered' = (made >= 2) /\ dir' = (made = 3)
    /\ UNCHANGED <<gitignore, copy>>

die_copying ==
    /\ dies("copy")
    /\ copy' \in {copy} \cup {[copy EXCEPT ![a] = Other] : a \in {Head(todo) : x \in DOMAIN todo}}
    /\ UNCHANGED <<gitignore, git>>

----------------------------------------------------------------------------
(* The operator. *)

\* A new version, or the file is moved away, while a call runs or not.
edit(a) ==
    /\ edits < MaxEdits /\ edits' = edits + 1
    /\ \E v \in {None, edits + 1} : source' = [source EXCEPT ![a] = v]
    /\ during' = IF pc = "idle" THEN during ELSE [during EXCEPT ![a] = @ \cup {source'[a]}]
    /\ UNCHANGED <<deaths, mishaps, gitignore, git, copy, pc, todo, answer>>

\* EXECUTE works in the directory.
drain_writes(a) ==
    /\ pc = "idle" /\ dir
    /\ \E c \in {None, Other} : copy' = [copy EXCEPT ![a] = c]
    /\ UNCHANGED <<source, edits, deaths, mishaps, gitignore, git, pc, todo, during, answer>>

restore(a) ==
    /\ pc = "idle" /\ source[a] = None
    /\ source' = [source EXCEPT ![a] = 0]
    /\ UNCHANGED <<edits, deaths, mishaps, gitignore, git, copy, pc, todo, during, answer>>

remove_dir ==
    /\ pc = "idle" /\ dir
    /\ Mishap
    /\ dir' = FALSE /\ copy' = Nothing
    /\ UNCHANGED <<source, edits, deaths, gitignore, branch, registered, pc, todo, during, answer>>

\* Nobody committed the entry, so a checkout or a stash takes it away.
revert_gitignore ==
    /\ pc = "idle"
    /\ Mishap
    /\ gitignore' \in Ignores
    /\ UNCHANGED <<source, edits, deaths, git, copy, pc, todo, during, answer>>

\* "run `git worktree prune` yourself first, then retry"
prune ==
    /\ pc = "idle" /\ registered /\ ~dir
    /\ registered' = FALSE
    /\ UNCHANGED <<source, edits, deaths, mishaps, gitignore, branch, dir, copy,
                   pc, todo, during, answer>>

----------------------------------------------------------------------------
Next ==
    \/ call \/ ensure_gitignored \/ refuse_missing \/ reuse \/ create
    \/ worktree_add \/ worktree_add_fails
    \/ artifact_not_found \/ copy_artifact \/ ready
    \/ die_ignoring \/ die_adding \/ die_copying
    \/ \E a \in Artifact : edit(a) \/ restore(a) \/ drain_writes(a)
    \/ remove_dir \/ revert_gitignore \/ prune

Spec == Init /\ [][Next]_vars

\* A call goes on and is made again, and the operator does what a refusal names. Edits,
\* deaths and mishaps owe nothing.
Fairness ==
    /\ WF_vars(call) /\ WF_vars(pc # "idle" /\ deaths' = deaths /\ edits' = edits /\ Next)
    /\ SF_vars(prune) /\ \A a \in Artifact : SF_vars(restore(a))

FairSpec == Spec /\ Fairness

----------------------------------------------------------------------------
TypeOK ==
    /\ source \in [Artifact -> Version \cup {None}]
    /\ copy \in [Artifact -> Content]
    /\ during \in [Artifact -> SUBSET (Version \cup {None})]
    /\ gitignore \in Ignores
    /\ branch \in BOOLEAN /\ registered \in BOOLEAN /\ dir \in BOOLEAN
    /\ pc \in {"idle", "ignore", "lookup", "add", "copy"}
    /\ todo \in Seq(Artifact) /\ Len(todo) <= Len(Artifacts)
    /\ answer \in {"none", "ready", "refused"}
    /\ edits \in 0..MaxEdits /\ deaths \in 0..MaxDeaths /\ mishaps \in 0..MaxMishaps

\* ensure_gitignored: git never gets a worktree under a .gitignore that does not cover it,
\* whatever an earlier call left half written in that file.
AddedUnderIgnore == [][~dir /\ dir' => gitignore.covered]_vars

\* ensure_worktree: artifacts are "(re-)copied on every call, even on reuse, so the sprint
\* doc and dev plan stay fresh across a /clear-and-resume": the call as DispatchRoot has it.
Promise == INSTANCE DispatchRoot WITH
               Artifact <- Artifact, Content <- Content, source <- source, copy <- copy,
               during <- during, answer <- IF pc = "idle" THEN answer ELSE "calling"
KeepsItsPromise == Promise!Spec

\* Doing what the refusals say ends in a dispatch root, again and again: no leftover branch,
\* missing directory or half-made worktree of an earlier call makes every later one refuse.
EverReady == []<>(pc = "idle" /\ answer = "ready")
=============================================================================
