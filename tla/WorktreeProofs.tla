--------------------------- MODULE WorktreeProofs ---------------------------
(***************************************************************************)
(* What TLAPS proves of Worktree for every list of artifacts and every     *)
(* number of edits, deaths and mishaps.                                    *)
(***************************************************************************)
EXTENDS Worktree, TLAPS

----------------------------------------------------------------------------
(* The inductive invariant: TypeOK and what a call has done when it is at  *)
(* a step.                                                                 *)

\* Past the first step the entry is in .gitignore.
Ignored == pc \in {"lookup", "add"} => gitignore.covered

\* Nothing is taken off the list before the copying.
ListWhole == pc \in {"ignore", "lookup", "add"} => todo = Artifacts

\* What a source holds now it has held during the call.
SourceSeen == pc # "idle" => \A a \in Artifact : source[a] \in during[a]

\* An artifact that is off the list was copied by this very call.
CopiedFresh == pc = "copy" =>
                  \A a \in Artifact : copy[a] \in during[a] \/ \E i \in 1..Len(todo) : todo[i] = a

IInv == TypeOK /\ Ignored /\ ListWhole /\ SourceSeen /\ CopiedFresh

----------------------------------------------------------------------------
LEMMA ArtifactsType == Artifacts \in Seq(Artifact)
  BY ArtifactsAssumption DEF Artifact

LEMMA OnTheList == \A a \in Artifact : \E i \in 1..Len(Artifacts) : Artifacts[i] = a
  BY ArtifactsType DEF Artifact, ToSet

LEMMA VersionsAreContents ==
    /\ 0 \in Version /\ Version \subseteq Content /\ None \in Content /\ Other \in Content
  BY BoundAssumption DEF Version, Content

LEMMA InitEstablishes == Init => IInv
  <1> SUFFICES ASSUME Init PROVE IInv
    OBVIOUS
  <1>1. TypeOK
    <2>1. /\ source \in [Artifact -> Version \cup {None}]
          /\ copy \in [Artifact -> Content]
          /\ during \in [Artifact -> SUBSET (Version \cup {None})]
      BY VersionsAreContents DEF Init, Nothing
    <2>2. todo = <<>> /\ todo \in Seq(Artifact) /\ Len(todo) = 0
      BY DEF Init
    <2>3. 0 <= Len(Artifacts)
      BY ArtifactsType
    <2>4. 0 \in 0..MaxEdits /\ 0 \in 0..MaxDeaths /\ 0 \in 0..MaxMishaps
      BY BoundAssumption
    <2>5. QED
      BY <2>1, <2>2, <2>3, <2>4 DEF Init, TypeOK
  <1>2. Ignored /\ ListWhole /\ SourceSeen /\ CopiedFresh
    BY DEF Init, Ignored, ListWhole, SourceSeen, CopiedFresh
  <1>3. QED
    BY <1>1, <1>2 DEF IInv

----------------------------------------------------------------------------
(* The steps of a call. *)

LEMMA CallKeeps == IInv /\ call => IInv'
  <1> SUFFICES ASSUME IInv, call PROVE IInv'
    OBVIOUS
  <1>1. TypeOK'
    BY ArtifactsType DEF IInv, TypeOK, call, git
  <1>2. SourceSeen'
    BY DEF SourceSeen, call
  <1>3. Ignored' /\ ListWhole' /\ CopiedFresh'
    BY DEF Ignored, ListWhole, CopiedFresh, call
  <1>4. QED
    BY <1>1, <1>2, <1>3 DEF IInv

LEMMA IgnoreKeeps == IInv /\ ensure_gitignored => IInv'
  <1> SUFFICES ASSUME IInv, ensure_gitignored PROVE IInv'
    OBVIOUS
  <1>1. gitignore' \in Ignores /\ gitignore'.covered
    BY DEF IInv, TypeOK, Ignores, ensure_gitignored
  <1>2. TypeOK'
    BY <1>1 DEF IInv, TypeOK, ensure_gitignored, git
  <1>3. Ignored' /\ ListWhole' /\ SourceSeen' /\ CopiedFresh'
    BY <1>1 DEF IInv, Ignored, ListWhole, SourceSeen, CopiedFresh, ensure_gitignored
  <1>4. QED
    BY <1>2, <1>3 DEF IInv

\* A call that ends, or dies, owes its invariant nothing but the types.
LEMMA EndKeeps ==
    ASSUME TypeOK', pc' = "idle"
    PROVE  IInv'
  BY DEF IInv, Ignored, ListWhole, SourceSeen, CopiedFresh

LEMMA LookupKeeps == IInv /\ (refuse_missing \/ reuse \/ create) => IInv'
  <1> SUFFICES ASSUME IInv, refuse_missing \/ reuse \/ create PROVE IInv'
    OBVIOUS
  <1>1. CASE refuse_missing
    <2>1. TypeOK'
      BY <1>1 DEF IInv, TypeOK, refuse_missing, Ends, git
    <2>2. QED
      BY <1>1, <2>1, EndKeeps DEF refuse_missing, Ends
  <1>2. CASE reuse
    <2>1. TypeOK'
      BY <1>2 DEF IInv, TypeOK, reuse, git
    <2>2. CopiedFresh'
      BY <1>2, OnTheList DEF IInv, ListWhole, CopiedFresh, reuse
    <2>3. Ignored' /\ ListWhole' /\ SourceSeen'
      BY <1>2 DEF IInv, Ignored, ListWhole, SourceSeen, reuse
    <2>4. QED
      BY <2>1, <2>2, <2>3 DEF IInv
  <1>3. CASE create
    <2>1. TypeOK'
      BY <1>3 DEF IInv, TypeOK, create, git
    <2>2. Ignored' /\ ListWhole' /\ SourceSeen' /\ CopiedFresh'
      BY <1>3 DEF IInv, Ignored, ListWhole, SourceSeen, CopiedFresh, create
    <2>3. QED
      BY <2>1, <2>2 DEF IInv
  <1>4. QED
    BY <1>1, <1>2, <1>3

LEMMA AddKeeps == IInv /\ (worktree_add \/ worktree_add_fails) => IInv'
  <1> SUFFICES ASSUME IInv, worktree_add \/ worktree_add_fails PROVE IInv'
    OBVIOUS
  <1>1. CASE worktree_add
    <2>1. copy' \in [Artifact -> Content]
      BY <1>1, VersionsAreContents DEF worktree_add
    <2>2. TypeOK'
      BY <1>1, <2>1 DEF IInv, TypeOK, worktree_add
    <2>3. CopiedFresh'
      BY <1>1, OnTheList DEF IInv, ListWhole, CopiedFresh, worktree_add
    <2>4. Ignored' /\ ListWhole' /\ SourceSeen'
      BY <1>1 DEF IInv, Ignored, ListWhole, SourceSeen, worktree_add
    <2>5. QED
      BY <2>2, <2>3, <2>4 DEF IInv
  <1>2. CASE worktree_add_fails
    <2>1. mishaps' \in 0..MaxMishaps
      BY <1>2, BoundAssumption DEF IInv, TypeOK, worktree_add_fails, Mishap
    <2>2. branch' \in BOOLEAN
      BY <1>2 DEF IInv, TypeOK, worktree_add_fails
    <2>3. TypeOK'
      BY <1>2, <2>1, <2>2 DEF IInv, TypeOK, worktree_add_fails, Ends
    <2>4. QED
      BY <1>2, <2>3, EndKeeps DEF worktree_add_fails, Ends
  <1>3. QED
    BY <1>1, <1>2

LEMMA HeadOfList ==
    ASSUME TypeOK, todo # <<>>
    PROVE  /\ Head(todo) \in Artifact
           /\ Tail(todo) \in Seq(Artifact) /\ Len(Tail(todo)) = Len(todo) - 1
           /\ \A a : (\E i \in 1..Len(todo) : todo[i] = a) =>
                        a = Head(todo) \/ \E i \in 1..Len(Tail(todo)) : Tail(todo)[i] = a
  <1>1. todo \in Seq(Artifact) /\ Len(todo) \in Nat /\ Len(todo) > 0
    BY DEF TypeOK
  <1>2. Head(todo) = todo[1] /\ todo[1] \in Artifact
    BY <1>1
  <1>3. Tail(todo) \in Seq(Artifact) /\ Len(Tail(todo)) = Len(todo) - 1
    BY <1>1
  <1>4. \A i \in 1..Len(Tail(todo)) : Tail(todo)[i] = todo[i + 1]
    BY <1>1
  <1>5. ASSUME NEW a, NEW i \in 1..Len(todo), todo[i] = a
        PROVE  a = Head(todo) \/ \E j \in 1..Len(Tail(todo)) : Tail(todo)[j] = a
    <2>1. CASE i = 1
      BY <1>2, <1>5, <2>1
    <2>2. CASE i # 1
      <3>1. i - 1 \in 1..Len(Tail(todo)) /\ (i - 1) + 1 = i
        BY <1>1, <1>3, <1>5, <2>2
      <3>2. Tail(todo)[i - 1] = a
        BY <1>4, <1>5, <3>1
      <3>3. QED
        BY <3>1, <3>2
    <2>3. QED
      BY <2>1, <2>2
  <1>6. QED
    BY <1>2, <1>3, <1>5

LEMMA CopyKeeps == IInv /\ (artifact_not_found \/ copy_artifact \/ ready) => IInv'
  <1> SUFFICES ASSUME IInv, artifact_not_found \/ copy_artifact \/ ready PROVE IInv'
    OBVIOUS
  <1>1. CASE artifact_not_found \/ ready
    <2>1. TypeOK'
      BY <1>1 DEF IInv, TypeOK, artifact_not_found, ready, Ends, git
    <2>2. QED
      BY <1>1, <2>1, EndKeeps DEF artifact_not_found, ready, Ends
  <1>2. CASE copy_artifact
    <2> DEFINE h == Head(todo)
    <2>1. /\ h \in Artifact /\ source[h] \in Version
          /\ Tail(todo) \in Seq(Artifact) /\ Len(Tail(todo)) = Len(todo) - 1
      BY <1>2, HeadOfList DEF IInv, TypeOK, copy_artifact
    <2>2. copy' \in [Artifact -> Content]
      BY <1>2, <2>1, VersionsAreContents DEF IInv, TypeOK, copy_artifact
    <2>3. Len(todo) \in Nat /\ Len(Artifacts) \in Nat
      BY ArtifactsType DEF IInv, TypeOK
    <2>4. TypeOK'
      BY <1>2, <2>1, <2>2, <2>3 DEF IInv, TypeOK, copy_artifact, git
    <2>5. CopiedFresh'
      <3> SUFFICES ASSUME NEW a \in Artifact
                   PROVE  copy'[a] \in during'[a] \/ \E i \in 1..Len(todo') : todo'[i] = a
        BY DEF CopiedFresh
      <3>1. CASE a = h
        <4>1. copy'[a] = source[a] /\ during' = during
          BY <1>2, <3>1 DEF IInv, TypeOK, copy_artifact
        <4>2. source[a] \in during[a]
          BY <1>2 DEF IInv, SourceSeen, copy_artifact
        <4>3. QED
          BY <4>1, <4>2
      <3>2. CASE a # h
        <4>1. copy'[a] = copy[a] /\ during' = during /\ todo' = Tail(todo)
          BY <1>2, <3>2 DEF IInv, TypeOK, copy_artifact
        <4>2. copy[a] \in during[a] \/ \E i \in 1..Len(todo) : todo[i] = a
          BY <1>2 DEF IInv, CopiedFresh, copy_artifact
        <4>3. todo # <<>> /\ TypeOK
          BY <1>2 DEF IInv, copy_artifact
        <4>4. QED
          BY <3>2, <4>1, <4>2, <4>3, HeadOfList
      <3>3. QED
        BY <3>1, <3>2
    <2>6. Ignored' /\ ListWhole' /\ SourceSeen'
      BY <1>2 DEF IInv, Ignored, ListWhole, SourceSeen, copy_artifact
    <2>7. QED
      BY <2>4, <2>5, <2>6 DEF IInv
  <1>3. QED
    BY <1>1, <1>2

----------------------------------------------------------------------------
(* Deaths and the operator. *)

LEMMA DeathKeeps == IInv /\ (die_ignoring \/ die_adding \/ die_copying) => IInv'
  <1> SUFFICES ASSUME IInv, die_ignoring \/ die_adding \/ die_copying PROVE IInv'
    OBVIOUS
  <1>1. PICK step : dies(step)
    BY DEF die_ignoring, die_adding, die_copying
  <1>2. /\ pc' = "idle" /\ answer' = "none" /\ deaths' \in 0..MaxDeaths
        /\ UNCHANGED <<source, edits, mishaps, todo, during>>
    BY <1>1, BoundAssumption DEF IInv, TypeOK, dies, Ends
  <1>3. gitignore' \in Ignores
    <2>1. CASE die_ignoring
      <3>1. gitignore \in Ignores
        BY DEF IInv, TypeOK
      <3>2. \A c \in BOOLEAN, e \in BOOLEAN : [covered |-> c, ended |-> e] \in Ignores
        BY DEF Ignores
      <3>3. \/ gitignore' = gitignore
            \/ gitignore' = [covered |-> FALSE, ended |-> TRUE]
            \/ gitignore' = [covered |-> FALSE, ended |-> FALSE]
            \/ gitignore' = [covered |-> TRUE, ended |-> FALSE]
        BY <2>1 DEF die_ignoring
      <3>4. QED
        BY <3>1, <3>2, <3>3
    <2>2. CASE die_adding \/ die_copying
      BY <2>2 DEF IInv, TypeOK, die_adding, die_copying
    <2>3. QED
      BY <2>1, <2>2
  <1>4. branch' \in BOOLEAN /\ registered' \in BOOLEAN /\ dir' \in BOOLEAN
    <2>1. CASE die_adding
      <3>1. PICK made \in 0..3 :
               branch' = (branch \/ made >= 1) /\ registered' = (made >= 2) /\ dir' = (made = 3)
        BY <2>1 DEF die_adding
      <3>2. (made >= 1) \in BOOLEAN /\ (made >= 2) \in BOOLEAN
        OBVIOUS
      <3>3. QED
        BY <3>1, <3>2, Zenon
    <2>2. CASE die_ignoring \/ die_copying
      BY <2>2 DEF IInv, TypeOK, git, die_ignoring, die_copying
    <2>3. QED
      BY <2>1, <2>2
  <1>5. copy' \in [Artifact -> Content]
    BY VersionsAreContents DEF IInv, TypeOK, die_ignoring, die_adding, die_copying
  <1>6. TypeOK'
    BY <1>2, <1>3, <1>4, <1>5 DEF IInv, TypeOK
  <1>7. QED
    BY <1>2, <1>6, EndKeeps

LEMMA EditKeeps == ASSUME NEW a \in Artifact PROVE IInv /\ edit(a) => IInv'
  <1> SUFFICES ASSUME IInv, edit(a) PROVE IInv'
    OBVIOUS
  <1>1. PICK v \in {None, edits + 1} : source' = [source EXCEPT ![a] = v]
    BY DEF edit
  <1>2. edits + 1 \in Version /\ edits' \in 0..MaxEdits
    BY BoundAssumption DEF IInv, TypeOK, edit, Version
  <1>3. /\ source' \in [Artifact -> Version \cup {None}] /\ source'[a] = v
        /\ \A b \in Artifact : b # a => source'[b] = source[b]
    BY <1>1, <1>2 DEF IInv, TypeOK
  <1>4. /\ during' \in [Artifact -> SUBSET (Version \cup {None})]
        /\ \A b \in Artifact : during[b] \subseteq during'[b]
        /\ pc # "idle" => v \in during'[a]
    BY <1>1, <1>2, <1>3 DEF IInv, TypeOK, edit
  <1>5. TypeOK'
    BY <1>2, <1>3, <1>4 DEF IInv, TypeOK, edit, git
  <1>6. SourceSeen'
    BY <1>3, <1>4 DEF IInv, SourceSeen, edit
  <1>7. CopiedFresh'
    BY <1>4 DEF IInv, CopiedFresh, edit
  <1>8. Ignored' /\ ListWhole'
    BY DEF IInv, Ignored, ListWhole, edit
  <1>9. QED
    BY <1>5, <1>6, <1>7, <1>8 DEF IInv

LEMMA BetweenKeeps ==
    ASSUME NEW a \in Artifact
    PROVE  IInv /\ (restore(a) \/ drain_writes(a)) => IInv'
  <1> SUFFICES ASSUME IInv, restore(a) \/ drain_writes(a) PROVE IInv'
    OBVIOUS
  <1>1. CASE restore(a)
    <2>1. source' \in [Artifact -> Version \cup {None}]
      BY <1>1, VersionsAreContents DEF IInv, TypeOK, restore
    <2>2. TypeOK'
      BY <1>1, <2>1 DEF IInv, TypeOK, restore, git
    <2>3. QED
      BY <1>1, <2>2, EndKeeps DEF restore
  <1>2. CASE drain_writes(a)
    <2>1. copy' \in [Artifact -> Content]
      BY <1>2, VersionsAreContents DEF IInv, TypeOK, drain_writes
    <2>2. TypeOK'
      BY <1>2, <2>1 DEF IInv, TypeOK, drain_writes, git
    <2>3. QED
      BY <1>2, <2>2, EndKeeps DEF drain_writes
  <1>3. QED
    BY <1>1, <1>2

LEMMA TidyKeeps == IInv /\ (remove_dir \/ revert_gitignore \/ prune) => IInv'
  <1> SUFFICES ASSUME IInv, remove_dir \/ revert_gitignore \/ prune PROVE IInv'
    OBVIOUS
  <1>1. pc' = "idle"
    BY DEF remove_dir, revert_gitignore, prune
  <1>2. mishaps' \in 0..MaxMishaps
    BY BoundAssumption DEF IInv, TypeOK, remove_dir, revert_gitignore, prune, Mishap
  <1>3. copy' \in [Artifact -> Content]
    BY VersionsAreContents DEF IInv, TypeOK, Nothing, remove_dir, revert_gitignore, prune
  <1>4. /\ gitignore' \in Ignores /\ branch' \in BOOLEAN
        /\ registered' \in BOOLEAN /\ dir' \in BOOLEAN
    BY DEF IInv, TypeOK, git, remove_dir, revert_gitignore, prune
  <1>5. TypeOK'
    BY <1>2, <1>3, <1>4 DEF IInv, TypeOK, remove_dir, revert_gitignore, prune
  <1>6. QED
    BY <1>1, <1>5, EndKeeps

LEMMA NextKeeps == IInv /\ [Next]_vars => IInv'
  <1>1. IInv /\ UNCHANGED vars => IInv'
    BY DEF vars, git, IInv, TypeOK, Ignored, ListWhole, SourceSeen, CopiedFresh
  <1>2. QED
    BY <1>1, CallKeeps, IgnoreKeeps, LookupKeeps, AddKeeps, CopyKeeps, DeathKeeps,
       EditKeeps, BetweenKeeps, TidyKeeps
       DEF Next

----------------------------------------------------------------------------

----------------------------------------------------------------------------
(* A step of Worktree is a step of DispatchRoot, or none.                  *)

LEMMA InitRefines == Init => Promise!Init
  <1> SUFFICES ASSUME Init PROVE Promise!Init
    OBVIOUS
  <1>1. source \in [Artifact -> Content] /\ copy \in [Artifact -> Content]
    BY VersionsAreContents DEF Init, Nothing
  <1>2. QED
    BY <1>1 DEF Init, Promise!Init

LEMMA RootsHaveContents ==
    IInv => source \in [Artifact -> Content] /\ copy \in [Artifact -> Content]
  BY VersionsAreContents DEF IInv, TypeOK

\* The steps that read and look: DispatchRoot sees nothing of them.
LEMMA LooksRefine ==
    ASSUME IInv, ensure_gitignored \/ reuse \/ create
    PROVE  UNCHANGED <<source, copy, during, IF pc = "idle" THEN answer ELSE "calling">>
  BY DEF ensure_gitignored, reuse, create

LEMMA CallRefines == ASSUME IInv, call PROVE Promise!Call
  BY DEF IInv, TypeOK, call, Promise!Call

LEMMA WritesRefine ==
    ASSUME IInv, IInv',
           worktree_add \/ copy_artifact \/ remove_dir \/ \E a \in Artifact : drain_writes(a)
    PROVE  Promise!Write
  <1>1. copy' \in [Artifact -> Content]
    BY RootsHaveContents, VersionsAreContents DEF IInv, TypeOK
  <1>2. UNCHANGED <<source, during, IF pc = "idle" THEN answer ELSE "calling">>
    BY DEF worktree_add, copy_artifact, remove_dir, drain_writes
  <1>3. QED
    BY <1>1, <1>2 DEF Promise!Write

LEMMA RefusalsRefine ==
    ASSUME IInv, refuse_missing \/ worktree_add_fails \/ artifact_not_found
    PROVE  Promise!Refuse
  BY DEF refuse_missing, worktree_add_fails, artifact_not_found, Ends, Promise!Refuse

\* The step the promise is about: an empty list means every artifact was copied in this
\* call, so each copy is something its source has held meanwhile.
LEMMA ReadyRefines == ASSUME IInv, ready PROVE Promise!Ready
  <1>1. \A a \in Artifact : copy[a] \in during[a]
    BY DEF IInv, CopiedFresh, ready
  <1>2. QED
    BY <1>1 DEF ready, Ends, Promise!Ready, Promise!Fresh

LEMMA DeathsRefine ==
    ASSUME IInv, IInv', die_ignoring \/ die_adding \/ die_copying
    PROVE  Promise!Die
  <1>1. copy' \in [Artifact -> Content]
    BY DEF IInv, TypeOK
  <1>2. PICK step \in {"ignore", "add", "copy"} : dies(step)
    BY DEF die_ignoring, die_adding, die_copying
  <1>3. QED
    BY <1>1, <1>2 DEF dies, Ends, Promise!Die

\* A source that did not change is already in what it has held.
LEMMA EditsRefine ==
    ASSUME IInv, IInv', NEW a \in Artifact, edit(a) \/ restore(a)
    PROVE  Promise!Edit
  <1>1. source' \in [Artifact -> Content]
    BY VersionsAreContents DEF IInv, TypeOK
  <1>2. UNCHANGED <<copy, pc, answer>>
    BY DEF edit, restore
  <1>3. during' = [b \in Artifact |-> during[b] \cup
                      IF pc # "idle" THEN {source'[b]} ELSE {}]
    <2>1. during \in [Artifact -> SUBSET (Version \cup {None})]
      BY DEF IInv, TypeOK
    <2>2. CASE pc = "idle"
      BY <2>1, <2>2 DEF edit, restore
    <2>3. CASE pc # "idle"
      <3>1. during' = [during EXCEPT ![a] = @ \cup {source'[a]}]
        BY <2>3 DEF edit, restore
      <3>2. \A b \in Artifact : b # a => source'[b] = source[b] /\ source[b] \in during[b]
        BY <2>3 DEF IInv, TypeOK, SourceSeen, edit, restore
      <3>3. QED
        BY <2>1, <2>3, <3>1, <3>2
    <2>4. QED
      BY <2>2, <2>3
  <1>4. during' = [b \in Artifact |-> during[b] \cup
                      IF (IF pc = "idle" THEN answer ELSE "calling") = "calling"
                      THEN {source'[b]} ELSE {}]
    BY <1>3 DEF IInv, TypeOK
  <1>5. QED
    BY <1>1, <1>2, <1>4 DEF Promise!Edit

LEMMA StepRefines ==
    IInv /\ IInv' /\ [Next]_vars =>
        [Promise!Next]_<<source, copy, during, IF pc = "idle" THEN answer ELSE "calling">>
  <1> SUFFICES ASSUME IInv, IInv', [Next]_vars
               PROVE  Promise!Next \/ UNCHANGED <<source, copy, during,
                                          IF pc = "idle" THEN answer ELSE "calling">>
    OBVIOUS
  <1>1. CASE call
    BY <1>1, CallRefines DEF Promise!Next
  <1>2. CASE ensure_gitignored \/ reuse \/ create
    BY <1>2, LooksRefine
  <1>3. CASE worktree_add \/ copy_artifact \/ remove_dir \/ \E a \in Artifact : drain_writes(a)
    BY <1>3, WritesRefine DEF Promise!Next
  <1>4. CASE refuse_missing \/ worktree_add_fails \/ artifact_not_found
    BY <1>4, RefusalsRefine DEF Promise!Next
  <1>5. CASE ready
    BY <1>5, ReadyRefines DEF Promise!Next
  <1>6. CASE die_ignoring \/ die_adding \/ die_copying
    BY <1>6, DeathsRefine DEF Promise!Next
  <1>7. CASE \E a \in Artifact : edit(a) \/ restore(a)
    BY <1>7, EditsRefine DEF Promise!Next
  <1>8. CASE revert_gitignore \/ prune
    BY <1>8 DEF revert_gitignore, prune
  <1>9. CASE UNCHANGED vars
    BY <1>9 DEF vars
  <1>10. QED
    BY <1>1, <1>2, <1>3, <1>4, <1>5, <1>6, <1>7, <1>8, <1>9 DEF Next

----------------------------------------------------------------------------
(* The theorems. *)

THEOREM Invariance == Spec => []IInv
  BY InitEstablishes, NextKeeps, PTL DEF Spec

\* Wherever calls die and whatever the operator does in between, the memory of a call
\* and what it finds keep their shape.
THEOREM TypeCorrect == Spec => []TypeOK
  <1>1. IInv => TypeOK
    BY DEF IInv
  <1>2. QED
    BY <1>1, Invariance, PTL

LEMMA AddsUnderIgnore == IInv /\ [Next]_vars => (~dir /\ dir' => gitignore.covered)
  <1> SUFFICES ASSUME IInv, [Next]_vars, ~dir, dir' PROVE gitignore.covered
    OBVIOUS
  <1>1. worktree_add \/ die_adding
    BY DEF Next, vars, git, call, ensure_gitignored, refuse_missing, reuse, create,
           worktree_add_fails, artifact_not_found, copy_artifact, ready, die_ignoring,
           die_copying, edit, restore, drain_writes, remove_dir, revert_gitignore, prune
  <1>2. pc = "add"
    BY <1>1 DEF worktree_add, die_adding, dies
  <1>3. QED
    BY <1>2 DEF IInv, Ignored

\* worktree.py "ensure_gitignored": no worktree is made in a repository whose .gitignore
\* does not cover it, whatever a call that died left half written in that file.
THEOREM NoWorktreeWithoutIgnore == Spec => AddedUnderIgnore
  <1>1. IInv /\ [Next]_vars => [~dir /\ dir' => gitignore.covered]_vars
    BY AddsUnderIgnore
  <1>2. QED
    BY <1>1, Invariance, PTL DEF Spec, AddedUnderIgnore

\* worktree.py "ensure_worktree": a call that says ready has put into the worktree what
\* the repository root held during that call, reused or new, edited meanwhile or not.
THEOREM PromiseKept == Spec => KeepsItsPromise
  BY InitRefines, StepRefines, Invariance, PTL DEF Spec, KeepsItsPromise, Promise!Spec
=============================================================================
