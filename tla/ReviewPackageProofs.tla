------------------------ MODULE ReviewPackageProofs ------------------------
(***************************************************************************)
(* As long as no append tore, every EXECUTE recorded its package and       *)
(* nobody committed during a run, what passes review-guard is the branch:  *)
(* over any roots, and whatever commits, deaths and sprints of the same id *)
(* come. The invariant ties the last record to the sprint's own root: it   *)
(* matches HEAD only while the diff there does. The types need none of     *)
(* that: they hold whatever tears, is skipped or is committed.             *)
(***************************************************************************)
EXTENDS ReviewPackage, WellFoundedInduction, TLAPS

\* The record on the last line.
Newest == package_jsonl[Len(package_jsonl)].row

TrailInv ==
    \A i \in DOMAIN package_jsonl :
        /\ package_jsonl[i].ended /\ package_jsonl[i].row \in PackageRow
        /\ package_jsonl[i].row.head <= commits

HeadInv == \A r \in Roots : head[r] <= commits

\* Where a run stands says which stage it is for.
StageInv ==
    /\ pc \in {"draining", "cut", "recorded"} => stage = "EXECUTE"
    /\ pc \in {"passed", "recut"} => stage = "REVIEW"
    /\ told # None => /\ stage = "REVIEW" /\ told.root = dispatch_root
                      /\ told.sha = None \/ told.sha <= commits
    /\ pc = "recut" => told # None
    /\ pc = "passed" => told = None

\* The diff of the sprint's root is the one HEAD was read with.
Fresh == diff[dispatch_root] = head[dispatch_root]

DiffInv == pc \in {"cut", "recorded", "passed", "recut"} => Fresh

\* Once recorded, the sprint's package is the newest record.
RecordInv ==
    pc = "recorded" \/ stage = "REVIEW" =>
        /\ package_jsonl # <<>>
        /\ RootOf(Newest) = dispatch_root
        /\ diff[dispatch_root] # None
        /\ Newest.head = head[dispatch_root] => Fresh
        /\ pc = "recorded" => Newest.head = head[dispatch_root]

IInv == TypeOK /\ TrailInv /\ HeadInv /\ StageInv /\ DiffInv /\ RecordInv

\* It is lost for good with the first disturbance.
CalmInv == calm => IInv

----------------------------------------------------------------------------
(* Facts about the trail. *)

LEMMA CommitType ==
    /\ Commit \subseteq Nat /\ None \notin Commit /\ 0 \in Commit
    /\ \A c \in Commit : c < MaxCommits => c + 1 \in Commit
  BY RootAssumption, BoundAssumption DEF Commit

LEMMA RowType ==
    ASSUME NEW row \in PackageRow
    PROVE  row.head \in Commit /\ row.dispatch_root \in Roots \cup {None} /\ row # None
  BY RootAssumption, RowAssumption DEF PackageRow

\* On a trail without torn lines the last line is the last record.
LEMMA NewestIsLast ==
    ASSUME TypeOK, TrailInv, package_jsonl # <<>>
    PROVE  HasRecord /\ LastRecord = Newest /\ Newest \in PackageRow
  <1>1. /\ package_jsonl \in Seq(LineOf(PackageRow)) /\ Len(package_jsonl) \in Nat
        /\ DOMAIN package_jsonl = 1..Len(package_jsonl) /\ Len(package_jsonl) # 0
    BY DEF TypeOK
  <1>2. Len(package_jsonl) \in DOMAIN package_jsonl
    BY <1>1
  <1>3. Readable(package_jsonl) = DOMAIN package_jsonl
    BY RowType DEF Readable, TrailInv
  <1>4. \A i \in DOMAIN package_jsonl : (\A j \in DOMAIN package_jsonl : j <= i) => i = Len(package_jsonl)
    BY <1>1, <1>2
  <1>5. \A j \in DOMAIN package_jsonl : j <= Len(package_jsonl)
    BY <1>1
  <1>6. (CHOOSE i \in Readable(package_jsonl) :
             /\ package_jsonl[i].row \in PackageRow
             /\ \A j \in Readable(package_jsonl) : package_jsonl[j].row \in PackageRow => j <= i)
            = Len(package_jsonl)
    BY <1>2, <1>3, <1>4, <1>5 DEF TrailInv
  <1>7. LastRecord = Newest
    BY <1>6 DEF LastRecord, LastRow, Newest
  <1> QED BY <1>2, <1>3, <1>7 DEF HasRecord, TrailInv, Newest

\* A record appended to such a trail is the newest one.
LEMMA RecordsAppends ==
    ASSUME TypeOK, TrailInv, NEW row \in PackageRow, row.head <= commits, commits' = commits, Records(row)
    PROVE  /\ package_jsonl' \in Seq(LineOf(PackageRow)) /\ TrailInv'
           /\ package_jsonl' # <<>> /\ Newest' = row
  <1> DEFINE line == [row |-> row, ended |-> TRUE]
  <1>1. package_jsonl \in Seq(LineOf(PackageRow)) /\ line \in LineOf(PackageRow)
    BY DEF TypeOK, LineOf
  <1>2. package_jsonl' = Append(package_jsonl, line)
    <2>1. ~(package_jsonl # <<>> /\ ~Last(package_jsonl).ended)
      <3>1. ASSUME package_jsonl # <<>> PROVE Last(package_jsonl).ended
        <4>1. Len(package_jsonl) \in DOMAIN package_jsonl
          BY <1>1, <3>1
        <4> QED BY <4>1 DEF Last, TrailInv
      <3> QED BY <3>1
    <2> QED BY <2>1 DEF Records, Written
  <1> HIDE DEF line
  <1>3. /\ package_jsonl' \in Seq(LineOf(PackageRow)) /\ package_jsonl' # <<>>
        /\ Len(package_jsonl') = Len(package_jsonl) + 1 /\ Len(package_jsonl) \in Nat
        /\ DOMAIN package_jsonl = 1..Len(package_jsonl)
        /\ DOMAIN package_jsonl' = 1..(Len(package_jsonl) + 1)
        /\ package_jsonl'[Len(package_jsonl) + 1] = line
        /\ \A i \in 1..Len(package_jsonl) : package_jsonl'[i] = package_jsonl[i]
    BY <1>1, <1>2
  <1>4. line.row = row /\ line.ended
    BY DEF line
  <1>5. \A i \in 1..(Len(package_jsonl) + 1) : i \in 1..Len(package_jsonl) \/ i = Len(package_jsonl) + 1
    BY <1>3
  <1>6. TrailInv'
    BY <1>3, <1>4, <1>5 DEF TrailInv
  <1> QED BY <1>3, <1>4, <1>6 DEF Newest
----------------------------------------------------------------------------
(* The invariant is inductive: one lemma per action.                       *)

LEMMA InitEstablishes == Init => IInv
  <1> SUFFICES ASSUME Init PROVE IInv
    OBVIOUS
  <1>1. TypeOK
    BY CommitType, BoundAssumption, RootAssumption DEF Init, TypeOK
  <1>2. TrailInv /\ HeadInv
    BY DEF Init, TrailInv, HeadInv
  <1> QED BY <1>1, <1>2 DEF Init, IInv, StageInv, DiffInv, RecordInv

\* A step that writes neither git, nor the diffs, nor the trail.
LEMMA SameFiles ==
    ASSUME TypeOK, TrailInv, HeadInv, UNCHANGED <<git, diff, package_jsonl, sprint>>
    PROVE  /\ TrailInv' /\ HeadInv' /\ Fresh' = Fresh
           /\ Newest' = Newest /\ RootOf(Newest)' = RootOf(Newest)
           /\ UNCHANGED <<head, commits, diff, package_jsonl, sprints, dispatch_root>>
  BY DEF TrailInv, HeadInv, Fresh, Newest, RootOf, git, sprint

LEMMA ExecuteKeeps == IInv /\ execute => IInv'
  <1> SUFFICES ASSUME IInv, execute PROVE IInv'
    OBVIOUS
  <1>1. /\ pc = "stopped" /\ stage = "EXECUTE" /\ pc' = "draining"
        /\ UNCHANGED <<git, diff, package_jsonl, sprint, stage, told, deaths, calm>>
        /\ TypeOK /\ TrailInv /\ HeadInv /\ StageInv
    BY DEF execute, IInv
  <1>2. TypeOK'
    BY <1>1, SameFiles DEF TypeOK
  <1>3. StageInv' /\ DiffInv' /\ RecordInv'
    BY <1>1, SameFiles DEF StageInv, DiffInv, RecordInv
  <1> QED BY <1>1, <1>2, <1>3, SameFiles DEF IInv

\* A commit is newer than every record and every other HEAD.
LEMMA CommitMoves ==
    ASSUME TypeOK, TrailInv, HeadInv, NEW r \in Roots, NewCommit(r),
           UNCHANGED <<diff, package_jsonl, dispatch_root>>
    PROVE  /\ head' \in [Roots -> Commit] /\ commits' \in Commit
           /\ TrailInv' /\ HeadInv' /\ Newest' = Newest /\ RootOf(Newest)' = RootOf(Newest)
           /\ r # dispatch_root => head'[dispatch_root] = head[dispatch_root]
           /\ r = dispatch_root /\ package_jsonl # <<>> => Newest.head # head'[dispatch_root]
  <1>1. /\ commits \in Commit /\ commits < MaxCommits /\ commits' = commits + 1
        /\ head \in [Roots -> Commit] /\ head' = [head EXCEPT ![r] = commits + 1]
    BY DEF TypeOK, NewCommit
  <1>2. commits' \in Commit /\ commits \in Nat /\ commits < commits' /\ Commit \subseteq Nat
    BY <1>1, CommitType
  <1>3. \A c \in Commit : c <= commits => c <= commits' /\ c # commits'
    BY <1>1, <1>2
  <1>4. head' \in [Roots -> Commit] /\ HeadInv'
    <2>1. head' \in [Roots -> Commit] /\ head'[r] = commits'
      BY <1>1, <1>2
    <2>2. ASSUME NEW q \in Roots PROVE head'[q] <= commits'
      <3>1. CASE q = r
        BY <1>2, <2>1, <3>1
      <3>2. CASE q # r
        BY <1>1, <1>3, <3>2 DEF HeadInv
      <3> QED BY <3>1, <3>2
    <2> QED BY <2>1, <2>2 DEF HeadInv
  <1>5. TrailInv'
    BY <1>3, RowType DEF TrailInv
  <1>6. Newest' = Newest /\ RootOf(Newest)' = RootOf(Newest)
    BY DEF Newest, RootOf
  <1>7. package_jsonl # <<>> => Newest.head \in Commit /\ Newest.head <= commits
    <2>1. package_jsonl # <<>> => Len(package_jsonl) \in DOMAIN package_jsonl
      BY DEF TypeOK
    <2> QED BY <2>1, RowType DEF TrailInv, Newest
  <1> QED BY <1>1, <1>2, <1>3, <1>4, <1>5, <1>6, <1>7 DEF TypeOK

LEMMA CommitTaskKeeps == IInv /\ commit_task => IInv'
  <1> SUFFICES ASSUME IInv, commit_task PROVE IInv'
    OBVIOUS
  <1>1. /\ pc = "draining" /\ NewCommit(dispatch_root) /\ dispatch_root \in Roots
        /\ UNCHANGED <<diff, package_jsonl, sprints, dispatch_root, stage, told, pc, deaths, calm>>
        /\ TypeOK /\ TrailInv /\ HeadInv /\ StageInv
    BY DEF commit_task, IInv, sprint, TypeOK
  <1>2. TypeOK'
    BY <1>1, CommitMoves DEF TypeOK
  <1>3. StageInv' /\ DiffInv' /\ RecordInv'
    BY <1>1 DEF StageInv, DiffInv, RecordInv
  <1> QED BY <1>1, <1>2, <1>3, CommitMoves DEF IInv

LEMMA CutPackageKeeps == IInv /\ cut_package => IInv'
  <1> SUFFICES ASSUME IInv, cut_package PROVE IInv'
    OBVIOUS
  <1>1. /\ pc = "draining" /\ diff' = [diff EXCEPT ![dispatch_root] = head[dispatch_root]] /\ pc' = "cut"
        /\ UNCHANGED <<head, commits, package_jsonl, sprints, dispatch_root, stage, told, deaths, calm>>
        /\ TypeOK /\ TrailInv /\ HeadInv /\ StageInv
    BY DEF cut_package, CutsPackage, IInv, git, sprint
  <1>2. TypeOK'
    BY <1>1 DEF TypeOK
  <1>3. TrailInv' /\ HeadInv'
    BY <1>1 DEF TrailInv, HeadInv
  <1>4. Fresh'
    BY <1>1 DEF TypeOK, Fresh
  <1>5. StageInv' /\ DiffInv' /\ RecordInv'
    BY <1>1, <1>4 DEF StageInv, DiffInv, RecordInv
  <1> QED BY <1>2, <1>3, <1>5 DEF IInv

LEMMA RecordPackageKeeps == IInv /\ record_package => IInv'
  <1> SUFFICES ASSUME IInv, record_package PROVE IInv'
    OBVIOUS
  <1>1. PICK row \in RowOfExecute : Records(row)
    BY DEF record_package
  <1>2. /\ pc = "cut" /\ pc' = "recorded"
        /\ UNCHANGED <<head, commits, diff, sprints, dispatch_root, stage, told, deaths, calm>>
        /\ TypeOK /\ TrailInv /\ HeadInv /\ StageInv /\ Fresh
    BY DEF record_package, IInv, git, sprint, DiffInv
  <1>3. /\ row \in PackageRow /\ row.head = head[dispatch_root] /\ row.head <= commits
        /\ RootOf(row) = dispatch_root
    BY <1>2, RootAssumption DEF RowOfExecute, PackageRow, TypeOK, HeadInv, RootOf
  <1>4. package_jsonl' \in Seq(LineOf(PackageRow)) /\ TrailInv' /\ package_jsonl' # <<>> /\ Newest' = row
    BY <1>1, <1>2, <1>3, RecordsAppends
  <1>5. TypeOK'
    BY <1>2, <1>4 DEF TypeOK
  <1>6. Fresh' /\ HeadInv' /\ diff[dispatch_root] # None
    BY <1>2, CommitType DEF Fresh, HeadInv, TypeOK
  <1>7. RootOf(Newest)' = dispatch_root
    BY <1>3, <1>4 DEF RootOf
  <1>8. StageInv' /\ DiffInv' /\ RecordInv'
    BY <1>2, <1>3, <1>4, <1>6, <1>7 DEF StageInv, DiffInv, RecordInv
  <1> QED BY <1>4, <1>5, <1>6, <1>8 DEF IInv

LEMMA AdvanceKeeps == calm' /\ IInv /\ advance_to_review => IInv'
  <1> SUFFICES ASSUME calm', IInv, advance_to_review PROVE IInv'
    OBVIOUS
  <1>1. /\ pc = "recorded" /\ stage' = "REVIEW" /\ told' = None /\ pc' = "stopped"
        /\ UNCHANGED <<git, diff, package_jsonl, sprint, deaths>>
        /\ TypeOK /\ TrailInv /\ HeadInv /\ StageInv /\ RecordInv
    BY DEF advance_to_review, IInv
  <1>2. TypeOK'
    <2>1. calm' \in BOOLEAN
      BY DEF advance_to_review
    <2> QED BY <1>1, <2>1, SameFiles DEF TypeOK
  <1>3. StageInv' /\ DiffInv' /\ RecordInv'
    BY <1>1, SameFiles DEF StageInv, DiffInv, RecordInv
  <1> QED BY <1>1, <1>2, <1>3, SameFiles DEF IInv

LEMMA RefuseKeeps == IInv /\ refuse => IInv'
  <1> SUFFICES ASSUME IInv, refuse PROVE IInv'
    OBVIOUS
  <1>1. /\ pc = "stopped" /\ stage = "REVIEW" /\ told' = Remedy
        /\ UNCHANGED <<git, diff, package_jsonl, sprint, stage, pc, deaths, calm>>
        /\ TypeOK /\ TrailInv /\ HeadInv /\ StageInv /\ RecordInv
    BY DEF refuse, GuardRuns, IInv
  <1>2. /\ package_jsonl # <<>> /\ RootOf(LastRecord) = dispatch_root /\ dispatch_root \in Roots
        /\ head[dispatch_root] \in Commit /\ head[dispatch_root] <= commits
    BY <1>1, NewestIsLast DEF RecordInv, TypeOK, HeadInv
  <1>3. /\ Remedy \in [root : Roots, sha : Commit \cup {None}] /\ Remedy.root = dispatch_root
        /\ Remedy.sha = None \/ Remedy.sha <= commits
    BY <1>2 DEF Remedy, RootOf
  <1>4. TypeOK'
    BY <1>1, <1>3, SameFiles DEF TypeOK
  <1>5. StageInv' /\ DiffInv' /\ RecordInv'
    BY <1>1, <1>3, SameFiles DEF StageInv, DiffInv, RecordInv
  <1> QED BY <1>1, <1>4, <1>5, SameFiles DEF IInv

LEMMA PassKeeps == IInv /\ pass => IInv'
  <1> SUFFICES ASSUME IInv, pass PROVE IInv'
    OBVIOUS
  <1>1. /\ pc = "stopped" /\ stage = "REVIEW" /\ Verdict = "matches" /\ told' = None /\ pc' = "passed"
        /\ UNCHANGED <<git, diff, package_jsonl, sprint, stage, deaths, calm>>
        /\ TypeOK /\ TrailInv /\ HeadInv /\ StageInv /\ RecordInv
    BY DEF pass, GuardRuns, IInv
  <1>2. Fresh
    <2>1. package_jsonl # <<>> /\ LastRecord = Newest /\ RootOf(LastRecord) = dispatch_root
      BY <1>1, NewestIsLast DEF RecordInv
    <2>2. Newest.head = head[dispatch_root]
      BY <1>1, <2>1 DEF Verdict, is_stale
    <2> QED BY <1>1, <2>2 DEF RecordInv
  <1>3. TypeOK'
    BY <1>1, SameFiles DEF TypeOK
  <1>4. StageInv' /\ DiffInv' /\ RecordInv'
    BY <1>1, <1>2, SameFiles DEF StageInv, DiffInv, RecordInv
  <1> QED BY <1>1, <1>3, <1>4, SameFiles DEF IInv

LEMMA ReviewKeeps == IInv /\ review => IInv'
  <1> SUFFICES ASSUME IInv, review PROVE IInv'
    OBVIOUS
  <1>1. /\ pc = "passed" /\ stage' = "REVIEWED" /\ pc' = "stopped" /\ told = None
        /\ UNCHANGED <<git, diff, package_jsonl, sprint, told, deaths, calm>>
        /\ TypeOK /\ TrailInv /\ HeadInv /\ StageInv
    BY DEF review, IInv, StageInv
  <1>2. TypeOK'
    BY <1>1, SameFiles DEF TypeOK
  <1>3. StageInv' /\ DiffInv' /\ RecordInv'
    BY <1>1, SameFiles DEF StageInv, DiffInv, RecordInv
  <1> QED BY <1>1, <1>2, <1>3, SameFiles DEF IInv

\* Where it moves the sprint's own HEAD, the record stops matching; elsewhere nothing the
\* sprint is measured by has moved.
LEMMA CommitOutOfBandKeeps ==
    ASSUME calm', IInv, NEW r \in Roots, commit_out_of_band(r)
    PROVE  IInv'
  <1>1. /\ pc = "stopped" /\ NewCommit(r)
        /\ UNCHANGED <<diff, package_jsonl, sprints, dispatch_root, stage, told, pc, deaths>>
        /\ TypeOK /\ TrailInv /\ HeadInv /\ StageInv /\ RecordInv
    BY DEF commit_out_of_band, IInv, sprint
  <1>2. TypeOK'
    <2>1. calm' \in BOOLEAN
      BY DEF commit_out_of_band
    <2> QED BY <1>1, <2>1, CommitMoves DEF TypeOK
  <1>3. StageInv'
    <2>1. told # None => told.sha = None \/ told.sha <= commits'
      <3>1. ASSUME told # None, told.sha # None PROVE told.sha <= commits'
        <4>1. told.sha \in Nat /\ commits \in Nat /\ commits' = commits + 1 /\ told.sha <= commits
          BY <1>1, <3>1, CommitType DEF TypeOK, StageInv, NewCommit
        <4> QED BY <4>1
      <3> QED BY <3>1
    <2> QED BY <1>1, <2>1 DEF StageInv
  <1>4. RecordInv'
    <2>1. CASE r = dispatch_root
      BY <1>1, <2>1, CommitMoves DEF RecordInv
    <2>2. CASE r # dispatch_root
      <3>1. Fresh' = Fresh /\ head'[dispatch_root] = head[dispatch_root]
        BY <1>1, <2>2, CommitMoves DEF Fresh
      <3> QED BY <1>1, <3>1, CommitMoves DEF RecordInv
    <2> QED BY <2>1, <2>2
  <1>5. DiffInv'
    BY <1>1 DEF DiffInv
  <1> QED BY <1>1, <1>2, <1>3, <1>4, <1>5, CommitMoves DEF IInv

LEMMA RecutKeeps == IInv /\ recut => IInv'
  <1> SUFFICES ASSUME IInv, recut PROVE IInv'
    OBVIOUS
  <1>1. /\ pc = "stopped" /\ told # None /\ told.root = dispatch_root /\ stage = "REVIEW" /\ pc' = "recut"
        /\ diff' = [diff EXCEPT ![dispatch_root] = head[dispatch_root]]
        /\ UNCHANGED <<head, commits, package_jsonl, sprints, dispatch_root, stage, told, deaths, calm>>
        /\ TypeOK /\ TrailInv /\ HeadInv /\ StageInv /\ RecordInv
    BY DEF recut, CutsPackage, IInv, StageInv, git, sprint
  <1>2. TypeOK'
    BY <1>1 DEF TypeOK
  <1>3. TrailInv' /\ HeadInv' /\ Newest' = Newest /\ RootOf(Newest)' = RootOf(Newest)
    BY <1>1 DEF TrailInv, HeadInv, Newest, RootOf
  <1>4. Fresh' /\ diff'[dispatch_root] # None
    BY <1>1, CommitType DEF TypeOK, Fresh
  <1>5. StageInv' /\ DiffInv' /\ RecordInv'
    BY <1>1, <1>3, <1>4 DEF StageInv, DiffInv, RecordInv
  <1> QED BY <1>2, <1>3, <1>5 DEF IInv

LEMMA RerecordKeeps == IInv /\ rerecord => IInv'
  <1> SUFFICES ASSUME IInv, rerecord PROVE IInv'
    OBVIOUS
  <1>1. /\ pc = "recut" /\ pc' = "stopped" /\ told' = None /\ told # None /\ stage = "REVIEW"
        /\ told.root = dispatch_root /\ (told.sha = None \/ told.sha <= commits)
        /\ UNCHANGED <<head, commits, diff, sprints, dispatch_root, stage, deaths, calm>>
        /\ TypeOK /\ TrailInv /\ HeadInv /\ StageInv /\ RecordInv /\ Fresh /\ Records(RowOfRemedy)
    BY DEF rerecord, IInv, StageInv, DiffInv, git, sprint
  <1>2. /\ RowOfRemedy \in PackageRow /\ RowOfRemedy.head <= commits
        /\ RootOf(RowOfRemedy) = dispatch_root
    BY <1>1, RootAssumption DEF RowOfRemedy, PackageRow, TypeOK, HeadInv, RootOf
  <1>3. package_jsonl' \in Seq(LineOf(PackageRow)) /\ TrailInv' /\ package_jsonl' # <<>> /\ Newest' = RowOfRemedy
    BY <1>1, <1>2, RecordsAppends
  <1>4. TypeOK'
    BY <1>1, <1>3 DEF TypeOK
  <1>5. Fresh' /\ HeadInv' /\ RootOf(Newest)' = dispatch_root
    BY <1>1, <1>2, <1>3 DEF Fresh, HeadInv, RootOf
  <1>6. StageInv' /\ DiffInv' /\ RecordInv'
    BY <1>1, <1>3, <1>5 DEF StageInv, DiffInv, RecordInv
  <1> QED BY <1>3, <1>4, <1>5, <1>6 DEF IInv

LEMMA NextSprintKeeps == IInv /\ next_sprint => IInv'
  <1> SUFFICES ASSUME IInv, next_sprint PROVE IInv'
    OBVIOUS
  <1>1. /\ pc = "stopped" /\ stage = "REVIEWED" /\ stage' = "EXECUTE" /\ told = None
        /\ sprints < MaxSprints /\ sprints' = sprints + 1 /\ dispatch_root' \in Roots
        /\ UNCHANGED <<head, commits, diff, package_jsonl, told, pc, deaths, calm>>
        /\ TypeOK /\ TrailInv /\ HeadInv
    BY DEF next_sprint, IInv, StageInv, git
  <1>2. TypeOK'
    BY <1>1, BoundAssumption DEF TypeOK
  <1>3. TrailInv' /\ HeadInv' /\ StageInv' /\ DiffInv' /\ RecordInv'
    BY <1>1 DEF TrailInv, HeadInv, StageInv, DiffInv, RecordInv
  <1> QED BY <1>2, <1>3 DEF IInv

LEMMA DiscardWorktreeKeeps ==
    ASSUME IInv, NEW r \in Roots, discard_worktree(r)
    PROVE  IInv'
  <1>1. /\ pc = "stopped" /\ stage = "REVIEWED" /\ diff' = [diff EXCEPT ![r] = None]
        /\ UNCHANGED <<head, commits, package_jsonl, sprints, dispatch_root, stage, told, pc, deaths, calm>>
        /\ TypeOK /\ TrailInv /\ HeadInv /\ StageInv
    BY DEF discard_worktree, IInv, git, sprint
  <1>2. TypeOK'
    BY <1>1 DEF TypeOK
  <1>3. TrailInv' /\ HeadInv' /\ StageInv' /\ DiffInv' /\ RecordInv'
    BY <1>1 DEF TrailInv, HeadInv, StageInv, DiffInv, RecordInv
  <1> QED BY <1>2, <1>3 DEF IInv

\* A run that dies between two of its writes leaves what the sprint is measured by.
LEMMA DieKeeps == calm' /\ IInv /\ die => IInv'
  <1> SUFFICES ASSUME calm', IInv, die PROVE IInv'
    OBVIOUS
  <1>1. /\ pc' = "stopped" /\ deaths < MaxDeaths /\ deaths' = deaths + 1
        /\ UNCHANGED <<git, diff, package_jsonl, sprint, stage, told, calm>>
        /\ TypeOK /\ TrailInv /\ HeadInv /\ StageInv /\ RecordInv
    BY DEF die, IInv
  <1>2. TypeOK'
    BY <1>1, SameFiles, BoundAssumption DEF TypeOK
  <1>3. StageInv' /\ DiffInv' /\ RecordInv'
    BY <1>1, SameFiles DEF StageInv, DiffInv, RecordInv
  <1> QED BY <1>1, <1>2, <1>3, SameFiles DEF IInv

LEMMA StutterKeeps == IInv /\ UNCHANGED vars => IInv'
  BY DEF IInv, TypeOK, TrailInv, HeadInv, StageInv, DiffInv, RecordInv, Fresh, Newest, RootOf,
         vars, git, sprint

LEMMA NextKeeps == calm' /\ IInv /\ [Next]_vars => IInv'
  <1> SUFFICES ASSUME calm', IInv, [Next]_vars PROVE IInv'
    OBVIOUS
  <1>1. CASE execute \/ commit_task \/ cut_package \/ record_package \/ advance_to_review
    BY <1>1, ExecuteKeeps, CommitTaskKeeps, CutPackageKeeps, RecordPackageKeeps, AdvanceKeeps
  <1>2. CASE refuse \/ pass \/ review
    BY <1>2, RefuseKeeps, PassKeeps, ReviewKeeps
  <1>3. ASSUME NEW r \in Roots, commit_out_of_band(r) \/ discard_worktree(r) PROVE IInv'
    BY <1>3, CommitOutOfBandKeeps, DiscardWorktreeKeeps
  <1>4. CASE recut \/ rerecord \/ next_sprint \/ die
    BY <1>4, RecutKeeps, RerecordKeeps, NextSprintKeeps, DieKeeps
  <1>5. CASE UNCHANGED vars
    BY <1>5, StutterKeeps
  <1> QED BY <1>1, <1>2, <1>3, <1>4, <1>5 DEF Next

\* What was disturbed is never called calm again.
LEMMA CalmEnds == ASSUME [Next]_vars, calm' PROVE calm
  <1>1. CASE UNCHANGED calm
    BY <1>1
  <1>2. CASE advance_to_review \/ \E r \in Roots : commit_out_of_band(r)
    BY <1>2 DEF advance_to_review, commit_out_of_band
  <1>3. CASE die
    BY <1>3 DEF die
  <1>4. \/ UNCHANGED calm \/ advance_to_review \/ die
        \/ \E r \in Roots : commit_out_of_band(r)
    BY DEF Next, vars, execute, commit_task, cut_package, record_package, refuse, pass, review, recut,
       rerecord, next_sprint, discard_worktree
  <1> QED BY <1>1, <1>2, <1>3, <1>4

----------------------------------------------------------------------------
\* As long as no append tore, no EXECUTE skipped its record and nobody committed during a
\* run, every reachable state has the invariant.
THEOREM Invariance == Spec => []CalmInv
  <1>1. Init => CalmInv
    BY InitEstablishes DEF CalmInv
  <1>2. CalmInv /\ [Next]_vars => CalmInv'
    BY CalmEnds, NextKeeps DEF CalmInv
  <1> QED BY <1>1, <1>2, PTL DEF Spec

LEMMA RecordedPackageMatches == CalmInv => RecordedMatches
  <1> SUFFICES ASSUME IInv, pc = "recorded" PROVE Verdict = "matches"
    BY DEF RecordedMatches, CalmInv
  <1>1. /\ package_jsonl # <<>> /\ RootOf(Newest) = dispatch_root /\ diff[dispatch_root] # None
        /\ Newest.head = head[dispatch_root]
    BY DEF IInv, RecordInv
  <1>2. HasRecord /\ LastRecord = Newest
    BY <1>1, NewestIsLast DEF IInv
  <1> QED BY <1>1, <1>2 DEF Verdict, is_stale

\* What passes review-guard, and reaches the reviewers, is the branch of the sprint's own
\* dispatch root, as long as things are calm: over any worktrees, and however many sprints
\* share the id.
THEOREM PassIsTheBranch == Spec => []PassedIsTheBranch
  <1>1. CalmInv => PassedIsTheBranch
    BY DEF CalmInv, IInv, DiffInv, Fresh, PassedIsTheBranch
  <1> QED BY <1>1, Invariance, PTL

\* What EXECUTE has just recorded is what review-guard takes, whatever the trail of the id
\* already held, as long as things are calm.
THEOREM RecordIsTaken == Spec => []RecordedMatches
  BY RecordedPackageMatches, Invariance, PTL

----------------------------------------------------------------------------
(* The types, with no condition on what tears, who commits and what an     *)
(* EXECUTE records: a torn record parses to nothing and is never the last. *)

Typed == TypeOK /\ (pc = "recut" => told # None)

LEMMA WrittenType ==
    ASSUME NEW log \in Seq(LineOf(PackageRow)), NEW line \in LineOf(PackageRow)
    PROVE  Written(log, line) \in Seq(LineOf(PackageRow))
  <1>1. [line EXCEPT !.row = None] \in LineOf(PackageRow)
    BY DEF LineOf
  <1>2. CASE log # <<>> /\ ~Last(log).ended
    <2>1. Front(log) \in Seq(LineOf(PackageRow))
      BY <1>2 DEF Front
    <2> QED BY <1>1, <1>2, <2>1 DEF Written
  <1>3. CASE ~(log # <<>> /\ ~Last(log).ended)
    BY <1>3 DEF Written
  <1> QED BY <1>2, <1>3

LEMMA LastOfSome ==
    ASSUME NEW N \in Nat, NEW S \in SUBSET (1..N), S # {}
    PROVE  \E x \in S : \A y \in S : y <= x
  <1> DEFINE R == {pair \in Nat \X Nat : pair[1] < pair[2]}
             T == {N - x : x \in S}
  <1>1. R = OpToRel(<, Nat)
    BY Zenon DEF OpToRel
  <1>2. IsWellFoundedOn(R, Nat)
    BY <1>1, NatLessThanWellFounded
  <1>3. T \subseteq Nat /\ T # {}
    <2>1. \A x \in S : N - x \in Nat
      OBVIOUS
    <2>2. PICK x \in S : TRUE
      OBVIOUS
    <2>3. N - x \in T
      BY <2>2
    <2> QED BY <2>1, <2>3
  <1> HIDE DEF R
  <1>4. PICK z \in T : \A w \in T : <<w, z>> \notin R
    BY <1>2, <1>3, WFMin
  <1>5. PICK x \in S : z = N - x
    OBVIOUS
  <1>6. ASSUME NEW y \in S PROVE y <= x
    <2>1. N - y \in T /\ N - y \in Nat /\ z \in Nat
      BY <1>3
    <2>2. N - y < z => <<N - y, z>> \in R
      BY <2>1 DEF R
    <2> QED BY <1>4, <1>5, <2>1, <2>2
  <1> QED BY <1>6

\* The last record that parses is a record, wherever on the trail it is.
LEMMA LastRecordType == TypeOK /\ HasRecord => LastRecord \in PackageRow
  <1> SUFFICES ASSUME TypeOK, HasRecord PROVE LastRecord \in PackageRow
    OBVIOUS
  <1> DEFINE S == Readable(package_jsonl)
  <1>1. /\ package_jsonl \in Seq(LineOf(PackageRow)) /\ Len(package_jsonl) \in Nat
        /\ DOMAIN package_jsonl = 1..Len(package_jsonl)
    BY DEF TypeOK
  <1>2. S \in SUBSET (1..Len(package_jsonl)) /\ S # {}
    BY <1>1 DEF HasRecord, Readable
  <1>3. \A i \in S : package_jsonl[i].row \in PackageRow
    <2>1. \A i \in 1..Len(package_jsonl) : package_jsonl[i] \in LineOf(PackageRow)
      BY <1>1
    <2>2. \A line \in LineOf(PackageRow) : line.row # None => line.row \in PackageRow
      BY DEF LineOf
    <2> QED BY <1>1, <2>1, <2>2 DEF Readable
  <1>4. PICK i \in S : \A j \in S : j <= i
    BY <1>1, <1>2, LastOfSome
  <1>5. \E k \in S : package_jsonl[k].row \in PackageRow
                     /\ \A j \in S : package_jsonl[j].row \in PackageRow => j <= k
    BY <1>3, <1>4
  <1> QED BY <1>5 DEF LastRecord, LastRow

LEMMA RemedyType == TypeOK => Remedy \in [root : Roots, sha : Commit \cup {None}]
  <1> SUFFICES ASSUME TypeOK PROVE Remedy \in [root : Roots, sha : Commit \cup {None}]
    OBVIOUS
  <1>1. dispatch_root \in Roots /\ head \in [Roots -> Commit]
    BY DEF TypeOK
  <1>2. CASE Verdict = "stale"
    <2>1. LastRecord \in PackageRow
      BY <1>2, LastRecordType DEF Verdict
    <2>2. LastRecord.dispatch_root \in Roots \cup {None} /\ RootOf(LastRecord) \in Roots
      BY <2>1, RowType, RootAssumption DEF RootOf
    <2> QED BY <1>1, <1>2, <2>2 DEF Remedy
  <1>3. CASE Verdict # "stale"
    BY <1>1, <1>3 DEF Remedy
  <1> QED BY <1>2, <1>3

\* What record_package and the remedy append, torn or whole.
LEMMA RowsType ==
    ASSUME Typed
    PROVE  RowOfExecute \subseteq PackageRow /\ (pc = "recut" => RowOfRemedy \in PackageRow)
  <1>1. /\ dispatch_root \in Roots /\ head \in [Roots -> Commit]
        /\ told # None => told.root \in Roots /\ told.sha \in Commit \cup {None}
    BY DEF Typed, TypeOK
  <1>2. RowOfExecute \subseteq PackageRow
    BY <1>1 DEF RowOfExecute, PackageRow
  <1>3. pc = "recut" => RowOfRemedy \in PackageRow
    BY <1>1 DEF RowOfRemedy, PackageRow, Typed
  <1> QED BY <1>2, <1>3

LEMMA TypedKept == Typed /\ [Next]_vars => Typed'
  <1> SUFFICES ASSUME Typed, [Next]_vars PROVE Typed'
    OBVIOUS
  <1>0. TypeOK
    BY DEF Typed
  <1>1. ASSUME NEW row \in PackageRow, NEW ended \in BOOLEAN
        PROVE  /\ Written(package_jsonl, [row |-> row, ended |-> ended]) \in Seq(LineOf(PackageRow))
               /\ Written(package_jsonl, [row |-> None, ended |-> ended]) \in Seq(LineOf(PackageRow))
    BY <1>0, WrittenType DEF TypeOK, LineOf
  <1>2. ASSUME NEW r \in Roots, NewCommit(r)
        PROVE  head' \in [Roots -> Commit] /\ commits' \in Commit
    BY <1>0, <1>2, CommitType DEF TypeOK, NewCommit
  <1>3. CASE execute \/ advance_to_review \/ pass \/ review
    BY <1>0, <1>3 DEF execute, advance_to_review, pass, review, GuardRuns, Typed, TypeOK, git, sprint
  <1>4. CASE commit_task
    <2>1. /\ head' \in [Roots -> Commit] /\ commits' \in Commit
          /\ UNCHANGED <<diff, package_jsonl, sprint, stage, told, pc, deaths, calm>>
      BY <1>0, <1>2, <1>4 DEF commit_task, TypeOK
    <2> QED BY <1>0, <2>1 DEF Typed, TypeOK, sprint
  <1>5. CASE cut_package
    BY <1>0, <1>5 DEF cut_package, CutsPackage, Typed, TypeOK, git, sprint
  <1>6. CASE record_package
    <2>1. package_jsonl' \in Seq(LineOf(PackageRow))
      BY <1>1, <1>6, RowsType DEF record_package, Records
    <2> QED BY <1>0, <1>6, <2>1 DEF record_package, Typed, TypeOK, git, sprint
  <1>7. CASE refuse
    BY <1>0, <1>7, RemedyType DEF refuse, GuardRuns, Typed, TypeOK, git, sprint
  <1>8. ASSUME NEW r \in Roots, commit_out_of_band(r) PROVE Typed'
    <2>1. /\ head' \in [Roots -> Commit] /\ commits' \in Commit /\ calm' \in BOOLEAN
          /\ UNCHANGED <<diff, package_jsonl, sprint, stage, told, pc, deaths>>
      BY <1>2, <1>8 DEF commit_out_of_band
    <2> QED BY <1>0, <2>1 DEF Typed, TypeOK, sprint
  <1>9. ASSUME NEW r \in Roots, discard_worktree(r) PROVE Typed'
    BY <1>0, <1>9 DEF discard_worktree, Typed, TypeOK, git, sprint
  <1>10. CASE recut
    BY <1>0, <1>10 DEF recut, CutsPackage, Typed, TypeOK, git, sprint
  <1>11. CASE rerecord
    <2>1. package_jsonl' \in Seq(LineOf(PackageRow))
      BY <1>1, <1>11, RowsType DEF rerecord, Records
    <2> QED BY <1>0, <1>11, <2>1 DEF rerecord, Typed, TypeOK, git, sprint
  <1>12. CASE next_sprint
    BY <1>0, <1>12, BoundAssumption DEF next_sprint, Typed, TypeOK, git
  <1>13. CASE die
    <2>1. package_jsonl' \in Seq(LineOf(PackageRow))
      <3>1. CASE UNCHANGED package_jsonl
        BY <1>0, <3>1 DEF TypeOK
      <3>2. CASE /\ pc \in {"cut", "recut"}
                 /\ \E row \in {None} \cup (IF pc = "cut" THEN RowOfExecute ELSE {RowOfRemedy}) :
                        package_jsonl' = Written(package_jsonl, [row |-> row, ended |-> FALSE])
        <4>1. PICK row \in {None} \cup (IF pc = "cut" THEN RowOfExecute ELSE {RowOfRemedy}) :
                 package_jsonl' = Written(package_jsonl, [row |-> row, ended |-> FALSE])
          BY <3>2
        <4>2. row \in PackageRow \cup {None}
          BY <3>2, <4>1, RowsType
        <4>3. [row |-> row, ended |-> FALSE] \in LineOf(PackageRow)
          BY <4>2 DEF LineOf
        <4> QED BY <1>0, <4>1, <4>3, WrittenType DEF TypeOK
      <3> QED BY <1>13, <3>1, <3>2 DEF die
    <2>2. calm' \in BOOLEAN
      BY <1>0, <1>13 DEF die, TypeOK
    <2> QED BY <1>0, <1>13, <2>1, <2>2, BoundAssumption DEF die, Typed, TypeOK, git, sprint
  <1>14. CASE UNCHANGED vars
    BY <1>0, <1>14 DEF vars, Typed, TypeOK, git, sprint
  <1> QED BY <1>3, <1>4, <1>5, <1>6, <1>7, <1>8, <1>9, <1>10, <1>11, <1>12, <1>13, <1>14 DEF Next

\* The trail stays a trail of records and torn lines, what a refusal tells stays a root and
\* a commit: whatever tears, whoever commits and whatever an EXECUTE leaves unrecorded.
THEOREM TypeCorrect == Spec => []TypeOK
  <1>1. Init => Typed
    BY InitEstablishes DEF Init, IInv, Typed
  <1>2. Typed => TypeOK
    BY DEF Typed
  <1> QED BY <1>1, <1>2, TypedKept, PTL DEF Spec
=============================================================================
