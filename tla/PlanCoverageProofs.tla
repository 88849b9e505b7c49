------------------------- MODULE PlanCoverageProofs -------------------------
(***************************************************************************)
(* The scanner and the join of PlanCoverage are right about every plan, of *)
(* any length and over any fences and headings. The loop invariant of the  *)
(* scan says of the lines behind it what FindsTheHeadings says of the      *)
(* whole document; the set of lines that opened a block is only in the     *)
(* invariant, not in the code.                                             *)
(***************************************************************************)
EXTENDS PlanCoverage, TLAPS

LEMMA SeqDomain ==
    ASSUME NEW S, NEW s \in Seq(S)
    PROVE  Len(s) \in Nat /\ DOMAIN s = 1..Len(s)
  OBVIOUS

\* A counter past the end of a sequence has passed every position.
LEMMA PastTheEnd ==
    ASSUME NEW S, NEW s \in Seq(S), NEW n \in Nat, n > Len(s)
    PROVE  \A i \in DOMAIN s : i < n
  BY SeqDomain

\* One more position is behind a counter that moves on by one.
LEMMA OneMore ==
    ASSUME NEW S, NEW s \in Seq(S), NEW n \in DOMAIN s
    PROVE  /\ n \in Nat \ {0} /\ n + 1 \in Nat \ {0} /\ n + 1 <= Len(s) + 1 /\ s # <<>>
           /\ \A i \in DOMAIN s : i < n + 1 <=> i < n \/ i = n
  <1>1. Len(s) \in Nat /\ DOMAIN s = 1..Len(s)
    BY SeqDomain
  <1>2. s # <<>>
    BY <1>1
  <1> QED BY <1>1, <1>2

LEMMA AppendedSet ==
    ASSUME NEW S, NEW s \in Seq(S), NEW x \in S
    PROVE  /\ Append(s, x) \in Seq(S)
           /\ ToSet(Append(s, x)) = ToSet(s) \cup {x}
  <1>1. Append(s, x) \in Seq(S) /\ Len(Append(s, x)) = Len(s) + 1
    OBVIOUS
  <1>2. \A i \in 1..Len(s) : Append(s, x)[i] = s[i]
    OBVIOUS
  <1>3. Append(s, x)[Len(s) + 1] = x
    OBVIOUS
  <1>4. DOMAIN s = 1..Len(s) /\ DOMAIN Append(s, x) = 1..(Len(s) + 1) /\ Len(s) \in Nat
    BY <1>1
  <1>5. ASSUME NEW y PROVE y \in ToSet(Append(s, x)) <=> y \in ToSet(s) \cup {x}
    <2>1. CASE y \in ToSet(Append(s, x))
      <3>1. PICK i \in 1..(Len(s) + 1) : y = Append(s, x)[i]
        BY <2>1, <1>4 DEF ToSet
      <3>2. CASE i = Len(s) + 1
        BY <2>1, <3>1, <3>2, <1>3
      <3>3. CASE i \in 1..Len(s)
        BY <2>1, <3>1, <3>3, <1>2, <1>4 DEF ToSet
      <3> QED BY <3>2, <3>3, <1>4
    <2>2. CASE y \in ToSet(s)
      <3>1. PICK i \in 1..Len(s) : y = s[i]
        BY <2>2, <1>4 DEF ToSet
      <3>2. i \in 1..(Len(s) + 1)
        BY <1>4
      <3> QED BY <3>1, <3>2, <1>2, <1>4 DEF ToSet
    <2>3. CASE y = x
      BY <2>3, <1>3, <1>4 DEF ToSet
    <2> QED BY <2>1, <2>2, <2>3
  <1> QED BY <1>1, <1>5

----------------------------------------------------------------------------
(* The scan: what is settled of the lines before n, when the scanner holds *)
(* the fence f and has found the headings heads, and `opened` are the      *)
(* lines before n that opened a block.                                     *)

Before(doc, n) == {k \in DOMAIN doc : k < n}

Behind(doc, n, f, heads, opened) ==
    /\ opened \subseteq Before(doc, n)
    /\ \A k \in Before(doc, n) : k \in opened <=> Opener(doc[k]) /\ Outside(doc, opened, k)
    /\ f = None => Outside(doc, opened, n)
    /\ f # None => \E j \in opened :
           /\ f = [char |-> doc[j].char, run |-> doc[j].run]
           /\ \A m \in Before(doc, n) : j < m => ~Closer(doc[j], doc[m])
    /\ heads = {l \in Before(doc, n) : doc[l].kind = "task" /\ Outside(doc, opened, l)}

LEMMA NextLine ==
    ASSUME NEW doc \in Seq(PlanLine), NEW n \in DOMAIN doc
    PROVE  /\ n \in Nat /\ DOMAIN doc \subseteq Nat
           /\ n \notin Before(doc, n)
           /\ Before(doc, n + 1) = Before(doc, n) \cup {n}
  BY DEF Before

LEMMA LineType ==
    ASSUME NEW doc \in Seq(PlanLine), NEW n \in DOMAIN doc
    PROVE  /\ doc[n].kind \in {"task", "fence", "text"}
           /\ doc[n].kind = "task" => doc[n] \in TaskLine
           /\ doc[n].kind = "fence" => doc[n] \in FenceLine
  <1>1. doc[n] \in PlanLine
    OBVIOUS
  <1> QED BY <1>1 DEF PlanLine, TaskLine, FenceLine, TextLine

\* The code's test of an opener is CommonMark's.
LEMMA OpenersAgree ==
    ASSUME NEW doc \in Seq(PlanLine), NEW n \in DOMAIN doc
    PROVE  OpensFence(doc[n]) <=> Opener(doc[n])
  <1>1. doc[n].kind = "fence" => doc[n].char \in {"backtick", "tilde"}
    BY LineType DEF FenceLine
  <1> QED BY <1>1 DEF OpensFence, Opener

\* A line that opens a block settles nothing anew about the lines up to it.
LEMMA OpeningLeaves ==
    ASSUME NEW doc \in Seq(PlanLine), NEW n \in DOMAIN doc, NEW opened, NEW l \in DOMAIN doc, l <= n
    PROVE  Outside(doc, opened \cup {n}, l) <=> Outside(doc, opened, l)
  BY NextLine DEF Outside

\* Outside the blocks before a line, no block is open after it either, unless it opens one.
LEMMA StillOutside ==
    ASSUME NEW doc \in Seq(PlanLine), NEW n \in DOMAIN doc, NEW opened,
           opened \subseteq Before(doc, n), Outside(doc, opened, n)
    PROVE  Outside(doc, opened, n + 1)
  BY NextLine DEF Outside, Before

\* A block with no closer before a line quotes that line.
LEMMA StillInside ==
    ASSUME NEW doc \in Seq(PlanLine), NEW n \in DOMAIN doc, NEW opened, NEW j \in opened,
           opened \subseteq Before(doc, n),
           \A m \in Before(doc, n) : j < m => ~Closer(doc[j], doc[m])
    PROVE  ~Outside(doc, opened, n)
  BY NextLine DEF Outside, Before

LEMMA Opening ==
    ASSUME NEW doc \in Seq(PlanLine), NEW n \in DOMAIN doc, NEW heads, NEW opened,
           Behind(doc, n, None, heads, opened), Opener(doc[n]), NEW f, f # None,
           f = [char |-> doc[n].char, run |-> doc[n].run]
    PROVE  Behind(doc, n + 1, f, heads, opened \cup {n})
  <1> DEFINE new == opened \cup {n}
  <1>1. \A l \in Before(doc, n + 1) : Outside(doc, new, l) <=> Outside(doc, opened, l)
    BY OpeningLeaves, NextLine DEF Before
  <1>2. new \subseteq Before(doc, n + 1)
    BY NextLine DEF Behind
  <1>3. \A k \in Before(doc, n + 1) : k \in new <=> Opener(doc[k]) /\ Outside(doc, new, k)
    BY <1>1, NextLine DEF Behind
  <1>4. \A m \in Before(doc, n + 1) : n < m => ~Closer(doc[n], doc[m])
    BY NextLine DEF Before
  <1>5. heads = {l \in Before(doc, n + 1) : doc[l].kind = "task" /\ Outside(doc, new, l)}
    <2>1. doc[n].kind # "task"
      BY DEF Opener
    <2> QED BY <1>1, <2>1, NextLine DEF Behind
  <1> QED BY <1>2, <1>3, <1>4, <1>5 DEF Behind

\* Any line outside the blocks that does not open one.
LEMMA Passing ==
    ASSUME NEW doc \in Seq(PlanLine), NEW n \in DOMAIN doc, NEW heads, NEW opened,
           Behind(doc, n, None, heads, opened), ~Opener(doc[n])
    PROVE  /\ doc[n].kind = "task" => Behind(doc, n + 1, None, heads \cup {n}, opened)
           /\ doc[n].kind # "task" => Behind(doc, n + 1, None, heads, opened)
  <1>1. opened \subseteq Before(doc, n) /\ Outside(doc, opened, n)
    BY DEF Behind
  <1>2. Outside(doc, opened, n + 1)
    BY <1>1, StillOutside
  <1>3. opened \subseteq Before(doc, n + 1)
    BY <1>1, NextLine
  <1>4. \A k \in Before(doc, n + 1) : k \in opened <=> Opener(doc[k]) /\ Outside(doc, opened, k)
    BY <1>1, NextLine DEF Behind
  <1>5. {l \in Before(doc, n + 1) : doc[l].kind = "task" /\ Outside(doc, opened, l)}
            = heads \cup {l \in {n} : doc[l].kind = "task"}
    BY <1>1, NextLine DEF Behind
  <1> QED BY <1>2, <1>3, <1>4, <1>5 DEF Behind

\* Any line inside a block: it opens nothing and counts for nothing, and may close it.
LEMMA Quoting ==
    ASSUME NEW doc \in Seq(PlanLine), NEW n \in DOMAIN doc, NEW heads, NEW opened, NEW f,
           f # None, Behind(doc, n, f, heads, opened)
    PROVE  /\ ClosesFence(f, doc[n]) => Behind(doc, n + 1, None, heads, opened)
           /\ ~ClosesFence(f, doc[n]) => Behind(doc, n + 1, f, heads, opened)
  <1>1. PICK j \in opened :
            /\ f = [char |-> doc[j].char, run |-> doc[j].run]
            /\ \A m \in Before(doc, n) : j < m => ~Closer(doc[j], doc[m])
    BY DEF Behind
  <1>2. opened \subseteq Before(doc, n) /\ j < n /\ j \in DOMAIN doc
    BY DEF Behind, Before
  <1>3. ~Outside(doc, opened, n)
    BY <1>1, <1>2, StillInside
  <1>4. ClosesFence(f, doc[n]) <=> Closer(doc[j], doc[n])
    BY <1>1 DEF ClosesFence, Closer
  <1>5. opened \subseteq Before(doc, n + 1)
    BY <1>2, NextLine
  <1>6. \A k \in Before(doc, n + 1) : k \in opened <=> Opener(doc[k]) /\ Outside(doc, opened, k)
    BY <1>2, <1>3, NextLine DEF Behind
  <1>7. heads = {l \in Before(doc, n + 1) : doc[l].kind = "task" /\ Outside(doc, opened, l)}
    BY <1>3, NextLine DEF Behind
  <1>8. ASSUME ClosesFence(f, doc[n]) PROVE Outside(doc, opened, n + 1)
    <2> SUFFICES ASSUME NEW i \in opened
                 PROVE  \E m \in DOMAIN doc : i < m /\ m < n + 1 /\ Closer(doc[i], doc[m])
      BY DEF Outside
    <2>1. i \in DOMAIN doc /\ i < n /\ i \in Nat /\ j \in Nat /\ n \in Nat
      BY <1>2, NextLine DEF Before
    <2>2. CASE i = j
      BY <1>4, <1>8, <2>1, <2>2
    <2>3. CASE i < j
      <3>1. Outside(doc, opened, j)
        BY <1>2 DEF Behind
      <3>2. PICK m \in DOMAIN doc : i < m /\ m < j /\ Closer(doc[i], doc[m])
        BY <2>3, <3>1 DEF Outside
      <3>3. m < n + 1
        BY <1>2, <2>1, <3>2, NextLine
      <3> QED BY <3>2, <3>3
    <2>4. CASE j < i
      <3>1. Outside(doc, opened, i)
        BY <1>2 DEF Behind
      <3>2. PICK m \in DOMAIN doc : j < m /\ m < i /\ Closer(doc[j], doc[m])
        BY <2>4, <3>1 DEF Outside
      <3>3. m \in Before(doc, n)
        BY <2>1, <3>2, NextLine DEF Before
      <3> QED BY <1>1, <3>2, <3>3
    <2> QED BY <2>1, <2>2, <2>3, <2>4
  <1>9. ASSUME ~ClosesFence(f, doc[n])
        PROVE  \A m \in Before(doc, n + 1) : j < m => ~Closer(doc[j], doc[m])
    BY <1>1, <1>4, <1>9, NextLine
  <1> QED BY <1>1, <1>5, <1>6, <1>7, <1>8, <1>9 DEF Behind

----------------------------------------------------------------------------
(* The invariant of both loops. *)

InOrder == \A i, j \in DOMAIN headings : i < j => headings[i] < headings[j]

ScanInv ==
    pc = "scan" => /\ line <= Len(plan) + 1
                   /\ at = 1 /\ named = {} /\ failures = {}
                   /\ InOrder
                   /\ \E opened : Behind(plan, line, fence, ToSet(headings), opened)

Good(h) == IF plan[h].names = {} THEN plan[h].process ELSE plan[h].names \subseteq story_ids

JoinInv ==
    pc = "join" => /\ headings # <<>>
                   /\ at <= Len(headings) + 1
                   /\ \A s \in story_ids :
                         s \in named <=> \E i \in DOMAIN headings : i < at /\ s \in plan[headings[i]].names
                   /\ failures = {} <=> \A i \in DOMAIN headings : i < at => Good(headings[i])

IInv == CoverageTypeOK /\ ScanInv /\ JoinInv /\ FindsTheHeadings /\ JoinIsExact

LEMMA InitEstablishes == CoverageInit => IInv
  <1> SUFFICES ASSUME CoverageInit PROVE IInv
    OBVIOUS
  <1>1. CoverageTypeOK
    BY PlansAssumption DEF CoverageInit, CoverageTypeOK
  <1>2. Before(plan, 1) = {}
    BY <1>1 DEF Before, CoverageTypeOK
  <1>3. ToSet(<< >>) = {}
    BY DEF ToSet
  <1>4. Behind(plan, 1, None, {}, {})
    BY <1>2 DEF Behind, Outside
  <1>5. ScanInv
    <2>1. Behind(plan, line, fence, ToSet(headings), {})
      BY <1>3, <1>4 DEF CoverageInit
    <2>2. line <= Len(plan) + 1 /\ InOrder
      BY <1>1 DEF CoverageInit, InOrder, CoverageTypeOK
    <2> QED BY <2>1, <2>2 DEF CoverageInit, ScanInv
  <1> QED BY <1>1, <1>5 DEF CoverageInit, IInv, JoinInv, FindsTheHeadings, JoinIsExact

\* What every iteration of the first loop has in hand.
LEMMA ScanStep ==
    ASSUME IInv, Scans
    PROVE  /\ CoverageTypeOK /\ pc = "scan" /\ line \in DOMAIN plan /\ plan \in Seq(PlanLine)
           /\ line' <= Len(plan) + 1
           /\ line' = line + 1 /\ UNCHANGED <<plan, story_ids, at, named, failures, pc>>
           /\ at = 1 /\ named = {} /\ failures = {} /\ InOrder
           /\ \E opened : Behind(plan, line, fence, ToSet(headings), opened)
           /\ \A i \in DOMAIN headings : headings[i] < line /\ headings[i] \in DOMAIN plan
  <1>1. /\ CoverageTypeOK /\ pc = "scan" /\ line \in DOMAIN plan /\ plan \in Seq(PlanLine)
        /\ line' = line + 1 /\ line' <= Len(plan) + 1
        /\ UNCHANGED <<plan, story_ids, at, named, failures, pc>>
    BY DEF IInv, CoverageTypeOK, Scans, input, joined
  <1>2. PICK opened : Behind(plan, line, fence, ToSet(headings), opened)
    BY <1>1 DEF IInv, ScanInv
  <1>3. ASSUME NEW i \in DOMAIN headings PROVE headings[i] < line /\ headings[i] \in DOMAIN plan
    <2>1. headings[i] \in ToSet(headings)
      BY DEF ToSet
    <2> QED BY <1>2, <2>1 DEF Behind, Before
  <1> QED BY <1>1, <1>2, <1>3 DEF IInv, ScanInv

LEMMA OpenFenceKeeps == IInv /\ open_fence => IInv'
  <1> SUFFICES ASSUME IInv, open_fence PROVE IInv'
    OBVIOUS
  <1>1. /\ Scans /\ fence = None /\ OpensFence(plan[line]) /\ headings' = headings
        /\ fence' = [char |-> plan[line].char, run |-> plan[line].run]
    BY DEF open_fence
  <1>2. fence' \in Fence /\ fence' # None
    <2>1. plan[line] \in FenceLine
      BY <1>1, ScanStep, LineType DEF OpensFence
    <2> QED BY <1>1, <2>1, NoFenceAssumption DEF Fence, FenceLine
  <1>3. PICK opened : Behind(plan, line, fence, ToSet(headings), opened)
    BY <1>1, ScanStep
  <1>4. Behind(plan, line + 1, fence', ToSet(headings), opened \cup {line})
    BY <1>1, <1>2, <1>3, ScanStep, OpenersAgree, Opening
  <1>5. CoverageTypeOK'
    BY <1>1, <1>2, ScanStep DEF CoverageTypeOK
  <1>6. ScanInv'
    BY <1>1, <1>4, ScanStep DEF ScanInv, InOrder
  <1> QED BY <1>1, <1>5, <1>6, ScanStep DEF IInv, JoinInv, FindsTheHeadings, JoinIsExact

LEMMA TakeHeadingKeeps == IInv /\ take_heading => IInv'
  <1> SUFFICES ASSUME IInv, take_heading PROVE IInv'
    OBVIOUS
  <1>1. /\ Scans /\ fence = None /\ plan[line].kind = "task" /\ fence' = fence
        /\ headings' = Append(headings, line)
    BY DEF take_heading
  <1>2. PICK opened : Behind(plan, line, None, ToSet(headings), opened)
    BY <1>1, ScanStep
  <1>3. headings \in Seq(DOMAIN plan) /\ line \in DOMAIN plan
    BY <1>1, ScanStep DEF CoverageTypeOK
  <1>4. headings' \in Seq(DOMAIN plan) /\ ToSet(headings') = ToSet(headings) \cup {line}
    BY <1>1, <1>3, AppendedSet
  <1>5. Behind(plan, line + 1, None, ToSet(headings'), opened)
    BY <1>1, <1>2, <1>4, ScanStep, Passing DEF Opener
  <1>6. CoverageTypeOK'
    BY <1>1, <1>4, ScanStep DEF CoverageTypeOK
  <1>7. InOrder'
    <2>1. \A i \in DOMAIN headings : headings[i] < line
      BY <1>1, ScanStep
    <2>2. InOrder
      BY <1>1, ScanStep
    <2> QED BY <1>1, <1>3, <2>1, <2>2 DEF InOrder
  <1>8. ScanInv'
    BY <1>1, <1>5, <1>7, ScanStep DEF ScanInv
  <1> QED BY <1>1, <1>6, <1>8, ScanStep DEF IInv, JoinInv, FindsTheHeadings, JoinIsExact

LEMMA CloseFenceKeeps == IInv /\ close_fence => IInv'
  <1> SUFFICES ASSUME IInv, close_fence PROVE IInv'
    OBVIOUS
  <1>1. /\ Scans /\ fence # None /\ ClosesFence(fence, plan[line]) /\ fence' = None
        /\ headings' = headings
    BY DEF close_fence
  <1>2. PICK opened : Behind(plan, line, fence, ToSet(headings), opened)
    BY <1>1, ScanStep
  <1>3. Behind(plan, line + 1, None, ToSet(headings), opened)
    BY <1>1, <1>2, ScanStep, Quoting
  <1>4. CoverageTypeOK'
    BY <1>1, ScanStep DEF CoverageTypeOK
  <1>5. ScanInv'
    BY <1>1, <1>3, ScanStep DEF ScanInv, InOrder
  <1> QED BY <1>1, <1>4, <1>5, ScanStep DEF IInv, JoinInv, FindsTheHeadings, JoinIsExact

LEMMA PassLineKeeps == IInv /\ pass_line => IInv'
  <1> SUFFICES ASSUME IInv, pass_line PROVE IInv'
    OBVIOUS
  <1>1. /\ Scans /\ UNCHANGED <<fence, headings>>
        /\ fence = None => ~OpensFence(plan[line]) /\ plan[line].kind # "task"
        /\ fence # None => ~ClosesFence(fence, plan[line])
    BY DEF pass_line
  <1>2. PICK opened : Behind(plan, line, fence, ToSet(headings), opened)
    BY <1>1, ScanStep
  <1>3. Behind(plan, line + 1, fence, ToSet(headings), opened)
    <2>1. CASE fence = None
      BY <1>1, <1>2, <2>1, ScanStep, OpenersAgree, Passing
    <2>2. CASE fence # None
      BY <1>1, <1>2, <2>2, ScanStep, Quoting
    <2> QED BY <2>1, <2>2
  <1>4. CoverageTypeOK'
    BY <1>1, ScanStep DEF CoverageTypeOK
  <1>5. ScanInv'
    BY <1>1, <1>3, ScanStep DEF ScanInv, InOrder
  <1> QED BY <1>1, <1>4, <1>5, ScanStep DEF IInv, JoinInv, FindsTheHeadings, JoinIsExact

LEMMA EndOfPlanKeeps == IInv /\ end_of_plan => IInv'
  <1> SUFFICES ASSUME IInv, end_of_plan PROVE IInv'
    OBVIOUS
  <1>1. /\ CoverageTypeOK /\ pc = "scan" /\ line > Len(plan)
        /\ UNCHANGED <<plan, story_ids, line, fence, headings, at, named>>
        /\ \/ /\ headings = <<>> /\ pc' = "done"
              /\ failures' = {[what |-> "no headings", of |-> None]}
           \/ headings # <<>> /\ pc' = "join" /\ failures' = failures
        /\ at = 1 /\ named = {} /\ failures = {} /\ InOrder
    BY DEF IInv, ScanInv, end_of_plan, input
  <1>2. PICK opened : Behind(plan, line, fence, ToSet(headings), opened)
    BY <1>1 DEF IInv, ScanInv
  <1>3. Before(plan, line) = DOMAIN plan
    <2>1. plan \in Seq(PlanLine) /\ line \in Nat /\ line > Len(plan)
      BY <1>1 DEF CoverageTypeOK
    <2>2. \A k \in DOMAIN plan : k < line
      BY <2>1, PastTheEnd
    <2> QED BY <2>2 DEF Before
  <1>4. opened \in SUBSET DOMAIN plan /\ OpensBlocks(plan, opened)
    BY <1>2, <1>3 DEF Behind, OpensBlocks
  <1>5. ToSet(headings) = TaskHeadings(plan, opened)
    BY <1>2, <1>3 DEF Behind, TaskHeadings
  <1>6. CoverageTypeOK'
    BY <1>1 DEF CoverageTypeOK
  <1>7. FindsTheHeadings'
    <2>1. \E o \in SUBSET DOMAIN plan : OpensBlocks(plan, o) /\ ToSet(headings) = TaskHeadings(plan, o)
      BY <1>4, <1>5
    <2> QED BY <1>1, <2>1 DEF FindsTheHeadings, InOrder
  <1>8. JoinInv'
    BY <1>1 DEF JoinInv, CoverageTypeOK
  <1>9. JoinIsExact'
    <2>1. ASSUME headings = <<>> PROVE ~Covers(plan, ToSet(headings), story_ids)
      BY <2>1 DEF Covers, ToSet
    <2> QED BY <1>1, <2>1 DEF JoinIsExact
  <1> QED BY <1>1, <1>6, <1>7, <1>8, <1>9 DEF IInv, ScanInv

LEMMA JoinHeadingKeeps == IInv /\ join_heading => IInv'
  <1> SUFFICES ASSUME IInv, join_heading PROVE IInv'
    OBVIOUS
  <1> DEFINE h == plan[headings[at]]
  <1>0. at \in DOMAIN headings /\ headings \in Seq(DOMAIN plan)
    <2>1. headings \in Seq(DOMAIN plan) /\ at \in Nat \ {0} /\ at <= Len(headings)
      BY DEF IInv, CoverageTypeOK, join_heading, Joins
    <2> QED BY <2>1, SeqDomain
  <1>1. /\ CoverageTypeOK /\ JoinInv /\ pc = "join" /\ at \in DOMAIN headings /\ at' = at + 1
        /\ UNCHANGED <<plan, story_ids, line, fence, headings, pc>>
        /\ named' = named \cup (h.names \cap story_ids)
        /\ failures' = failures \cup
               (IF h.names = {} /\ ~h.process
                THEN {[what |-> "names no story", of |-> headings[at]]} ELSE {}) \cup
               {[what |-> "unknown story", of |-> s] : s \in h.names \ story_ids}
    BY <1>0 DEF IInv, join_heading, Joins, input
  <1>4. /\ at + 1 \in Nat \ {0} /\ at + 1 <= Len(headings) + 1 /\ headings # <<>>
        /\ \A i \in DOMAIN headings : i < at + 1 <=> i < at \/ i = at
    BY <1>0, OneMore
  <1>2. CoverageTypeOK'
    BY <1>1, <1>4 DEF CoverageTypeOK
  <1>3. failures' = {} <=> failures = {} /\ Good(headings[at])
    BY <1>1 DEF Good
  <1>5. \A i \in DOMAIN headings : i < at' <=> i < at \/ i = at
    BY <1>1, <1>4
  <1>6. \A s \in story_ids :
            s \in named' <=> \E i \in DOMAIN headings : i < at' /\ s \in plan[headings[i]].names
    BY <1>1, <1>5 DEF JoinInv
  <1>7. failures' = {} <=> \A i \in DOMAIN headings : i < at' => Good(headings[i])
    BY <1>1, <1>3, <1>5 DEF JoinInv
  <1>8. JoinInv'
    <2>1. headings # <<>> /\ at' <= Len(headings) + 1
      BY <1>1, <1>4
    <2> QED BY <1>1, <1>6, <1>7, <2>1 DEF JoinInv, Good
  <1> QED BY <1>1, <1>2, <1>8 DEF IInv, ScanInv, FindsTheHeadings, JoinIsExact

LEMMA CheckStoriesKeeps == IInv /\ check_stories => IInv'
  <1> SUFFICES ASSUME IInv, check_stories PROVE IInv'
    OBVIOUS
  <1>0. DOMAIN headings = 1..Len(headings) /\ Len(headings) \in Nat /\ at \in Nat
    BY SeqDomain DEF IInv, CoverageTypeOK
  <1>1. /\ CoverageTypeOK /\ JoinInv /\ pc = "join" /\ at > Len(headings) /\ pc' = "done"
        /\ UNCHANGED <<plan, story_ids, line, fence, headings, at, named>>
        /\ failures' = failures \cup
               {[what |-> "dropped story", of |-> s] : s \in story_ids \ named}
    BY DEF IInv, check_stories, input
  <1>2. failures' = {} <=> failures = {} /\ story_ids \subseteq named
    BY <1>1
  <1>3. \A i \in DOMAIN headings : i < at
    <2>1. headings \in Seq(DOMAIN plan) /\ at \in Nat /\ at > Len(headings)
      BY <1>1 DEF CoverageTypeOK
    <2> QED BY <2>1, PastTheEnd
  <1>4. \A s \in story_ids : s \in named <=> \E k \in ToSet(headings) : s \in plan[k].names
    BY <1>1, <1>3 DEF JoinInv, ToSet
  <1>5. failures = {} <=> \A k \in ToSet(headings) : Good(k)
    BY <1>1, <1>3 DEF JoinInv, ToSet
  <1>6. ToSet(headings) # {}
    <2>1. headings # <<>> /\ headings \in Seq(DOMAIN plan)
      BY <1>1 DEF JoinInv, CoverageTypeOK
    <2>2. 1 \in DOMAIN headings
      BY <1>0, <2>1
    <2> QED BY <2>2 DEF ToSet
  <1>7. JoinIsExact'
    BY <1>1, <1>2, <1>4, <1>5, <1>6 DEF JoinIsExact, Covers, Good
  <1>8. CoverageTypeOK'
    BY <1>1 DEF CoverageTypeOK
  <1> QED BY <1>1, <1>7, <1>8 DEF IInv, ScanInv, JoinInv, FindsTheHeadings

THEOREM Invariance == CoverageSpec => []IInv
  <1>1. CoverageInit => IInv
    BY InitEstablishes
  <1>2. IInv /\ [CoverageNext]_coverage_vars => IInv'
    <2> SUFFICES ASSUME IInv, [CoverageNext]_coverage_vars PROVE IInv'
      OBVIOUS
    <2>1. CASE CoverageNext
      BY <2>1, OpenFenceKeeps, TakeHeadingKeeps, CloseFenceKeeps, PassLineKeeps,
         EndOfPlanKeeps, JoinHeadingKeeps, CheckStoriesKeeps DEF CoverageNext
    <2>2. CASE UNCHANGED coverage_vars
      BY <2>2 DEF coverage_vars, IInv, CoverageTypeOK, ScanInv, InOrder, JoinInv, Good, FindsTheHeadings, JoinIsExact
    <2> QED BY <2>1, <2>2
  <1> QED BY <1>1, <1>2, PTL DEF CoverageSpec

\* plan_task_headings is right about every plan: the headings it returns are the task
\* headings outside every code block, in document order.
THEOREM ScanIsRight == CoverageSpec => []FindsTheHeadings
  <1>1. IInv => FindsTheHeadings
    BY DEF IInv
  <1> QED BY <1>1, Invariance, PTL

\* validate_plan_coverage accepts exactly the plans that join their stories both ways.
THEOREM JoinIsRight == CoverageSpec => []JoinIsExact
  <1>1. IInv => JoinIsExact
    BY DEF IInv
  <1> QED BY <1>1, Invariance, PTL

\* The fence scanner's and the join's variables keep their kinds, over plans of any length.
THEOREM TypeCorrect == CoverageSpec => []CoverageTypeOK
  <1>1. IInv => CoverageTypeOK
    BY DEF IInv, ScanInv, JoinInv
  <1> QED BY <1>1, Invariance, PTL
=============================================================================
