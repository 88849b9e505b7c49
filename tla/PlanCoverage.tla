---------------------------- MODULE PlanCoverage ----------------------------
(***************************************************************************)
(* plan_coverage.py: which `### Task N` headings of a dev plan count, and  *)
(* whether they join its stories both ways. plan_task_headings walks the   *)
(* lines once and carries the fence it is in; validate_plan_coverage then  *)
(* walks the headings it found. One action for each way an iteration of    *)
(* either loop can go.                                                     *)
(***************************************************************************)
EXTENDS Documents, FiniteSets, SequencesExt

VARIABLES plan,        \* the text, as lines
          story_ids,   \* the stories of the sprint doc
          line,        \* the line plan_task_headings looks at
          fence,       \* fence_char and fence_len, None outside a fence
          headings,    \* the headings found, as positions in the plan
          at,          \* the heading validate_plan_coverage looks at
          named,       \* the known stories a heading has named
          failures,    \* the violations, as what they say and of whom
          pc

coverage_vars == <<plan, story_ids, line, fence, headings, at, named, failures, pc>>
input == <<plan, story_ids>>
joined == <<at, named, failures>>

----------------------------------------------------------------------------
(* The fence rules. *)

\* A backtick opener's info string must not hold a backtick; a tilde's may.
OpensFence(l) == l.kind = "fence" /\ ~(l.char = "backtick" /\ l.info = "ticked")

\* Variant: a closer of the same character, however short.
ClosesFence_AnyRun(f, l) == l.kind = "fence" /\ l.char = f.char /\ l.info = "blank"

\* The same character, at least as long, and nothing after it.
ClosesFence(f, l) ==
    l.kind = "fence" /\ l.char = f.char /\ l.run >= f.run /\ l.info = "blank"

----------------------------------------------------------------------------
CoverageInit ==
    /\ plan \in Plans
    /\ story_ids \in SUBSET StoryId
    /\ line = 1
    /\ fence = None
    /\ headings = <<>>
    /\ at = 1
    /\ named = {}
    /\ failures = {}
    /\ pc = "scan"

Scans == pc = "scan" /\ line <= Len(plan) /\ line' = line + 1 /\ UNCHANGED <<input, joined, pc>>

open_fence ==
    /\ Scans
    /\ fence = None
    /\ OpensFence(plan[line])
    /\ fence' = [char |-> plan[line].char, run |-> plan[line].run]
    /\ UNCHANGED headings

take_heading ==
    /\ Scans
    /\ fence = None
    /\ plan[line].kind = "task"
    /\ headings' = Append(headings, line)
    /\ UNCHANGED fence

close_fence ==
    /\ Scans
    /\ fence # None
    /\ ClosesFence(fence, plan[line])
    /\ fence' = None
    /\ UNCHANGED headings

pass_line ==
    /\ Scans
    /\ IF fence = None
       THEN ~OpensFence(plan[line]) /\ plan[line].kind # "task"
       ELSE ~ClosesFence(fence, plan[line])
    /\ UNCHANGED <<fence, headings>>

\* An unclosed fence runs to the end of the file. A plan without a heading is refused.
end_of_plan ==
    /\ pc = "scan"
    /\ line > Len(plan)
    /\ IF headings = <<>>
       THEN pc' = "done" /\ failures' = {[what |-> "no headings", of |-> None]}
       ELSE pc' = "join" /\ UNCHANGED failures
    /\ UNCHANGED <<input, line, fence, headings, at, named>>

----------------------------------------------------------------------------
Joins == pc = "join" /\ at <= Len(headings) /\ at' = at + 1
         /\ UNCHANGED <<input, line, fence, headings, pc>>

\* Variant: an id the sprint doc does not have is passed over.
join_heading_UnknownPasses ==
    LET h == plan[headings[at]] IN
    /\ Joins
    /\ named' = named \cup (h.names \cap story_ids)
    /\ failures' = failures \cup
           {[what |-> "names no story", of |-> headings[at]] : x \in
                {y \in {1} : h.names = {} /\ ~h.process}}

\* A heading that names no story must be marked (process); each id it names is a known
\* story or a violation.
join_heading ==
    LET h == plan[headings[at]] IN
    /\ Joins
    /\ named' = named \cup (h.names \cap story_ids)
    /\ failures' = failures \cup
           (IF h.names = {} /\ ~h.process
            THEN {[what |-> "names no story", of |-> headings[at]]} ELSE {}) \cup
           {[what |-> "unknown story", of |-> s] : s \in h.names \ story_ids}

check_stories ==
    /\ pc = "join"
    /\ at > Len(headings)
    /\ failures' = failures \cup
           {[what |-> "dropped story", of |-> s] : s \in story_ids \ named}
    /\ pc' = "done"
    /\ UNCHANGED <<input, line, fence, headings, at, named>>

CoverageNext == \/ open_fence \/ take_heading \/ close_fence \/ pass_line \/ end_of_plan
        \/ join_heading \/ check_stories

CoverageSpec == CoverageInit /\ [][CoverageNext]_coverage_vars

----------------------------------------------------------------------------
(* CommonMark's rule, said of the whole document instead of line by line.  *)

\* Which lines may open a block, and which may close the block an opener opened.
Opener(l) == l.kind = "fence" /\ (l.char = "tilde" \/ l.info # "ticked")
Closer(o, l) == l.kind = "fence" /\ l.info = "blank" /\ l.char = o.char /\ l.run >= o.run

\* No block opened at a line of `opened` before l is still open there.
Outside(doc, opened, l) ==
    \A j \in opened : j < l => \E m \in DOMAIN doc : j < m /\ m < l /\ Closer(doc[j], doc[m])

\* `opened` holds the lines that open a block: the openers outside every other block.
OpensBlocks(doc, opened) ==
    \A k \in DOMAIN doc : k \in opened <=> Opener(doc[k]) /\ Outside(doc, opened, k)

\* The task headings no code block quotes.
TaskHeadings(doc, opened) ==
    {l \in DOMAIN doc : doc[l].kind = "task" /\ Outside(doc, opened, l)}

\* The join is clean both ways.
Covers(doc, heads, stories) ==
    /\ heads # {}
    /\ \A h \in heads : IF doc[h].names = {} THEN doc[h].process ELSE doc[h].names \subseteq stories
    /\ \A s \in stories : \E h \in heads : s \in doc[h].names

----------------------------------------------------------------------------
CoverageTypeOK ==
    /\ plan \in Seq(PlanLine)
    /\ story_ids \in SUBSET StoryId
    /\ line \in Nat \ {0}
    /\ fence \in Fence \cup {None}
    /\ headings \in Seq(DOMAIN plan)
    /\ at \in Nat \ {0}
    /\ named \in SUBSET story_ids
    /\ pc \in {"scan", "join", "done"}

\* plan_task_headings finds every task heading outside the code blocks, and none inside
\* one, in document order: however fences nest, mix characters or stay open.
FindsTheHeadings ==
    pc # "scan" =>
        /\ \E opened \in SUBSET DOMAIN plan :
              /\ OpensBlocks(plan, opened)
              /\ ToSet(headings) = TaskHeadings(plan, opened)
        /\ \A i, j \in DOMAIN headings : i < j => headings[i] < headings[j]

\* validate_plan_coverage returns no message exactly when every heading that counts
\* names known stories or is marked (process), and every story is named by one of them.
JoinIsExact == pc = "done" => (failures = {} <=> Covers(plan, ToSet(headings), story_ids))
=============================================================================
