---------------------------- MODULE MCLoadTasks ----------------------------
(***************************************************************************)
(* LoadTasks for TLC: every sprint doc and every dev plan of at most       *)
(* MaxLines lines. The docs have one line of each kind and story; the      *)
(* plans have fences that can and cannot open or close one another.        *)
(***************************************************************************)
EXTENDS LoadTasks

CONSTANT MaxLines   \* bound: lines of a document

DocLines == SectionLine \cup StoryLine \cup ForeignLine \cup TextLine
                \cup [kind : {"proof"}, unknown : {{}, {"seam"}}]

FenceOf(char, run, info) == [kind |-> "fence", char |-> char, run |-> run, info |-> info]
TaskOf(names, process) == [kind |-> "task", names |-> names, process |-> process]

\* Nested and unclosed fences, a shorter closer, the other character, an inline span;
\* headings that name none, one or all of the ids, known or not.
PlanLines == {FenceOf("backtick", 3, "blank"), FenceOf("backtick", 4, "text"), FenceOf("backtick", 4, "blank"),
              FenceOf("backtick", 3, "ticked"), FenceOf("tilde", 3, "blank")}
                 \cup {TaskOf({}, process) : process \in BOOLEAN}
                 \cup {TaskOf({s}, FALSE) : s \in StoryId} \cup {TaskOf(StoryId, TRUE)} \cup TextLine

ShortDocs == UNION {[1..n -> DocLines] : n \in 0..MaxLines}
ShortPlans == UNION {[1..n -> PlanLines] : n \in 0..MaxLines}
=============================================================================
