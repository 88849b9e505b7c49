----------------------------- MODULE Documents -----------------------------
(***************************************************************************)
(* The two documents the `tasks` verb reads, as the regular expressions of *)
(* proofs.py and plan_coverage.py see them: line by line, and of a line    *)
(* only what they match.                                                   *)
(***************************************************************************)
EXTENDS Naturals, Sequences

CONSTANTS StoryId,   \* ids of the configured prefix
          Docs,      \* the sprint docs read: sequences of lines
          Plans,     \* the dev plans read: sequences of lines
          None       \* Python's None

TextLine == [kind : {"text"}]

\* A sprint doc. Of the three tokens of a proof line only the unknown ones matter.
SectionLine == [kind : {"section"}, stories : BOOLEAN]
StoryLine == [kind : {"story"}, id : StoryId]
ForeignLine == [kind : {"foreign"}]     \* story-shaped, of another prefix
ProofLine == [kind : {"proof"}, unknown : SUBSET {"seam", "impact", "provable"}]
DocLine == SectionLine \cup StoryLine \cup ForeignLine \cup ProofLine \cup TextLine

\* A dev plan. What follows the run of a fence is nothing but whitespace, text, or text
\* with a backtick in it.
TaskLine == [kind : {"task"}, names : SUBSET StoryId, process : BOOLEAN]
FenceLine == [kind : {"fence"}, char : {"backtick", "tilde"}, run : Nat \ {0, 1, 2},
              info : {"blank", "text", "ticked"}]
PlanLine == TaskLine \cup FenceLine \cup TextLine
Fence == [char : {"backtick", "tilde"}, run : Nat \ {0, 1, 2}]

ASSUME DocsAssumption == Docs \subseteq Seq(DocLine)
ASSUME PlansAssumption == Plans \subseteq Seq(PlanLine)
ASSUME NoStoryAssumption == None \notin StoryId
ASSUME NoFenceAssumption == None \notin Fence
=============================================================================
