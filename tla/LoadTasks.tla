----------------------------- MODULE LoadTasks -----------------------------
(***************************************************************************)
(* What the `tasks` verb reads before it writes tasks[]: the sprint doc    *)
(* through ProofLines, then the dev plan through PlanCoverage, which joins *)
(* it with the stories of the proof lines. Its guard on started tasks and  *)
(* its write are StateSpine's.                                             *)
(***************************************************************************)
EXTENDS ProofLines, PlanCoverage

VARIABLE reading   \* the document in hand

vars == <<parser_vars, coverage_vars, reading>>

Init ==
    /\ ParserInit
    /\ plan = <<>> /\ story_ids = {} /\ line = 1 /\ fence = None /\ headings = <<>>
    /\ at = 1 /\ named = {} /\ failures = {} /\ pc = "scan"
    /\ reading = "doc"

parse_proof_lines ==
    /\ reading = "doc"
    /\ ParserNext
    /\ UNCHANGED <<coverage_vars, reading>>

\* Of what the parser read only the stories go on. Without a proof line there is nothing to
\* load, and the verb refuses before it looks for a plan.
take_stories ==
    /\ reading = "doc" /\ outcome = "proofs" /\ proofs # {}
    /\ reading' = "stories"
    /\ story_ids' = Seen
    /\ doc' = <<>> /\ number' = 1 /\ story' = None /\ in_stories' = FALSE /\ required' = {}
    /\ foreign_ids' = {} /\ proofs' = {} /\ violations' = {} /\ outcome' = "none"
    /\ UNCHANGED <<plan, line, fence, headings, at, named, failures, pc>>

read_plan ==
    /\ reading = "stories"
    /\ reading' = "plan"
    /\ plan' \in Plans
    /\ UNCHANGED <<parser_vars, story_ids, line, fence, headings, at, named, failures, pc>>

validate_plan_coverage ==
    /\ reading = "plan"
    /\ CoverageNext
    /\ UNCHANGED <<parser_vars, reading>>

Next == parse_proof_lines \/ take_stories \/ read_plan \/ validate_plan_coverage

Spec == Init /\ [][Next]_vars

----------------------------------------------------------------------------
\* The two readers' types, and what only one of them has in hand. The other properties are
\* those of ProofLines and PlanCoverage.
TypeOK ==
    /\ ParserTypeOK /\ CoverageTypeOK
    /\ reading \in {"doc", "stories", "plan"}
    /\ reading # "plan" => plan = <<>> /\ pc = "scan"
    /\ reading # "doc" => outcome = "none" /\ story_ids # {}
=============================================================================
