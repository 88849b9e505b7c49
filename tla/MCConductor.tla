---------------------------- MODULE MCConductor ----------------------------
(* Conductor for TLC. *)
EXTENDS Conductor

OneStory == CHOOSE t \in Story : TRUE

\* A story of its own before a (process) heading, and the shape of S5's own plan: one story
\* under two headings, the later one shared.
SharedStory == {<<{OneStory}, Story>>}
TwoPlans == {<<{OneStory}, {}>>} \cup SharedStory
=============================================================================
