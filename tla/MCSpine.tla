------------------------------ MODULE MCSpine ------------------------------
(***************************************************************************)
(* StateSpine for TLC: the flags `init` is called with, and the symmetry.  *)
(***************************************************************************)
EXTENDS StateSpine, TLC

\* No --continues is passed: an archiving init inherits it.
PlainFlags == [backlog : BOOLEAN, continues : {None}]

\* Every init names the backlog.
BacklogFlags == [backlog : {TRUE}, continues : {None}]

Symmetry == Permutations(Proc) \cup Permutations(SprintId) \cup Permutations(Story) \cup Permutations(Option)
=============================================================================
