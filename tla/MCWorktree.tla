----------------------------- MODULE MCWorktree -----------------------------
(* Worktree for TLC. *)
EXTENDS Worktree

\* The sprint doc and the dev plan, as EXECUTE passes them.
TwoDocuments == <<"doc", "dev">>
=============================================================================
