---------------------------- MODULE DispatchRoot ----------------------------
(***************************************************************************)
(* What `supskill-state worktree` promises EXECUTE, and no more: a call    *)
(* ends ready or refused, and when it ends ready every artifact in the     *)
(* dispatch root is as it was at the repository root at some time of that  *)
(* call. Nothing is promised of a call that dies, or between two calls.    *)
(***************************************************************************)
CONSTANTS Artifact,     \* the files a call copies
          Content       \* what a file may hold, missing included

VARIABLES source,       \* the files at the repository root
          copy,         \* the files in the dispatch root
          during,       \* what each source has held since the call began
          answer        \* "calling", "ready", "refused", or "none" after a death

Fresh(c) == \A a \in Artifact : c[a] \in during[a]

Init ==
    /\ source \in [Artifact -> Content]
    /\ copy \in [Artifact -> Content]
    /\ during = [a \in Artifact |-> {}]
    /\ answer = "none"

Call ==
    /\ answer # "calling"
    /\ answer' = "calling"
    /\ during' = [a \in Artifact |-> {source[a]}]
    /\ UNCHANGED <<source, copy>>

\* The operator writes a source at any time; a call under way may see it or not.
Edit ==
    /\ source' \in [Artifact -> Content]
    /\ during' = [a \in Artifact |-> during[a] \cup
                     IF answer = "calling" THEN {source'[a]} ELSE {}]
    /\ UNCHANGED <<copy, answer>>

\* A call writes copies; between the calls the dispatch root is anyone's.
Write ==
    /\ copy' \in [Artifact -> Content]
    /\ UNCHANGED <<source, during, answer>>

Ready ==
    /\ answer = "calling"
    /\ Fresh(copy)
    /\ answer' = "ready"
    /\ UNCHANGED <<source, copy, during>>

Refuse ==
    /\ answer = "calling"
    /\ answer' = "refused"
    /\ UNCHANGED <<source, copy, during>>

Die ==
    /\ answer = "calling"
    /\ answer' = "none"
    /\ copy' \in [Artifact -> Content]
    /\ UNCHANGED <<source, during>>

Next == Call \/ Edit \/ Write \/ Ready \/ Refuse \/ Die

Spec == Init /\ [][Next]_<<source, copy, during, answer>>
=============================================================================
