----------------------------- MODULE ProofLines -----------------------------
(***************************************************************************)
(* proofs.py: parse_proof_lines reads a sprint doc line by line, carrying  *)
(* the story whose heading it last passed and whether it is in the Stories *)
(* section, and either returns one proof line per story or raises.         *)
(* tasks[] is loaded from what it returns, so a doc it wrongly accepts     *)
(* becomes the work of a sprint. One action for each way an iteration of   *)
(* the loop can go, then the two raises and the return.                    *)
(***************************************************************************)
EXTENDS Documents

VARIABLES doc,          \* the text, as lines
          number,       \* the line the loop looks at
          story,        \* the story of the last heading passed
          in_stories,
          required,     \* the stories headed in the Stories section
          foreign_ids,  \* the lines of the foreign headings there
          proofs,       \* the proof lines taken: story and line
          violations,
          outcome       \* "none" while reading; then what the caller gets

parser_vars == <<doc, number, story, in_stories, required, foreign_ids, proofs, violations, outcome>>

\* The code's `seen`: it grows with proofs, by the same statement pair.
Seen == {p.story : p \in proofs}

ParserInit ==
    /\ doc \in Docs
    /\ number = 1
    /\ story = None
    /\ in_stories = FALSE
    /\ required = {}
    /\ foreign_ids = {}
    /\ proofs = {}
    /\ violations = {}
    /\ outcome = "none"

----------------------------------------------------------------------------
(* The loop. *)

Reads(kind) ==
    /\ outcome = "none"
    /\ number <= Len(doc)
    /\ doc[number].kind = kind
    /\ number' = number + 1
    /\ UNCHANGED <<doc, outcome>>

section ==
    /\ Reads("section")
    /\ in_stories' = doc[number].stories
    /\ UNCHANGED <<story, required, foreign_ids, proofs, violations>>

\* Variant: a heading is required to have a proof line wherever it stands.
story_heading_Everywhere ==
    /\ Reads("story")
    /\ story' = doc[number].id
    /\ required' = required \cup {doc[number].id}
    /\ UNCHANGED <<in_stories, foreign_ids, proofs, violations>>

story_heading ==
    /\ Reads("story")
    /\ story' = doc[number].id
    /\ required' = IF in_stories THEN required \cup {doc[number].id} ELSE required
    /\ UNCHANGED <<in_stories, foreign_ids, proofs, violations>>

\* A foreign heading leaves the story before it current.
foreign_heading ==
    /\ Reads("foreign")
    /\ foreign_ids' = IF in_stories THEN foreign_ids \cup {number} ELSE foreign_ids
    /\ UNCHANGED <<story, in_stories, required, proofs, violations>>

pass_text ==
    /\ Reads("text")
    /\ UNCHANGED <<story, in_stories, required, foreign_ids, proofs, violations>>

early_proof ==
    /\ Reads("proof")
    /\ story = None
    /\ violations' = violations \cup {[what |-> "before any heading", of |-> number]}
    /\ UNCHANGED <<story, in_stories, required, foreign_ids, proofs>>

UnknownTokens == {[what |-> "unknown token", of |-> number] : t \in doc[number].unknown}

\* Variant: a proof line counts before any heading.
take_proof_AnyStory ==
    /\ Reads("proof")
    /\ story \notin Seen
    /\ proofs' = proofs \cup {[story |-> story, line |-> number]}
    /\ violations' = violations \cup UnknownTokens
    /\ UNCHANGED <<story, in_stories, required, foreign_ids>>

take_proof ==
    /\ Reads("proof")
    /\ story # None /\ story \notin Seen
    /\ proofs' = proofs \cup {[story |-> story, line |-> number]}
    /\ violations' = violations \cup UnknownTokens
    /\ UNCHANGED <<story, in_stories, required, foreign_ids>>

\* Variant: the first proof line of a story wins, quietly.
duplicate_proof_Ignored ==
    /\ Reads("proof")
    /\ story # None /\ story \in Seen
    /\ violations' = violations \cup UnknownTokens
    /\ UNCHANGED <<story, in_stories, required, foreign_ids, proofs>>

duplicate_proof ==
    /\ Reads("proof")
    /\ story # None /\ story \in Seen
    /\ violations' = violations \cup UnknownTokens \cup {[what |-> "duplicate", of |-> number]}
    /\ UNCHANGED <<story, in_stories, required, foreign_ids, proofs>>

----------------------------------------------------------------------------
(* After the loop. *)

Read == outcome = "none" /\ number > Len(doc)

\* Nothing headed with the configured prefix, and something with another.
prefix_mismatch ==
    /\ Read
    /\ required = {} /\ foreign_ids # {}
    /\ outcome' = "mismatch"
    /\ UNCHANGED <<doc, number, story, in_stories, required, foreign_ids, proofs, violations>>

\* A story of the Stories section without a proof line is one more violation.
finish ==
    /\ Read
    /\ required # {} \/ foreign_ids = {}
    /\ violations' = violations \cup {[what |-> "no proof line", of |-> s] : s \in required \ Seen}
    /\ outcome' = IF violations' = {} THEN "proofs" ELSE "violations"
    /\ UNCHANGED <<doc, number, story, in_stories, required, foreign_ids, proofs>>

ParserNext == \/ section \/ story_heading \/ foreign_heading \/ pass_text
        \/ early_proof \/ take_proof \/ duplicate_proof
        \/ prefix_mismatch \/ finish

ParserSpec == ParserInit /\ [][ParserNext]_parser_vars

----------------------------------------------------------------------------
(* The grammar, said of the whole document instead of line by line.        *)

Of(kind) == {n \in DOMAIN doc : doc[n].kind = kind}
Headings == Of("section") \cup Of("story") \cup Of("foreign")

\* The story heading h is the last heading of any kind above line n.
Heads(h, n) == h \in Of("story") /\ h < n /\ \A g \in Headings : g < n => g <= h

\* The proof line n is below a story heading, but not directly: a section or a foreign
\* heading stands between, and the parser takes it for that story's all the same.
Stray(n) == /\ \E h \in Of("story") : h < n
            /\ \A h \in Of("story") : ~Heads(h, n)

\* Line n stands in the Stories section.
InStories(n) ==
    \E s \in Of("section") : /\ s < n /\ doc[s].stories
                             /\ \A t \in Of("section") : t < n => t <= s

\* The proof line n is the line of story s.
ProofOf(s, n) == n \in Of("proof") /\ \E h \in Of("story") : Heads(h, n) /\ doc[h].id = s

Grammatical ==
    /\ \A n \in Of("proof") : doc[n].unknown = {} /\ \E s \in StoryId : ProofOf(s, n)
    /\ \A s \in StoryId : \A m, n \in Of("proof") : ProofOf(s, m) /\ ProofOf(s, n) => m = n
    /\ \A h \in Of("story") : InStories(h) => \E n \in Of("proof") : ProofOf(doc[h].id, n)
    /\ \/ \E h \in Of("story") : InStories(h)
       \/ \A f \in Of("foreign") : ~InStories(f)

----------------------------------------------------------------------------
ParserTypeOK ==
    /\ doc \in Seq(DocLine)
    /\ number \in Nat \ {0}
    /\ story \in StoryId \cup {None}
    /\ in_stories \in BOOLEAN
    /\ required \in SUBSET StoryId
    /\ foreign_ids \in SUBSET DOMAIN doc
    /\ proofs \in SUBSET [story : StoryId, line : DOMAIN doc]
    /\ outcome \in {"none", "mismatch", "violations", "proofs"}

\* proofs.py: "One exact line per story, directly under the story's heading". Of the docs
\* without a stray proof line, parse_proof_lines accepts exactly those whose proof lines all
\* have known tokens, one story each and one per story, with none missing in a Stories
\* section of the configured prefix. With a stray one it does not keep to the grammar.
AcceptsTheGrammar ==
    outcome # "none" /\ (\A n \in Of("proof") : ~Stray(n)) =>
        (outcome = "proofs" <=> Grammatical)

\* Of a doc it accepts, it returns every proof line, once, and with the story it stands
\* directly under, unless it is a stray one.
ReturnsEveryProof ==
    outcome = "proofs" =>
        /\ {p.line : p \in proofs} = Of("proof")
        /\ \A p, q \in proofs : p.line = q.line => p = q
        /\ \A p \in proofs : ProofOf(p.story, p.line) \/ Stray(p.line)
=============================================================================
