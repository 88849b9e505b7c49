-------------------------- MODULE ProofLinesProofs --------------------------
(***************************************************************************)
(* parse_proof_lines is right about every doc, of any length, over any set *)
(* of story ids. The loop invariant says what story, in_stories, required, *)
(* foreign_ids, proofs and violations are, each as a function of the lines *)
(* behind `number`; after the last line that is the grammar as the parser  *)
(* reads it, and for every proof line that is not a stray one the grammar. *)
(***************************************************************************)
EXTENDS ProofLines, TLAPS

----------------------------------------------------------------------------
(* The parser's own reading: a proof line is of the last story heading     *)
(* above it, whatever other headings stand between.                        *)

Under(h, n) == h \in Of("story") /\ h < n /\ \A g \in Of("story") : g < n => g <= h

TakenFor(s, n) == n \in Of("proof") /\ \E h \in Of("story") : Under(h, n) /\ doc[h].id = s

Parsable ==
    /\ \A n \in Of("proof") : doc[n].unknown = {} /\ \E s \in StoryId : TakenFor(s, n)
    /\ \A s \in StoryId : \A m, n \in Of("proof") : TakenFor(s, m) /\ TakenFor(s, n) => m = n
    /\ \A h \in Of("story") : InStories(h) => \E n \in Of("proof") : TakenFor(doc[h].id, n)
    /\ \/ \E h \in Of("story") : InStories(h)
       \/ \A f \in Of("foreign") : ~InStories(f)

Accepts == outcome # "none" => (outcome = "proofs" <=> Parsable)

Returns ==
    outcome = "proofs" =>
        proofs = {p \in [story : StoryId, line : DOMAIN doc] : TakenFor(p.story, p.line)}

\* The lines of one kind that are behind the loop.
Behind(kind) == {n \in Of(kind) : n < number}

StoryInv ==
    /\ story = None => Behind("story") = {}
    /\ story # None => \E h \in Of("story") : Under(h, number) /\ doc[h].id = story

SectionInv == in_stories <=> InStories(number)

RequiredInv ==
    /\ required = {doc[h].id : h \in {g \in Behind("story") : InStories(g)}}
    /\ foreign_ids = {f \in Behind("foreign") : InStories(f)}

ProofsInv ==
    /\ \A p \in proofs : p.line < number /\ TakenFor(p.story, p.line)
    /\ \A p, q \in proofs : p.story = q.story => p = q
    /\ \A s \in StoryId : \A n \in Behind("proof") : TakenFor(s, n) => s \in Seen

\* No line behind the loop breaks the grammar by itself.
Clean ==
    /\ \A n \in Behind("proof") : doc[n].unknown = {} /\ \E s \in StoryId : TakenFor(s, n)
    /\ \A s \in StoryId : \A m, n \in Behind("proof") : TakenFor(s, m) /\ TakenFor(s, n) => m = n

ReadInv ==
    outcome = "none" => /\ number <= Len(doc) + 1
                        /\ StoryInv /\ SectionInv /\ RequiredInv /\ ProofsInv
                        /\ violations = {} <=> Clean

IInv == ParserTypeOK /\ ReadInv /\ Accepts /\ Returns

----------------------------------------------------------------------------
(* Facts about lines. *)

LEMMA SeqDomain ==
    ASSUME NEW S, NEW s \in Seq(S)
    PROVE  Len(s) \in Nat /\ DOMAIN s = 1..Len(s)
  OBVIOUS

LEMMA PastTheEnd ==
    ASSUME NEW S, NEW s \in Seq(S), NEW n \in Nat, n > Len(s)
    PROVE  \A i \in DOMAIN s : i < n
  BY SeqDomain

LEMMA NextLine ==
    ASSUME NEW S, NEW s \in Seq(S), NEW n \in Nat, n \in DOMAIN s
    PROVE  /\ n + 1 \in Nat \ {0} /\ n + 1 <= Len(s) + 1 /\ n < n + 1 /\ ~(n < n)
           /\ DOMAIN s \subseteq Nat
           /\ \A i \in DOMAIN s : i < n + 1 <=> i < n \/ i = n
  <1>1. Len(s) \in Nat /\ DOMAIN s = 1..Len(s)
    BY SeqDomain
  <1> QED BY <1>1

LEMMA LineType ==
    ASSUME ParserTypeOK, NEW n \in DOMAIN doc
    PROVE  /\ doc[n].kind \in {"section", "story", "foreign", "proof", "text"}
           /\ doc[n].kind = "section" => doc[n].stories \in BOOLEAN
           /\ doc[n].kind = "story" => doc[n].id \in StoryId
           /\ doc[n].kind = "proof" => doc[n].unknown \in SUBSET {"seam", "impact", "provable"}
  <1>1. doc[n] \in DocLine
    BY DEF ParserTypeOK
  <1> QED BY <1>1 DEF DocLine, SectionLine, StoryLine, ForeignLine, ProofLine, TextLine

\* A line has one last heading above it, so a proof line is of one story.
LEMMA OneHead ==
    ASSUME ParserTypeOK, NEW n, NEW g \in DOMAIN doc, NEW h \in DOMAIN doc, Under(g, n), Under(h, n)
    PROVE  g = h
  <1>1. DOMAIN doc \subseteq Nat
    BY SeqDomain DEF ParserTypeOK
  <1>2. g <= h /\ h <= g
    BY DEF Under
  <1> QED BY <1>1, <1>2

\* Nothing of the grammar looks past the doc, which no action writes.
LEMMA SameDoc ==
    ASSUME doc' = doc
    PROVE  /\ \A kind : Of(kind)' = Of(kind)
           /\ \A n : InStories(n)' <=> InStories(n)
           /\ \A s, n : TakenFor(s, n)' <=> TakenFor(s, n)
           /\ Parsable' <=> Parsable
  <1>1. \A kind : Of(kind)' = Of(kind)
    BY DEF Of
  <1>2. \A n : InStories(n)' <=> InStories(n)
    BY <1>1 DEF InStories
  <1>3. \A s, n : TakenFor(s, n)' <=> TakenFor(s, n)
    BY <1>1 DEF TakenFor, Under
  <1>4. Parsable' <=> Parsable
    BY <1>1, <1>2, <1>3 DEF Parsable
  <1> QED BY <1>1, <1>2, <1>3, <1>4

LEMMA OneStory ==
    ASSUME ParserTypeOK, NEW n, NEW s, NEW t, TakenFor(s, n), TakenFor(t, n)
    PROVE  s = t
  BY OneHead DEF TakenFor, Of

\* What every iteration has in hand.
LEMMA ReadStep ==
    ASSUME IInv, NEW kind, Reads(kind)
    PROVE  /\ ParserTypeOK /\ outcome = "none" /\ number \in DOMAIN doc /\ doc[number].kind = kind
           /\ doc \in Seq(DocLine) /\ number \in Nat \ {0}
           /\ UNCHANGED <<doc, outcome>> /\ number' = number + 1
           /\ number' \in Nat \ {0} /\ number' <= Len(doc) + 1
           /\ StoryInv /\ SectionInv /\ RequiredInv /\ ProofsInv /\ (violations = {} <=> Clean)
           /\ \A i \in DOMAIN doc : i < number' <=> i < number \/ i = number
           /\ DOMAIN doc \subseteq Nat /\ ~(number < number) /\ number < number'
  <1>1. /\ ParserTypeOK /\ outcome = "none" /\ doc[number].kind = kind /\ number <= Len(doc)
        /\ doc \in Seq(DocLine) /\ number \in Nat \ {0}
        /\ UNCHANGED <<doc, outcome>> /\ number' = number + 1
    BY DEF IInv, ParserTypeOK, Reads
  <1>2. number \in DOMAIN doc
    BY <1>1, SeqDomain
  <1>3. StoryInv /\ SectionInv /\ RequiredInv /\ ProofsInv /\ (violations = {} <=> Clean)
    BY <1>1 DEF IInv, ReadInv
  <1> QED BY <1>1, <1>2, <1>3, NextLine

\* The story carried is the one a proof line at `number` would be of.
LEMMA Carried ==
    ASSUME ParserTypeOK, StoryInv, number \in DOMAIN doc, doc[number].kind = "proof", NEW s
    PROVE  TakenFor(s, number) <=> story # None /\ s = story
  <1>1. number \in Of("proof")
    BY DEF Of
  <1>2. CASE story = None
    BY <1>2 DEF StoryInv, TakenFor, Under, Behind
  <1>3. CASE story # None
    <2>1. PICK h \in Of("story") : Under(h, number) /\ doc[h].id = story
      BY <1>3 DEF StoryInv
    <2>2. TakenFor(story, number)
      BY <1>1, <2>1 DEF TakenFor
    <2> QED BY <1>3, <2>2, OneStory
  <1> QED BY <1>2, <1>3

\* Headings and sections behind a line that is neither stay the last ones.
LEMMA SameStory ==
    ASSUME IInv, NEW kind, Reads(kind), kind # "story", story' = story
    PROVE  StoryInv'
  <1>1. \A i \in Of("story") : i < number' <=> i < number
    BY ReadStep DEF Of
  <1>2. \A h : Under(h, number') <=> Under(h, number)
    BY <1>1 DEF Under
  <1> QED BY <1>1, <1>2, ReadStep DEF StoryInv, Behind, Of, Under

LEMMA SameSection ==
    ASSUME IInv, NEW kind, Reads(kind), kind # "section", in_stories' = in_stories
    PROVE  SectionInv'
  <1>1. \A i \in Of("section") : i < number' <=> i < number
    BY ReadStep DEF Of
  <1> QED BY <1>1, ReadStep DEF SectionInv, InStories, Of

LEMMA SameRequired ==
    ASSUME IInv, NEW kind, Reads(kind), kind \notin {"story", "foreign"},
           UNCHANGED <<required, foreign_ids>>
    PROVE  RequiredInv'
  <1>1. \A i \in Of("story") \cup Of("foreign") : i < number' <=> i < number
    BY ReadStep DEF Of
  <1>2. Behind("story")' = Behind("story") /\ Behind("foreign")' = Behind("foreign")
    BY <1>1, ReadStep DEF Behind, Of
  <1> QED BY <1>2, ReadStep DEF RequiredInv, InStories, Of

LEMMA SameProofs ==
    ASSUME IInv, NEW kind, Reads(kind), kind # "proof", UNCHANGED <<proofs, violations>>
    PROVE  ProofsInv' /\ (violations = {} <=> Clean)'
  <1>1. \A i \in Of("proof") : i < number' <=> i < number
    BY ReadStep DEF Of
  <1>2. Behind("proof")' = Behind("proof")
    BY <1>1, ReadStep DEF Behind, Of
  <1>3. \A s, n : TakenFor(s, n)' <=> TakenFor(s, n)
    BY ReadStep DEF TakenFor, Of, Under
  <1>4. \A p \in proofs : p.line < number'
    <2>1. ASSUME NEW p \in proofs PROVE p.line < number'
      <3>1. p.line < number /\ p.line \in DOMAIN doc
        BY ReadStep DEF ProofsInv, TakenFor, Of
      <3> QED BY <3>1, ReadStep
    <2> QED BY <2>1
  <1>5. ProofsInv'
    BY <1>2, <1>3, <1>4, ReadStep DEF ProofsInv, Seen
  <1>6. Clean' <=> Clean
    BY <1>2, <1>3, ReadStep DEF Clean
  <1> QED BY <1>5, <1>6, ReadStep

----------------------------------------------------------------------------
(* The loop keeps the invariant: one lemma per action.                     *)

LEMMA InitEstablishes == ParserInit => IInv
  <1> SUFFICES ASSUME ParserInit PROVE IInv
    OBVIOUS
  <1>1. ParserTypeOK
    <2>1. doc \in Seq(DocLine) /\ foreign_ids \in SUBSET DOMAIN doc
      BY DocsAssumption DEF ParserInit
    <2>2. required \in SUBSET StoryId /\ proofs \in SUBSET [story : StoryId, line : DOMAIN doc]
      BY DEF ParserInit
    <2>3. in_stories \in BOOLEAN
      BY DEF ParserInit
    <2>4. /\ number \in Nat \ {0} /\ story \in StoryId \cup {None}
          /\ outcome \in {"none", "mismatch", "violations", "proofs"}
      BY DEF ParserInit
    <2> QED BY <2>1, <2>2, <2>3, <2>4 DEF ParserTypeOK
  <1>2. doc \in Seq(DocLine) /\ number = 1
    BY <1>1 DEF ParserInit, ParserTypeOK
  <1>3. Len(doc) \in Nat /\ DOMAIN doc = 1..Len(doc)
    BY <1>2, SeqDomain
  <1>4. number <= Len(doc) + 1 /\ \A n \in DOMAIN doc : ~(n < number)
    BY <1>2, <1>3
  <1>5. \A kind : Behind(kind) = {}
    BY <1>4 DEF Behind, Of
  <1>6. ~InStories(number)
    BY <1>4 DEF InStories, Of
  <1>7. StoryInv /\ SectionInv /\ RequiredInv /\ ProofsInv /\ Clean
    BY <1>5, <1>6 DEF ParserInit, StoryInv, SectionInv, RequiredInv, ProofsInv, Clean, Seen
  <1> QED BY <1>1, <1>4, <1>7 DEF ParserInit, IInv, ReadInv, Accepts, Returns

\* What is left to show of an iteration that keeps outcome "none".
LEMMA StillReading ==
    ASSUME IInv, NEW kind, Reads(kind), ParserTypeOK', StoryInv', SectionInv', RequiredInv',
           ProofsInv', (violations = {} <=> Clean)'
    PROVE  IInv'
  BY ReadStep DEF IInv, ReadInv, Accepts, Returns

LEMMA SectionKeeps == IInv /\ section => IInv'
  <1> SUFFICES ASSUME IInv, section PROVE IInv'
    OBVIOUS
  <1>1. /\ Reads("section") /\ in_stories' = doc[number].stories
        /\ UNCHANGED <<story, required, foreign_ids, proofs, violations>>
    BY DEF section
  <1>2. ParserTypeOK'
    BY <1>1, ReadStep, LineType DEF ParserTypeOK
  <1>3. SectionInv'
    <2>1. number \in Of("section") /\ \A t \in Of("section") : t < number' <=> t < number \/ t = number
      BY <1>1, ReadStep DEF Of
    <2>2. InStories(number') <=> doc[number].stories
      <3>1. \A t \in Of("section") : t < number' => t <= number
        BY <1>1, <2>1, ReadStep DEF Of
      <3>2. \A t \in Of("section") : t < number' /\ number <= t => t = number
        BY <1>1, <3>1, ReadStep DEF Of
      <3> QED BY <1>1, <2>1, <3>1, <3>2, ReadStep DEF InStories
    <2>3. InStories(number)' <=> InStories(number')
      BY <1>1, ReadStep DEF InStories, Of
    <2> QED BY <1>1, <2>2, <2>3 DEF SectionInv
  <1> QED BY <1>1, <1>2, <1>3, SameStory, SameRequired, SameProofs, StillReading

LEMMA StoryHeadingKeeps == IInv /\ story_heading => IInv'
  <1> SUFFICES ASSUME IInv, story_heading PROVE IInv'
    OBVIOUS
  <1>1. /\ Reads("story") /\ story' = doc[number].id
        /\ required' = IF in_stories THEN required \cup {doc[number].id} ELSE required
        /\ UNCHANGED <<in_stories, foreign_ids, proofs, violations>>
    BY DEF story_heading
  <1>2. doc[number].id \in StoryId
    BY <1>1, ReadStep, LineType
  <1>3. ParserTypeOK'
    BY <1>1, <1>2, ReadStep DEF ParserTypeOK
  <1>4. number \in Of("story") /\ \A g \in Of("story") : g < number' <=> g < number \/ g = number
    BY <1>1, ReadStep DEF Of
  <1>5. StoryInv'
    <2>1. Under(number, number')
      BY <1>1, <1>4, ReadStep DEF Under, Of
    <2>2. story' # None
      BY <1>1, <1>2, NoStoryAssumption
    <2> QED BY <1>1, <1>4, <2>1, <2>2, ReadStep DEF StoryInv, Under, Of
  <1>6. RequiredInv'
    <2>1. Behind("story")' = Behind("story") \cup {number} /\ Behind("foreign")' = Behind("foreign")
      BY <1>1, <1>4, ReadStep DEF Behind, Of
    <2>2. \A n : InStories(n)' <=> InStories(n)
      BY <1>1, ReadStep DEF InStories, Of
    <2>3. in_stories <=> InStories(number)
      BY <1>1, ReadStep DEF SectionInv
    <2> QED BY <1>1, <2>1, <2>2, <2>3, ReadStep DEF RequiredInv
  <1> QED BY <1>1, <1>3, <1>5, <1>6, SameSection, SameProofs, StillReading

LEMMA ForeignHeadingKeeps == IInv /\ foreign_heading => IInv'
  <1> SUFFICES ASSUME IInv, foreign_heading PROVE IInv'
    OBVIOUS
  <1>1. /\ Reads("foreign")
        /\ foreign_ids' = IF in_stories THEN foreign_ids \cup {number} ELSE foreign_ids
        /\ UNCHANGED <<story, in_stories, required, proofs, violations>>
    BY DEF foreign_heading
  <1>2. ParserTypeOK'
    BY <1>1, ReadStep DEF ParserTypeOK
  <1>3. RequiredInv'
    <2>1. Behind("story")' = Behind("story") /\ Behind("foreign")' = Behind("foreign") \cup {number}
      BY <1>1, ReadStep DEF Behind, Of
    <2>2. \A n : InStories(n)' <=> InStories(n)
      BY <1>1, ReadStep DEF InStories, Of
    <2>3. in_stories <=> InStories(number)
      BY <1>1, ReadStep DEF SectionInv
    <2> QED BY <1>1, <2>1, <2>2, <2>3, ReadStep DEF RequiredInv
  <1> QED BY <1>1, <1>2, <1>3, SameStory, SameSection, SameProofs, StillReading

LEMMA PassTextKeeps == IInv /\ pass_text => IInv'
  <1> SUFFICES ASSUME IInv, pass_text PROVE IInv'
    OBVIOUS
  <1>1. Reads("text") /\ UNCHANGED <<story, in_stories, required, foreign_ids, proofs, violations>>
    BY DEF pass_text
  <1>2. ParserTypeOK'
    BY <1>1, ReadStep DEF ParserTypeOK
  <1> QED BY <1>1, <1>2, SameStory, SameSection, SameRequired, SameProofs, StillReading

\* A proof line adds itself to the lines behind, and to nothing else of the grammar.
LEMMA OneProofMore ==
    ASSUME IInv, Reads("proof")
    PROVE  /\ number \in Of("proof") /\ number \notin Behind("proof")
           /\ Behind("proof")' = Behind("proof") \cup {number}
           /\ \A s, n : TakenFor(s, n)' <=> TakenFor(s, n)
           /\ \A s : TakenFor(s, number) <=> story # None /\ s = story
  <1>1. /\ number \in Of("proof") /\ number \notin Behind("proof")
        /\ Behind("proof")' = Behind("proof") \cup {number}
    BY ReadStep DEF Behind, Of
  <1>2. \A s, n : TakenFor(s, n)' <=> TakenFor(s, n)
    BY ReadStep DEF TakenFor, Of, Under
  <1> QED BY <1>1, <1>2, ReadStep, Carried

LEMMA EarlyProofKeeps == IInv /\ early_proof => IInv'
  <1> SUFFICES ASSUME IInv, early_proof PROVE IInv'
    OBVIOUS
  <1>1. /\ Reads("proof") /\ story = None
        /\ violations' = violations \cup {[what |-> "before any heading", of |-> number]}
        /\ UNCHANGED <<story, in_stories, required, foreign_ids, proofs>>
    BY DEF early_proof
  <1>2. ParserTypeOK'
    BY <1>1, ReadStep DEF ParserTypeOK
  <1>3. ProofsInv'
    <2>1. \A p \in proofs : p.line < number'
      <3>1. ASSUME NEW p \in proofs PROVE p.line < number'
        BY ReadStep, <1>1 DEF ProofsInv, TakenFor, Of
      <3> QED BY <3>1
    <2> QED BY <1>1, <2>1, OneProofMore, ReadStep DEF ProofsInv, Seen
  <1>4. violations' # {} /\ ~Clean'
    <2>1. number \in Behind("proof")' /\ ~\E s \in StoryId : TakenFor(s, number)
      BY <1>1, OneProofMore
    <2> QED BY <1>1, <2>1, OneProofMore DEF Clean
  <1> QED BY <1>1, <1>2, <1>3, <1>4, SameStory, SameSection, SameRequired, StillReading

LEMMA TakeProofKeeps == IInv /\ take_proof => IInv'
  <1> SUFFICES ASSUME IInv, take_proof PROVE IInv'
    OBVIOUS
  <1> DEFINE p0 == [story |-> story, line |-> number]
  <1>p0. p0.story = story /\ p0.line = number
    OBVIOUS
  <1>1. /\ Reads("proof") /\ story # None /\ story \notin Seen
        /\ proofs' = proofs \cup {p0}
        /\ violations' = violations \cup UnknownTokens
        /\ UNCHANGED <<story, in_stories, required, foreign_ids>>
    BY DEF take_proof
  <1>2. story \in StoryId
    BY <1>1, ReadStep DEF ParserTypeOK
  <1>3. ParserTypeOK'
    BY <1>1, <1>2, ReadStep DEF ParserTypeOK
  <1>4. ProofsInv'
    <2>1. \A p \in proofs' : p.line < number' /\ TakenFor(p.story, p.line)
      <3>1. ASSUME NEW p \in proofs PROVE p.line < number' /\ TakenFor(p.story, p.line)
        <4>1. TakenFor(p.story, p.line) /\ p.line < number
          BY <1>1, ReadStep DEF ProofsInv
        <4>2. p.line \in DOMAIN doc
          BY <4>1 DEF TakenFor, Of
        <4>3. p.line < number'
          BY <1>1, <4>1, <4>2, ReadStep
        <4> QED BY <4>1, <4>3
      <3>2. number < number' /\ TakenFor(story, number)
        BY ReadStep, OneProofMore, <1>1
      <3> QED BY <1>1, <1>p0, <3>1, <3>2
    <2>2. \A p, q \in proofs' : p.story = q.story => p = q
      BY <1>1, <1>p0, ReadStep DEF ProofsInv, Seen
    <2>3. Seen' = Seen \cup {story}
      BY <1>1, <1>p0 DEF Seen
    <2>4. \A s \in StoryId : \A n \in Behind("proof")' : TakenFor(s, n)' => s \in Seen'
      BY <1>1, <2>3, OneProofMore, ReadStep DEF ProofsInv
    <2> QED BY <2>1, <2>2, <2>4, OneProofMore, <1>1 DEF ProofsInv
  <1>5. (violations = {} <=> Clean)'
    <2>1. violations' = {} <=> violations = {} /\ doc[number].unknown = {}
      BY <1>1 DEF UnknownTokens
    <2>2. ~\E m \in Behind("proof") : TakenFor(story, m)
      BY <1>1, <1>2, ReadStep DEF ProofsInv
    <2>3. Clean' <=> Clean /\ doc[number].unknown = {}
      BY <1>1, <1>2, <2>2, OneProofMore, ReadStep DEF Clean
    <2> QED BY <1>1, <2>1, <2>3, ReadStep
  <1> QED BY <1>1, <1>3, <1>4, <1>5, SameStory, SameSection, SameRequired, StillReading

LEMMA DuplicateProofKeeps == IInv /\ duplicate_proof => IInv'
  <1> SUFFICES ASSUME IInv, duplicate_proof PROVE IInv'
    OBVIOUS
  <1>1. /\ Reads("proof") /\ story # None /\ story \in Seen
        /\ violations' = violations \cup UnknownTokens \cup {[what |-> "duplicate", of |-> number]}
        /\ UNCHANGED <<story, in_stories, required, foreign_ids, proofs>>
    BY DEF duplicate_proof
  <1>2. ParserTypeOK'
    BY <1>1, ReadStep DEF ParserTypeOK
  <1>3. ProofsInv'
    <2>1. \A p \in proofs : p.line < number'
      <3>1. ASSUME NEW p \in proofs PROVE p.line < number'
        BY ReadStep, <1>1 DEF ProofsInv, TakenFor, Of
      <3> QED BY <3>1
    <2> QED BY <1>1, <2>1, OneProofMore, ReadStep DEF ProofsInv, Seen
  <1>4. violations' # {} /\ ~Clean'
    <2>1. PICK p \in proofs : p.story = story
      BY <1>1 DEF Seen
    <2>2. p.line \in Behind("proof") /\ TakenFor(story, p.line)
      BY <1>1, <2>1, ReadStep DEF ProofsInv, TakenFor, Behind
    <2>3. story \in StoryId /\ TakenFor(story, number)
      BY <1>1, OneProofMore, ReadStep DEF ParserTypeOK
    <2>4. ~Clean'
      BY <1>1, <2>2, <2>3, OneProofMore DEF Clean
    <2> QED BY <1>1, <2>4
  <1> QED BY <1>1, <1>2, <1>3, <1>4, SameStory, SameSection, SameRequired, StillReading

----------------------------------------------------------------------------
(* After the last line, what is behind the loop is the whole doc.          *)

LEMMA AllRead ==
    ASSUME IInv, Read
    PROVE  /\ ParserTypeOK /\ RequiredInv /\ ProofsInv /\ (violations = {} <=> Clean)
           /\ \A kind : Behind(kind) = Of(kind)
           /\ required = {doc[h].id : h \in {g \in Of("story") : InStories(g)}}
           /\ foreign_ids = {f \in Of("foreign") : InStories(f)}
  <1>1. /\ ParserTypeOK /\ RequiredInv /\ ProofsInv /\ (violations = {} <=> Clean)
        /\ doc \in Seq(DocLine) /\ number \in Nat /\ number > Len(doc)
    BY DEF IInv, ReadInv, ParserTypeOK, Read
  <1>2. \A n \in DOMAIN doc : n < number
    BY <1>1, PastTheEnd
  <1>3. \A kind : Behind(kind) = Of(kind)
    BY <1>2 DEF Behind, Of
  <1> QED BY <1>1, <1>3 DEF RequiredInv

LEMMA PrefixMismatchKeeps == IInv /\ prefix_mismatch => IInv'
  <1> SUFFICES ASSUME IInv, prefix_mismatch PROVE IInv'
    OBVIOUS
  <1>1. /\ Read /\ required = {} /\ foreign_ids # {} /\ outcome' = "mismatch"
        /\ UNCHANGED <<doc, number, story, in_stories, required, foreign_ids, proofs, violations>>
    BY DEF prefix_mismatch
  <1>2. ParserTypeOK'
    BY <1>1, AllRead DEF ParserTypeOK
  <1>3. ~Parsable
    BY <1>1, AllRead DEF Parsable
  <1>4. Accepts'
    BY <1>1, <1>3, SameDoc DEF Accepts
  <1> QED BY <1>1, <1>2, <1>4 DEF IInv, ReadInv, Returns

LEMMA FinishKeeps == IInv /\ finish => IInv'
  <1> SUFFICES ASSUME IInv, finish PROVE IInv'
    OBVIOUS
  <1>1. /\ Read /\ (required # {} \/ foreign_ids = {})
        /\ violations' = violations \cup {[what |-> "no proof line", of |-> s] : s \in required \ Seen}
        /\ outcome' = IF violations' = {} THEN "proofs" ELSE "violations"
        /\ UNCHANGED <<doc, number, story, in_stories, required, foreign_ids, proofs>>
    BY DEF finish
  <1>2. ParserTypeOK'
    BY <1>1, AllRead DEF ParserTypeOK
  <1>3. violations' = {} <=> Clean /\ required \subseteq Seen
    <2>1. {[what |-> "no proof line", of |-> s] : s \in required \ Seen} = {} <=> required \subseteq Seen
      OBVIOUS
    <2> QED BY <1>1, <2>1, AllRead
  <1>4. \A s \in StoryId : s \in Seen <=> \E n \in Of("proof") : TakenFor(s, n)
    <2>1. ASSUME NEW s \in Seen PROVE \E n \in Of("proof") : TakenFor(s, n)
      <3>1. PICK p \in proofs : p.story = s
        BY DEF Seen
      <3> QED BY <1>1, <3>1, AllRead DEF ProofsInv, TakenFor
    <2> QED BY <1>1, <2>1, AllRead DEF ProofsInv
  <1>5. \A h \in Of("story") : doc[h].id \in StoryId
    BY <1>1, AllRead, LineType DEF Of
  <1>6. required \subseteq Seen
            <=> \A h \in Of("story") : InStories(h) => \E n \in Of("proof") : TakenFor(doc[h].id, n)
    BY <1>1, <1>4, <1>5, AllRead
  <1>7. Clean <=> /\ \A n \in Of("proof") : doc[n].unknown = {} /\ \E s \in StoryId : TakenFor(s, n)
                  /\ \A s \in StoryId : \A m, n \in Of("proof") : TakenFor(s, m) /\ TakenFor(s, n) => m = n
    BY <1>1, AllRead DEF Clean
  <1>8. outcome' = "proofs" <=> Parsable
    BY <1>1, <1>3, <1>6, <1>7, AllRead DEF Parsable
  <1>9. Accepts'
    BY <1>1, <1>8, SameDoc DEF Accepts
  <1>10. ASSUME Clean
         PROVE  proofs = {p \in [story : StoryId, line : DOMAIN doc] : TakenFor(p.story, p.line)}
    <2>1. proofs \subseteq {p \in [story : StoryId, line : DOMAIN doc] : TakenFor(p.story, p.line)}
      BY <1>1, AllRead DEF ParserTypeOK, ProofsInv
    <2>2. ASSUME NEW p \in [story : StoryId, line : DOMAIN doc], TakenFor(p.story, p.line)
          PROVE  p \in proofs
      <3>1. p.line \in Of("proof") /\ p.story \in StoryId
        BY <2>2 DEF TakenFor
      <3>2. p.story \in Seen
        BY <1>4, <2>2, <3>1
      <3>3. PICK q \in proofs : q.story = p.story
        BY <3>2 DEF Seen
      <3>4. q \in [story : StoryId, line : DOMAIN doc] /\ TakenFor(q.story, q.line)
        BY <2>1
      <3>5. q.line \in Of("proof")
        BY <3>4 DEF TakenFor
      <3>6. q.line = p.line
        BY <1>7, <1>10, <2>2, <3>1, <3>3, <3>4, <3>5
      <3>7. q = p
        BY <3>3, <3>4, <3>6
      <3> QED BY <3>7
    <2> QED BY <2>1, <2>2
  <1>11. Returns'
    BY <1>1, <1>3, <1>10, SameDoc DEF Returns
  <1> QED BY <1>1, <1>2, <1>9, <1>11 DEF IInv, ReadInv

THEOREM Invariance == ParserSpec => []IInv
  <1>1. ParserInit => IInv
    BY InitEstablishes
  <1>2. IInv /\ [ParserNext]_parser_vars => IInv'
    <2> SUFFICES ASSUME IInv, [ParserNext]_parser_vars PROVE IInv'
      OBVIOUS
    <2>1. CASE ParserNext
      BY <2>1, SectionKeeps, StoryHeadingKeeps, ForeignHeadingKeeps, PassTextKeeps, EarlyProofKeeps,
         TakeProofKeeps, DuplicateProofKeeps, PrefixMismatchKeeps, FinishKeeps DEF ParserNext
    <2>2. CASE UNCHANGED parser_vars
      <3>1. doc' = doc /\ UNCHANGED <<number, story, in_stories, required, foreign_ids, proofs,
                                       violations, outcome>>
        BY <2>2 DEF parser_vars
      <3>2. \A kind : Behind(kind)' = Behind(kind)
        BY <3>1, SameDoc DEF Behind
      <3>3. ParserTypeOK'
        BY <3>1 DEF IInv, ParserTypeOK
      <3>4. (StoryInv' <=> StoryInv) /\ (SectionInv' <=> SectionInv) /\ (RequiredInv' <=> RequiredInv)
        BY <3>1, <3>2, SameDoc DEF StoryInv, SectionInv, RequiredInv, Under
      <3>5. (ProofsInv' <=> ProofsInv) /\ (Clean' <=> Clean)
        BY <3>1, <3>2, SameDoc DEF ProofsInv, Clean, Seen
      <3> QED BY <3>1, <3>3, <3>4, <3>5, SameDoc DEF IInv, ReadInv, Accepts, Returns
    <2> QED BY <2>1, <2>2
  <1> QED BY <1>1, <1>2, PTL DEF ParserSpec

----------------------------------------------------------------------------
(* The two readings agree on every proof line that is not a stray one.     *)

LEMMA ReadingsAgree ==
    ASSUME ParserTypeOK, NEW s, NEW n
    PROVE  /\ ProofOf(s, n) => TakenFor(s, n)
           /\ TakenFor(s, n) => ProofOf(s, n) \/ Stray(n)
  <1>1. \A h : Heads(h, n) => Under(h, n)
    BY DEF Heads, Headings, Under
  <1>2. ProofOf(s, n) => TakenFor(s, n)
    BY <1>1 DEF ProofOf, TakenFor
  <1>3. ASSUME TakenFor(s, n), ~Stray(n) PROVE ProofOf(s, n)
    <2>1. PICK h \in Of("story") : Under(h, n) /\ doc[h].id = s
      BY <1>3 DEF TakenFor
    <2>2. PICK g \in Of("story") : Heads(g, n)
      BY <1>3, <2>1 DEF Stray, Under
    <2>3. g \in DOMAIN doc /\ h \in DOMAIN doc /\ Under(g, n)
      BY <1>1, <2>2 DEF Of
    <2>4. g = h
      BY <2>1, <2>3, OneHead
    <2> QED BY <1>3, <2>1, <2>2, <2>4 DEF ProofOf, TakenFor
  <1> QED BY <1>2, <1>3

LEMMA AcceptedIsGrammatical == IInv => AcceptsTheGrammar
  <1> SUFFICES ASSUME IInv, outcome # "none", \A n \in Of("proof") : ~Stray(n)
               PROVE  outcome = "proofs" <=> Grammatical
    BY DEF AcceptsTheGrammar
  <1>1. ParserTypeOK /\ (outcome = "proofs" <=> Parsable)
    BY DEF IInv, Accepts
  <1>2. \A s : \A n \in Of("proof") : TakenFor(s, n) <=> ProofOf(s, n)
    BY <1>1, ReadingsAgree
  <1>3. Parsable <=> Grammatical
    BY <1>2 DEF Parsable, Grammatical
  <1> QED BY <1>1, <1>3

LEMMA ReturnedIsFaithful == IInv => ReturnsEveryProof
  <1> SUFFICES ASSUME IInv, outcome = "proofs"
               PROVE  /\ {p.line : p \in proofs} = Of("proof")
                      /\ \A p, q \in proofs : p.line = q.line => p = q
                      /\ \A p \in proofs : ProofOf(p.story, p.line) \/ Stray(p.line)
    BY DEF ReturnsEveryProof
  <1>1. /\ ParserTypeOK /\ Parsable
        /\ proofs = {p \in [story : StoryId, line : DOMAIN doc] : TakenFor(p.story, p.line)}
    BY DEF IInv, Accepts, Returns
  <1>2. \A p \in proofs : p.line \in Of("proof") /\ TakenFor(p.story, p.line)
    BY <1>1 DEF TakenFor
  <1>3. ASSUME NEW n \in Of("proof") PROVE \E p \in proofs : p.line = n
    <2>1. PICK s \in StoryId : TakenFor(s, n)
      BY <1>1 DEF Parsable
    <2>2. n \in DOMAIN doc
      BY DEF Of
    <2>3. [story |-> s, line |-> n] \in proofs
      BY <1>1, <2>1, <2>2
    <2> QED BY <2>3
  <1>4. ASSUME NEW p \in proofs, NEW q \in proofs, p.line = q.line PROVE p = q
    <2>1. p.story = q.story
      BY <1>1, <1>2, <1>4, OneStory
    <2> QED BY <1>1, <1>4, <2>1
  <1>5. \A p \in proofs : ProofOf(p.story, p.line) \/ Stray(p.line)
    BY <1>1, <1>2, ReadingsAgree
  <1>6. {p.line : p \in proofs} = Of("proof")
    BY <1>2, <1>3
  <1> QED BY <1>4, <1>5, <1>6

\* Of the docs without a stray proof line, parse_proof_lines accepts exactly those of the
\* grammar, whatever sections and foreign headings they have.
THEOREM ParserIsExact == ParserSpec => []AcceptsTheGrammar
  BY AcceptedIsGrammatical, Invariance, PTL

\* Of a doc it accepts, it returns every proof line once, each that is not a stray one with
\* the story it stands directly under.
THEOREM ParserIsFaithful == ParserSpec => []ReturnsEveryProof
  BY ReturnedIsFaithful, Invariance, PTL

\* The parser's variables keep their kinds, over docs of any length.
THEOREM TypeCorrect == ParserSpec => []ParserTypeOK
  <1>1. IInv => ParserTypeOK
    BY DEF IInv
  <1> QED BY <1>1, Invariance, PTL
=============================================================================
