SPECIFICATION Spec
CONSTANTS
    None = None
    StoryId = {s1, s2}
    MaxLines = 5
    Docs <- ShortDocs
    Plans <- ShortPlans
CHECK_DEADLOCK FALSE
INVARIANTS
    TypeOK
    AcceptsTheGrammar
    ReturnsEveryProof
    FindsTheHeadings
    JoinIsExact
