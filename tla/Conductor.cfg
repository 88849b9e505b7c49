SPECIFICATION FairSpec
CONSTANTS
    None = None
    SprintId = {i1}
    Story = {s1, s2}
    Path = {doc, dev, omc}
    Option = {a, b}
    Foreign = {omc}
    SprintDoc = doc
    DevPlan = dev
    Plans <- TwoPlans
    Reports = {"DONE"}
    MaxCommits = 2
    Isolated = FALSE
    Attests = {FALSE, TRUE}
    MaxDeaths = 1
    MaxEdits = 1
CHECK_DEADLOCK FALSE
INVARIANTS
    TypeOK
    OnlyAdriftIsUnreviewed
    OnlyAdriftIsUnscoped
    NoImprovising
    CommitsAreAccounted
PROPERTIES
    DrivesTheLifecycle
    CrossedOnSound
    RuledOnReviewed
    OnlyStagedIsMissing
    EverySprintIsRuled
