SPECIFICATION FairSpec
CONSTANTS
    Roots = {state, worktree}
    StateRoot = state
    None = None
    MaxCommits = 3
    MaxDeaths = 2
    MaxSprints = 2
    MaxRows = 10
CHECK_DEADLOCK FALSE
INVARIANTS
    TypeOK
    PassedIsTheBranch
    RecordedMatches
PROPERTIES
    EverySprintIsReviewed
