SPECIFICATION Spec
CONSTANTS
    None = None
    SprintId = {i1}
    Story = {s1, s2}
    Path = {doc, dev, omc}
    Option = {a, b}
    Foreign = {omc}
    SprintDoc = doc
    DevPlan = dev
    Plans <- TwoPlans
    Reports = {"DONE"}
    MaxCommits = 1
    Isolated = FALSE
    Attests = {TRUE}
    MaxDeaths = 0
    MaxEdits = 0
CHECK_DEADLOCK FALSE
INVARIANT DoneIsReviewed
