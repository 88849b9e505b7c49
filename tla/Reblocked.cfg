SPECIFICATION Spec
CONSTANTS
    None = None
    SprintId = {i1}
    Story = {s1}
    Path = {doc}
    Option = {a, b, c}
    Proc = {p}
    Decisions = {"approved"}
    Reports = {"DONE"}
    InitFlags <- PlainFlags
    TornAppends = FALSE
    MaxBlockers = 2
    MaxRows = 3
    MaxArchives = 0
SYMMETRY Symmetry
INVARIANT ShownDecisionIsOwn
