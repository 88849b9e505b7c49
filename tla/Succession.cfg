SPECIFICATION Spec
CONSTANTS
    None = None
    SprintId = {i1, i2}
    Story = {s1}
    Path = {doc}
    Option = {a, b}
    Proc = {p}
    Decisions = {"approved"}
    Reports = {"DONE"}
    InitFlags <- PlainFlags
    TornAppends = FALSE
    MaxBlockers = 1
    MaxRows = 2
    MaxArchives = 1
SYMMETRY Symmetry
INVARIANTS
    TrailNeverBehind
    ArchivedIsRuled
PROPERTY ImplementsLifecycle
