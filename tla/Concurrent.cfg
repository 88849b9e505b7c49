SPECIFICATION Spec
CONSTANTS
    None = None
    SprintId = {i1}
    Story = {s1}
    Path = {doc}
    Option = {a, b}
    Proc = {p, q}
    Decisions = {"approved"}
    Reports = {"DONE"}
    InitFlags <- PlainFlags
    TornAppends = TRUE
    MaxBlockers = 1
    MaxRows = 1
    MaxArchives = 0
SYMMETRY Symmetry
INVARIANT SnapshotsConsistent
