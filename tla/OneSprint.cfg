SPECIFICATION Spec
CONSTANTS
    None = None
    SprintId = {i1}
    Story = {s1, s2}
    Path = {doc}
    Option = {a, b}
    Proc = {p}
    Decisions = {"approved", "rejected"}
    Reports = {"DONE", "PARKED"}
    InitFlags <- PlainFlags
    TornAppends = FALSE
    MaxBlockers = 1
    MaxRows = 3
    MaxArchives = 0
SYMMETRY Symmetry
INVARIANTS
    TypeOK
    SnapshotsConsistent
    TrailNeverBehind
    CrossingsAreRuled
    DecisionsWereOffered
PROPERTY ImplementsLifecycle
