SPECIFICATION FairSpec
CONSTANTS
    Artifacts <- TwoDocuments
    None = None
    MaxEdits = 2
    MaxDeaths = 2
    MaxMishaps = 2
INVARIANT TypeOK
PROPERTIES
    AddedUnderIgnore
    KeepsItsPromise
    EverReady
