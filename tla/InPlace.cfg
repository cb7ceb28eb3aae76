SPECIFICATION FairSpec
CONSTANTS
    Revs = {A, B, C}
    NoRev = NoRev
    FirstRev = A
    ImageOnly = {A, B}
    Grace = 2
    MinReady = 1
    Hasty = FALSE
    MaxEdits = 1
    MaxTrouble = 1
INVARIANTS
    TypeOK
PROPERTIES
    GraceNearlyKept
    BackOnTheNewImage
    UpdateCompletes
