SPECIFICATION FairSpec
CONSTANTS
    Images = {i1, i2}
    Qualified = {i1}
    InitImages = {i1, i2}
    InitAlways = {i2}
    Main = main
    Jobs = {j1, j2}
    ListErrors = {"retry", "always"}
    MaxEdits = 1
    MaxFail = 2
    MaxDays = 1
INVARIANTS
    DaemonInv
    NothingForgotten
PROPERTIES
    Settles
CHECK_DEADLOCK FALSE
