SPECIFICATION MCSpec
CONSTANTS
    Memo = {m1, m2}
    Limit = 2
    MaxSaves = 3
    MaxRestarts = 1
    MaxFailures = 1
    Call = {c1, c2}
    Device = {d1}
    Capacity = 2
    MaxRows = 5
    MaxGreetings = 2
    MaxZeros = 1
INVARIANTS
    TypeOK
    StaleIsMarked
    BusTypeOK
    EveryRowIsAnnounced
PROPERTIES
    IsIndexed
    CrowdingTakesMany
    IsTold
CHECK_DEADLOCK FALSE
