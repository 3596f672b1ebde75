CONSTANTS
    t = t
    s = s
    b = b
    Features = {t, s}
    Sampled = {t}
    Events = {}
    Creatable = {s}
    Values = {0, 1}
    MaxPerRequest = 2
    MaxPerMinute = 2
    HardFactor = 10
    Window = 1
    DedupTTL = 1
    MaxPush = 3
    MaxLost = 0

SPECIFICATION FairSpec

INVARIANTS
    TypeOK
    IndexConsistent
    InOrder
    FinalStateKept

PROPERTIES
    OnlyRestartStrands
    EventuallySent
    IsOutbox
