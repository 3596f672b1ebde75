CONSTANTS
    t = t
    s = s
    b = b
    Features = {s, b}
    Sampled = {}
    Events = {b}
    Creatable = {}
    Values = {0, 1}
    MaxPerRequest = 1
    MaxPerMinute = 1
    HardFactor = 3
    Window = 2
    DedupTTL = 1
    MaxPush = 5
    MaxLost = 1

SPECIFICATION Spec

INVARIANTS
    HostBudget
    FinalStateKept
    EventsConserved

PROPERTIES
    IsOutbox
