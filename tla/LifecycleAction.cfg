CONSTANTS
    b1 = b1
    b2 = b2
    bad = bad
    None = None
    Brokers = {b1, bad}
    Malformed = {bad}
    MaxEvents = 4
    MaxDrops = 1

SPECIFICATION Spec

INVARIANTS
    ActionSaysBanner

CHECK_DEADLOCK FALSE
