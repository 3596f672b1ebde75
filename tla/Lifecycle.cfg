CONSTANTS
    b1 = b1
    b2 = b2
    bad = bad
    None = None
    Brokers = {b1, b2, bad}
    Malformed = {bad}
    MaxEvents = 5
    MaxDrops = 2

SPECIFICATION FairSpec

INVARIANTS
    TypeOK
    AtMostOneClient
    LastCallWins
    BannerOfSettings

PROPERTIES
    CallsEnd

CHECK_DEADLOCK FALSE
