CONSTANTS
    d1 = d1
    d2 = d2
    alive = alive
    dead = dead
    Badges = {alive, dead}
    Devices = {d1, d2}
    Deletable = {d1}
    MaxPerRequest = 1
    MaxPush = 3
    MaxLost = 1

SPECIFICATION FairSpec

INVARIANTS
    TypeOK
    EndsUpLatest
    RetryArmed

PROPERTIES
    Settles
