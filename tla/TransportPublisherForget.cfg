CONSTANTS
    d1 = d1
    d2 = d2
    alive = alive
    dead = dead
    Badges = {alive, dead}
    Devices = {d1, d2}
    Deletable = {d1}
    MaxPerRequest = 2
    MaxPush = 3
    MaxLost = 0

SPECIFICATION Spec

INVARIANTS
    LatestOfAll
