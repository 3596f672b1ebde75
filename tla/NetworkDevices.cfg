CONSTANTS
    n1 = n1
    n2 = n2
    k1 = k1
    k2 = k2
    alive = alive
    dead = dead
    unknown = unknown
    Dead = dead
    Unknown = unknown
    Absent = Absent
    Nodes = {n1}
    Leaving = {}
    Keys = {k1}
    Holds = {0, 1}
    Statuses = {alive, dead, unknown}
    Bare = {TRUE}
    Creatable = {n1}
    Updatable = {}
    Expiring = {k1}
    MaxChanges = 3
    MaxDrops = 1
    MaxFailures = 0
    MaxChannel = 2
    MaxAsked = 1

SPECIFICATION Spec

INVARIANTS
    OnlyDeletedBlank
    BadgeCurrent
