CONSTANTS
    n1 = n1
    n2 = n2
    k1 = k1
    k2 = k2
    alive = alive
    dead = dead
    unknown = unknown
    Dead = dead
    Unknown = unknown
    Absent = Absent
    Nodes = {n1}
    Leaving = {}
    Keys = {k1}
    Holds = {0, 1}
    Statuses = {alive}
    Bare = {TRUE}
    Creatable = {}
    Updatable = {}
    Expiring = {}
    MaxChanges = 1
    MaxDrops = 1
    MaxFailures = 1
    MaxChannel = 3
    MaxAsked = 1

SPECIFICATION Spec

INVARIANTS
    StatesNewest

CHECK_DEADLOCK FALSE
