CONSTANTS
    n1 = n1
    n2 = n2
    k1 = k1
    k2 = k2
    alive = alive
    dead = dead
    unknown = unknown
    Dead = dead
    Unknown = unknown
    Absent = Absent
    Nodes = {n1}
    Leaving = {n1}
    Keys = {k1, k2}
    Holds = {0}
    Statuses = {alive}
    Bare = {TRUE, FALSE}
    Creatable = {}
    Updatable = {n1}
    Expiring = {}
    MaxChanges = 4
    MaxDrops = 1
    MaxFailures = 1
    MaxChannel = 2
    MaxAsked = 1

SPECIFICATION Spec

INVARIANTS
    TypeOK
    CacheCatchesUp
    DiscoveryUpToDate
    RemovedShownGone

PROPERTIES
    DiscoveryWhole

CHECK_DEADLOCK FALSE
