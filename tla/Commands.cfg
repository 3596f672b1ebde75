CONSTANTS
    Catalogue <- Everything
    May <- AnyLevel
    Amounts <- SomeAmounts
    MaxEvents = 2

SPECIFICATION Spec

INVARIANTS
    TypeOK
    CommandInvertsDiscovery
    EveryHalfControlled
    ObeyedAsPredicted
    ShownAgrees

CHECK_DEADLOCK FALSE
