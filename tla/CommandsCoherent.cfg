CONSTANTS
    Catalogue <- OneDimmer
    May <- KnownLevel
    Amounts <- OnlyLevels
    MaxEvents = 2

SPECIFICATION Spec

INVARIANTS
    SiblingsCoherent

CHECK_DEADLOCK FALSE
