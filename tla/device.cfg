CONSTANTS
    MaxRequests = 3
    MaxReplugs = 1
SPECIFICATION FairSpec
INVARIANTS
    TypeOK
    FirmwareMatches
    StatusTracksState
    Watched
PROPERTIES
    Settles
    LifeRefinement
\* A board whose lock is never released, or without events, may stop.
CHECK_DEADLOCK FALSE
