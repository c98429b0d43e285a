SPECIFICATION FairSpec
CONSTANTS
    Serials = {s1, s2}
    MaxSpent = 2
    None = None
INVARIANTS TypeOK Accounted DoneIsUploaded DiesOnlyRaced
\* a wait without a timeout may last for ever
CHECK_DEADLOCK FALSE
PROPERTY WaitEnds
