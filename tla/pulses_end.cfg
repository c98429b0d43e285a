CONSTANTS
    b1 = b1
    b2 = b2
    b3 = b3
    Requests <- OneEach
    Length <- MCLength
    Size = 2
    Fifo = 1
    MaxLine = 2
    Mixed = Mixed
    None = None
SPECIFICATION FairSpec
PROPERTIES
    Answered
    ExitEnds
CONSTRAINT TwoAskedUncut
\* All was evaluated, or the state was left.
CHECK_DEADLOCK FALSE
