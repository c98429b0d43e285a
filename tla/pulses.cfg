CONSTANTS
    b1 = b1
    b2 = b2
    b3 = b3
    Requests <- TwoRequests
    Length <- MCLength
    Size = 2
    Fifo = 1
    MaxLine = 2
    Mixed = Mixed
    None = None
SYMMETRY Symmetry
SPECIFICATION Spec
INVARIANTS
    TypeOK
    Kept
    OwnPulses
    WakeUpComes
PROPERTIES
    AnswersAll
\* All was evaluated, or the state was left.
CHECK_DEADLOCK FALSE
