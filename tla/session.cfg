CONSTANTS
    Messages = {m1, m2}
    Sockets = {k1, k2}
    None = None
    MaxSessions = 2
SYMMETRY Symmetry
SPECIFICATION Spec
INVARIANTS
    TypeOK
    OnlyOnce
    NothingStranded
\* All was sent, and every socket came and went.
CHECK_DEADLOCK FALSE
