CONSTANTS
    Messages = {m1}
    Sockets = {k1, k2}
    None = None
    MaxSessions = 1
SPECIFICATION Spec
PROPERTIES
    TimeoutsOnlyUnconnected
CHECK_DEADLOCK FALSE
