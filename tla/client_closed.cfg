SPECIFICATION Spec
CONSTANTS
    Serials = {s1, s2}
    Workers = {w1}
    Host <- SameHost
    MaxSpent = 1
    MaxHandlers = 1
    None = None
PROPERTY InUseIsSeen
CHECK_DEADLOCK FALSE
