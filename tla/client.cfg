SPECIFICATION FairSpec
CONSTANTS
    Serials = {s1, s2}
    Workers = {w1}
    Host <- SameHost
    MaxSpent = 3
    MaxHandlers = 1
    None = None
INVARIANTS TypeOK AwaitedComes AnswersOwn NoticeUnderWay
PROPERTY CallsReturn
\* a client may have no call to make, or wait for ever
CHECK_DEADLOCK FALSE
