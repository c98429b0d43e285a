CONSTANTS
    MaxRequests = 2
    MaxReplugs = 0
SPECIFICATION LateSpec
PROPERTIES
    TimeoutIsOwn
CHECK_DEADLOCK FALSE
