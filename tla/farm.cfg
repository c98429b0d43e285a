\* No symmetry: DeadIsForgotten is a liveness property.
CONSTANTS
    Workers = {w1}
    Devices = {d1, d2}
    Clients = {c1, c2}
    None = None
    Plugged <- OneHost
    MaxWire = 2
SPECIFICATION FairSpec
INVARIANTS
    TypeOK
    HolderUndisturbed
    OfferedIsSettled
    OneUnreserve
    HeldStatus
PROPERTIES
    DeadIsForgotten
    BoardsLive
    CleanHandover
