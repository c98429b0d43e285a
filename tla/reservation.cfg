\* Two workers, two boards, two clients, two connections.
CONSTANTS
    Workers = {w1, w2}
    Devices = {d1, d2}
    Clients = {c1, c2}
    Txns = {t1, t2}
    None = None
    WorkerStatus = {"available", "broken"}
SYMMETRY Symmetry
SPECIFICATION Spec
INVARIANTS
    TypeOK
    Integrity
    ReservedIsHeld
PROPERTIES
    OnlySilentWorkersDropped
    LeaseRefinement
    Serial
