\* One worker is enough: the end calls alone are at stake.
CONSTANTS
    Workers = {w1}
    Devices = {d1, d2}
    Clients = {c1, c2}
    Txns = {t1, t2}
    None = None
    WorkerStatus = {"available", "broken"}
SYMMETRY Symmetry
SPECIFICATION Spec
PROPERTIES
    EndsOnlyOwn
