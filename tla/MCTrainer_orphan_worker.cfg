CONSTANTS
    Clients = {c1, c2}
    Futures = {f1, f2}
    ExternalIds = {x}
    Retention = None
    MaxTime = 0
    Paths = {p1}
    UseSubprocess = FALSE
    None = None
    NoFuture = NoFuture
SPECIFICATION Spec
SYMMETRY MCSymmetry
INVARIANT NoOrphanWorker
