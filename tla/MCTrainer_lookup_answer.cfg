CONSTANTS
    Clients = {c1, c2}
    Futures = {f1, f2}
    ExternalIds = {}
    Retention = 0
    MaxTime = 1
    Paths = {p1}
    UseSubprocess = FALSE
    None = None
    NoFuture = NoFuture
SPECIFICATION Spec
SYMMETRY MCSymmetry
PROPERTY LookupAnswersRegistry
