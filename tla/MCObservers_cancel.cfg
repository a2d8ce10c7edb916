CONSTANTS
    Readers = {r1, r2}
    Futures = {f1}
    MaxTime = 2
    Paths = {p1}
    UseSubprocess = FALSE
    None = None
    NoFuture = NoFuture
SPECIFICATION Spec
INVARIANT TypeOK
PROPERTY CancelIsFinal
PROPERTY TerminalAfterWait
