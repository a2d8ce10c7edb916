\* One caller, two futures on the subprocess backend that may be given the
\* same save path; the clock does not matter here.
CONSTANTS
    Readers = {r1}
    Futures = {f1, f2}
    MaxTime = 0
    Paths = {p1}
    UseSubprocess = TRUE
    None = None
    NoFuture = NoFuture
SPECIFICATION Spec
PROPERTY LoadReturnsOnlyCompleted
