\* Two clients call train() under one external id or none and look up ids,
\* with a retention of 0 and a clock of 0..1, so entries expire, purges
\* iterate, pop, and restart when the other client changes _futures; one
\* future (so one worker) that may save to one path.
CONSTANTS
    Clients = {c1, c2}
    Futures = {f1}
    ExternalIds = {x}
    Retention = 0
    MaxTime = 1
    Paths = {p1}
    UseSubprocess = FALSE
    None = None
    NoFuture = NoFuture
SPECIFICATION Spec
SYMMETRY MCSymmetry
INVARIANT TypeOK
