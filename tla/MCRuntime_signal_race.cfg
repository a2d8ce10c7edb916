\* Every configuration of the two servers and one signal, SIGINT or SIGTERM,
\* at any point of main.
CONSTANTS
    MaxSignals = 1
SPECIFICATION Spec
PROPERTY ShutdownOnInterrupt
\* A runtime serving with no signal pending, or whose main has returned,
\* rightly has nothing left to do.
CHECK_DEADLOCK FALSE
