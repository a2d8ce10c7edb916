\* Every retention_duration string of up to 4 characters over two digits,
\* the point and the four unit letters, and the setting absent.
CONSTANTS
    Digits = {"0", "1"}
    MaxLen = 4
    None = None
SPECIFICATION Spec
INVARIANT TypeOK
INVARIANT ParseMatchesGrammar
\* __init__ runs once: after it the model has nothing left to do.
CHECK_DEADLOCK FALSE
