SPECIFICATION Spec
CONSTANTS
    MaxDraws = 1
    Consumers = {c1, c2}
    MAX_ATTEMPTS = 3
    MaxFaults = 2
    NONE = NONE
INVARIANTS
    TypeOK
    RemindedOnce
PROPERTIES
    MessagesSettle
