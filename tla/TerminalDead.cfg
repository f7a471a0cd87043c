\* One client that reads what it is sent.
CONSTANTS
    c1 = c1
    c2 = c2
    Clients = {c1}
    Capacity = 1
    MaxOutput = 2
SPECIFICATION ReadingSpec
CHECK_DEADLOCK FALSE
PROPERTIES
    DeadIsTold
