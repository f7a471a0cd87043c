\* Two clients that may stop reading, and a channel smaller than the output.
CONSTANTS
    c1 = c1
    c2 = c2
    Clients = {c1, c2}
    Capacity = 1
    MaxOutput = 2
SPECIFICATION FairSpec
CHECK_DEADLOCK FALSE
INVARIANTS
    TypeOK
    StreamInOrder
    DeadIsLast
PROPERTIES
    EmulatorFed
    TasksEnd
