SPECIFICATION Spec
CONSTANTS
    w1 = w1
    s1 = s1
    s2 = s2
    d1 = d1
    d2 = d2
    Workspaces = {w1}
    Sessions = {s1}
    Deletes = {d1}
    BatchSize = 1
    Options <- AnyOptions
    Mishaps = {"race"}
SYMMETRY Interchangeable
PROPERTIES NeverFromUnderASession
CHECK_DEADLOCK FALSE
