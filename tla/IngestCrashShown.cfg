\* A crash against the safe-replay claim.
CONSTANTS
    s1 = s1
    s2 = s2
    P = P
    R = R
    X = X
    NL = NL
    Sessions = {s1}
    Openers = {P, R}
    Prompts = {P}
    Filler = {X}
    Chunks <- MCChunks
    Contents <- MCContents
    MaxLen = 4
    Mishaps = {"crash"}
    MaxMishaps = 1
SPECIFICATION FairSpec
PROPERTIES
    EveryRecordShown
