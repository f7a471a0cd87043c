\* Files are truncated or written anew while being ingested.
CONSTANTS
    s1 = s1
    s2 = s2
    P = P
    R = R
    X = X
    NL = NL
    Sessions = {s1}
    Openers = {P, R}
    Prompts = {P}
    Filler = {X}
    Chunks <- MCShortChunks
    Contents <- MCContents
    MaxLen = 4
    Mishaps = {"replace"}
    MaxMishaps = 2
SPECIFICATION Spec
INVARIANTS
    PromptsBeginTurns
PROPERTIES
    RowsSurviveRotation
