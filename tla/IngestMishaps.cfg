\* One session, every mishap but the replacement of the file; the poll loop is fair.
CONSTANTS
    s1 = s1
    s2 = s2
    P = P
    R = R
    X = X
    NL = NL
    Sessions = {s1}
    Openers = {P, R}
    Prompts = {P}
    Filler = {X}
    Chunks <- MCChunks
    Contents <- MCContents
    MaxLen = 6
    Mishaps = {"crash", "open", "insert", "set_offset", "rebuild"}
    MaxMishaps = 2
SPECIFICATION FairSpec
INVARIANTS
    TypeOK
    OffsetAtLineBoundary
    RowsAreRecords
    NothingSkipped
    TimelineIsPrefix
PROPERTIES
    RebuildCatchesUp
    EveryRecordStored
    RefinesTranscriptLog
