\* Transcripts of one or two sessions stored, projected, repaired and viewed.
CONSTANTS
    root = root
    child = child
    Nil = Nil
    Blank = " "
    SnakeCase <- MCSnakeCase
    Operations <- MCOperations
    Uncuttable = {"e'"}
    Directories <- MCDirectories
    Sessions = {root, child}
    Stories <- MCStories
    MaxMishaps = 2
SPECIFICATION Spec
INVARIANTS
    TypeOK
    ParsedInContext
    RecordsTakenOver
    TurnsAreCurrent
    RenderingsAgree
    AgentAgnostic
    SubagentShown
    ViewIsCurrent
CHECK_DEADLOCK FALSE
