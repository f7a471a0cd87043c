\* No request is dropped or eager, statements and broker answer; agents are started in the terminal or with the session.
CONSTANTS
    p1 = p1
    p2 = p2
    d1 = d1
    d2 = d2
    s1 = s1
    s2 = s2
    claude = claude
    codex = codex
    NoAgent = NoAgent
    Ptys = {p1}
    Deleters = {d1, d2}
    Starters = {}
    Agents = {claude, codex}
    Mishaps = {"crash"}
SPECIFICATION FairSpec
CHECK_DEADLOCK FALSE
INVARIANTS
    LiveIsSupervised
    DeletedIsGone
    NoPhantomAgent
    RunningIsRecorded
PROPERTIES
    ExitIsRecorded
    CredentialIsRevoked
