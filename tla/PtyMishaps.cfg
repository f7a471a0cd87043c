\* One session, every mishap.
CONSTANTS
    p1 = p1
    p2 = p2
    d1 = d1
    d2 = d2
    s1 = s1
    s2 = s2
    claude = claude
    codex = codex
    NoAgent = NoAgent
    Ptys = {p1}
    Deleters = {d1, d2}
    Starters = {s1}
    Agents = {claude, codex}
    Mishaps = {"crash", "hangup", "hangup_create", "db", "broker", "eager", "early", "slow"}
SPECIFICATION Spec
CHECK_DEADLOCK FALSE
SYMMETRY MCSymmetry
INVARIANTS
    TypeOK
    EndedRuntime
PROPERTIES
    RowLifecycle
