CONSTANTS
    Msg = {m1, m2}
    Op = {o1, o2}
    Kinds = {"send", "rewrite"}
    MaxAttempts = 1
    MaxEnv = 1
    None = None
    Recovery = Recovery
SPECIFICATION Spec
SYMMETRY Symmetric
INVARIANTS
    CleanupSparesEarlierAnswers
    CompletedIsDurable
    OpenRowsAttended
PROPERTY
    RowLifeCycle
CHECK_DEADLOCK FALSE
