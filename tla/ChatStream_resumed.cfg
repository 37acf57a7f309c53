CONSTANTS
    Msg = {m1}
    Op = {o1}
    Kinds = {"send"}
    MaxAttempts = 1
    MaxEnv = 1
    None = None
    Recovery = Recovery
SPECIFICATION Spec
PROPERTY
    DeliveredAnswerKept
CHECK_DEADLOCK FALSE
