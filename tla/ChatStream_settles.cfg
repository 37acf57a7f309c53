CONSTANTS
    Msg = {m1}
    Op = {o1}
    Kinds = {"send", "resend", "rewrite"}
    MaxAttempts = 2
    MaxEnv = 2
    None = None
    Recovery = Recovery
SPECIFICATION FairSpec
PROPERTY
    SendSettles
CHECK_DEADLOCK FALSE
