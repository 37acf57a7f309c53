CONSTANTS
    f1 = f1
    f2 = f2
    f3 = f3
    shared = shared
    own = own
    Features <- MCFeatures
    Events <- MCEvents
    EventOf <- MCEventOf
    Callers = {c1, c2}
    Tokens = {t1, t2}
    None = None
SPECIFICATION FairSpec
INVARIANTS
    ConnectedIsTrue
    ReplacedSocketIsDead
    NeverReplacedInUse
    CallersShareOneAttempt
    ListenersAreTracked
    HandshakeHasToken
PROPERTIES
    KeepsService
    InitSettles
