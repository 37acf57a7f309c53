CONSTANTS
    User = {u1, u2}
    MaxFetches = 2
    MaxVersion = 2
    None = None
    Page = Page
    Refusal = Refusal
SPECIFICATION Spec
INVARIANTS
    PromiseIsRunning
    UpdateIsFollowed
    FreshUnlessOverlapped
    ErrorIsOfLastFetch
PROPERTY
    FetchEnds
CHECK_DEADLOCK FALSE
