CONSTANTS
    Id = {p1, p2, p3}
    Initially = {p1}
    MaxCommits = 5
    None = None
SPECIFICATION Spec
INVARIANTS
    ListIsAsTold
    DraftFollowsList
    FailureIsTold
PROPERTIES
    EditsAreKept
    NothingHangs
CHECK_DEADLOCK FALSE
