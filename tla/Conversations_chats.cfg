CONSTANTS
    Conv = {c1, c2}
    Msg = {m1}
    Load = {l1, l2}
    MaxLeft = 1
    Here = Here
    None = None
SPECIFICATION Spec
SYMMETRY Interchangeable
INVARIANTS ChatShowsItsConversation HistoryShowsSelection ListFollowsStore OrphansOnlyOfCurrent
