CONSTANTS
    Key = {k1, k2}
    Check = {c1, c2}
    Save = {s1, s2}
    Empty = Empty
    None = None
SPECIFICATION Spec
INVARIANTS OnlyCheckedKeysSaved SpinnerIsForThisKey TypedIsJudged ValidIsSaved OneRow
