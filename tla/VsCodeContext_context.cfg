CONSTANTS
    Path = {p1}
    Id = {i1, i2}
    Text = {t1}
    Request = {r1, r2}
    Send = {s1}
    Empty = Empty
    None = None
SPECIFICATION Spec
INVARIANTS PinsAgree PreviewIsOfLatest TextIsPreviewed
PROPERTIES ClearsOnlyWhatItSent PreviewSettles
