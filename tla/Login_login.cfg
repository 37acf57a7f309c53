CONSTANTS
    Visit = {v1, v2}
    Session = {s1, s2, s3}
    None = None
SPECIFICATION Spec
INVARIANTS OneLoginWaits
PROPERTIES ForgetsOnlyWhatFailed LoadingEnds
