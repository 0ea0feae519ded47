SPECIFICATION MCSpec
CONSTANTS
    s1 = s1
    s2 = s2
    Session = {s1, s2}
    Run = {1, 2}
    None = None
    Starts <- MCStarts
    d1 = d1
    d2 = d2
    NoDigest = NoDigest
    Change <- MCChange
    Made <- MCMade
    Numeric <- MCChange
    MaxEdits = 2
    MaxCrashes = 1
    MaxJoins = 1
    Corpora <- MCCorpora
INVARIANTS EachRequestIsReviewed
CHECK_DEADLOCK FALSE
