SPECIFICATION FairSpec
CONSTANTS
    Users = {u1, u2}
    Sessions = {s1, s2, s3}
    Keys = {k1}
    NoKey = NoKey
    NoRow = NoRow
    Amounts <- MCAmounts
    MaxPosts = 3
INVARIANTS
    ChargedOncePerKey
PROPERTIES
    AtomicSpec
    PostingEnds
CHECK_DEADLOCK FALSE
