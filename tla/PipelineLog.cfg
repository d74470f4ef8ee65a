SPECIFICATION Spec
CONSTANTS
    Writers = {w1, w2}
    Followers = {f1}
    Readers = {r1}
    MaxEvents = 2
    MaxPage = 2
    NoWriter = NoWriter
SYMMETRY Symmetry
INVARIANTS
    LogValid
    MirroredOnce
    FollowerPrefix
PROPERTY
    NothingLost
CHECK_DEADLOCK FALSE
