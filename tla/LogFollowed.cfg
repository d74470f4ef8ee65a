SPECIFICATION FairSpec
CONSTANTS
    Writers = {w1, w2, w3}
    Followers = {f1}
    Readers = {}
    MaxEvents = 1
    MaxPage = 1
    NoWriter = NoWriter
INVARIANT TypeOK
PROPERTY
    FollowerCatchesUp
CHECK_DEADLOCK FALSE
