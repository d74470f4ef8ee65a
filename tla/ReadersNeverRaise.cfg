SPECIFICATION Spec
CONSTANTS
    Writers = {w1, w2}
    Followers = {f1}
    Readers = {r1}
    MaxEvents = 1
    MaxPage = 2
    NoWriter = NoWriter
INVARIANT
    ReadersNeverRaise
CHECK_DEADLOCK FALSE
