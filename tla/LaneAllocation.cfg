\* Every share in quarters, up to eight packages of budget and four queued per lane.
CONSTANTS
    Den = 4
    MaxTotal = 8
    MaxQueue = 4
    MaxClaims = 4
SPECIFICATION LaneSpec
CHECK_DEADLOCK FALSE
INVARIANTS WorkConserving ShareHonoured ClaimsDealt
