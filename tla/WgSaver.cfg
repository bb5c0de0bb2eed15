\* Three requests, channels with room for one.
CONSTANTS
    Updates = {u1, u2, u3}
    SaveCap = 1
SPECIFICATION SaverFairSpec
INVARIANTS
    NoSaveForgotten
PROPERTIES
    PeersSaved
    StopEnds
CHECK_DEADLOCK FALSE
