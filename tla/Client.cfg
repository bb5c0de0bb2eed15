\* Each of the three programs with up to two attempts and three key pairs.
CONSTANTS
    Programs = {"wg_gui", "tinc_gui", "cli"}
    MaxAttempts = 2
    MaxKeys = 3
SPECIFICATION FairSpec
INVARIANTS
    TypeOK
    ConfigInForce
    PrivateHalfHeld
PROPERTIES
    AttemptEnds
CHECK_DEADLOCK FALSE
