\* Two updates of the host file, up to four failing calls in each, one crash.
CONSTANTS
    Keys = {k1, k2}
    Absent = Absent
    Torn = Torn
    MaxUpdates = 2
    MaxFaults = 4
    MaxCrashes = 1
SYMMETRY MCSymmetry
SPECIFICATION Spec
INVARIANTS
    AllOrNothing
    HostFileSurvives
    DurableAnswer
PROPERTIES
    ImplementsHostStore
CHECK_DEADLOCK FALSE
