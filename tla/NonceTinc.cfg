\* Two deliveries of one message and one of another, the skew of 30 s and the
\* TTL of 60 s at the scale of one tick to 30 s.
CONSTANTS
    h1 = h1
    h2 = h2
    h3 = h3
    m1 = m1
    m2 = m2
    k1 = k1
    k2 = k2
    Handlers = {h1, h2, h3}
    Messages = {m1, m2}
    Keys = {k1, k2}
    MessageOf <- MCMessageOf
    KeyOf <- MCKeyOf
    TimestampOf <- MCTimestampOf
    Skew = 1
    TTL = 2
    MaxNonces = 1
    RereadClock = FALSE
    MaxTime = 5
SYMMETRY MCSymmetry
SPECIFICATION Spec
INVARIANTS
    AcceptedOnce
    WithinCapacity
PROPERTIES
    OncePerTTL
    RejectedForAReason
CHECK_DEADLOCK FALSE
