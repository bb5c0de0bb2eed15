\* Two deliveries of one message, the skew of 30 s and the
\* TTL of 60 s at the scale of one tick to 30 s.  The map of src/esa is unbounded:
\* MaxNonces is out of reach of one key.
CONSTANTS
    h1 = h1
    h2 = h2
    h3 = h3
    m1 = m1
    m2 = m2
    k1 = k1
    k2 = k2
    Handlers = {h1, h2}
    Messages = {m1, m2}
    Keys = {k1, k2}
    MessageOf <- MCMessageOf
    KeyOf <- MCKeyOf
    TimestampOf <- MCTimestampOf
    Skew = 1
    TTL = 2
    MaxNonces = 3
    RereadClock = TRUE
    MaxTime = 4
SPECIFICATION FairSpec
PROPERTIES
    StaleGo
CHECK_DEADLOCK FALSE
