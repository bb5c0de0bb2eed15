\* Three requests of up to three clients, each directly or through up to
\* three proxies, and a map with two places.
CONSTANTS
    a = a
    b = b
    c = c
    p = p
    q = q
    Junk = Junk
    Handlers = {h1, h2, h3}
    IPs = {a, b, c, p, q}
    TrustedProxyIPs = {p}
    TrustedProxyNets <- MCNets
    Lines <- MCLines
    Chains <- MCChains
    NoBucket = NoBucket
    Burst = 1
    Rate = 1
    IdleTTL = 2
    MaxEntries = 2
    MaxLag = 1
    MaxTime = 3
SYMMETRY MCSymmetry
SPECIFICATION Spec
INVARIANTS
    TypeOK
    CountMatches
    NoFlood
PROPERTIES
    OnlyIdleForgotten
CHECK_DEADLOCK FALSE
