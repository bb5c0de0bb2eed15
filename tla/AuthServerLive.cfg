\* One request of a listed and one of an unlisted user, two workers, under
\* the fairness of the scheduler; shutdown may start at any time.
CONSTANTS
    alice = alice
    bob = bob
    BobsRequests = {r2}
    Requests = {r1, r2}
    Workers = {w1, w2}
    Users = {alice, bob}
    UserOf <- MCUserOf
    Known = {alice}
    JobsCap = 1
    VerifyCap = 1
    TincReload = TRUE
    NoRequest = NoRequest
SPECIFICATION FairSpec
PROPERTIES
    RequestsEnd
    ShutdownEnds
