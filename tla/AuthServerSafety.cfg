\* Two requests of one user, two workers, one verification token and one
\* place in the queue; tinc is reloaded after each update.
CONSTANTS
    alice = alice
    bob = bob
    BobsRequests = {}
    Requests = {r1, r2}
    Workers = {w1, w2}
    Users = {alice, bob}
    UserOf <- MCUserOf
    Known = {alice}
    JobsCap = 1
    VerifyCap = 1
    TincReload = TRUE
    NoRequest = NoRequest
SYMMETRY MCSymmetry
SPECIFICATION Spec
INVARIANTS
    TokensAccounted
    HostSettled
    JobsAccounted
PROPERTIES
    NoStaleOverwrite
    OrderlyShutdown
    ImplementsRegistration
    UsesHostStore
