\* Two requests of one user, two workers, one verification token and one
\* place in the queue.
CONSTANTS
    alice = alice
    bob = bob
    BobsRequests = {}
    Requests = {r1, r2}
    Workers = {w1, w2}
    Users = {alice, bob}
    UserOf <- MCUserOf
    Known = {alice}
    JobsCap = 1
    VerifyCap = 1
    NoRequest = NoRequest
SYMMETRY MCSymmetry
SPECIFICATION Spec
INVARIANTS
    JobsAccounted
PROPERTIES
    OnlyOverrunsAreLate
    OrderlyShutdown
    ImplementsRegistration
