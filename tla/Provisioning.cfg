\* Two names, two hashes, a users.txt of up to two lines to begin with and five
\* subnets; every call of a replacement may fail, either tool may be killed.
SPECIFICATION Spec
CONSTANTS
    a = a
    b = b
    x = x
    y = y
    Names <- MCNames
    Hashes <- MCHashes
    Subnets <- MCSubnets
    MaxLines = 2
    NoFile = NoFile
SYMMETRY MCSymmetry
INVARIANTS
    FilesLoad
    PromisesKept
