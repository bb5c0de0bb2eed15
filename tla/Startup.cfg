\* Two directories, six contents of a paths file and six environments.
CONSTANTS
    d = d
    e = e
    Dirs = {d, e}
    Relative = Relative
    Empty = Empty
    Unset = Unset
    NoFile = NoFile
    Broken = Broken
    Torn = Torn
    NoAnswers = NoAnswers
    AdminFiles <- MCAdminFiles
    Environments <- MCEnvironments
SPECIFICATION Spec
INVARIANTS
    TypeOK
    AnswersKept
    RestartsUnattended
