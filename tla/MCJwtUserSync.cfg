\* Two workers serve one user, whose account and address other code changes.
SPECIFICATION FairSpec
CONSTANTS
    ann = ann
    home = home
    work = work
    course = course
    library = library
    None = None
    Users = {ann}
    Attributes <- MCAttributes
    Mapped <- MCMapped
    Mergeable = {"roles"}
    Keys = {course, library}
    Values = {home, work}
    NewRow <- MCNewRow
    Workers = {w1, w2}
    Tokens <- OneUserTokens
    AdminAttributes = {"is_active", "email"}
    w1 = w1
    w2 = w2
INVARIANTS
    TypeOK
    ReturnedUserHasClaims
PROPERTIES
    SettlesOnClaims
    LosesOnlyOverlapping
