\* Two workers authenticate two users while accounts are closed and reopened.
SPECIFICATION Spec
CONSTANTS
    None = None
    Workers = {w1, w2}
    Users = {"alice", "bob"}
    Profiles = {"profile"}
    Tokens = {"tokenA", "tokenB"}
    Owner <- MCOwner
INVARIANTS
    TypeOK
    AuthenticatedByProvider
    ClosedAccountRefused
    AttributeTellsOutcome
PROPERTIES
    AccountsKept
