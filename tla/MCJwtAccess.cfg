\* Users and restricted applications; a token expires while it is looked at.
SPECIFICATION Spec
CONSTANTS
    None = None
    Usernames = {"alice", "Alice", "bob"}
    Lower <- MCLower
    Scopes = {"read", "write"}
    Orgs = {"orgX", "orgY"}
    Requests <- MCRequests
    MaxTime = 2
INVARIANTS
    TypeOK
    OnlyEntitledAllowed
    ExpiredNeverAllowed
    EntitledNeverDenied
CHECK_DEADLOCK FALSE
