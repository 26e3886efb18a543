\* Requests of two users on one thread, with and without exceptions.
SPECIFICATION Spec
CONSTANTS
    None = None
    Users = {"root", "alice"}
    Role <- MCRole
INVARIANTS
    TypeOK
    FirstHookReported
    ReportedIffSeen
    AttributesAgree
