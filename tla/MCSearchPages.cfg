\* Searches with up to three results on pages of two, while rows come and go.
SPECIFICATION Spec
CONSTANTS
    None = None
    Keys = {"k1", "k2", "k3"}
    PageSize = 2
    MaxPage = 3
INVARIANTS
    TypeOK
    ReadsThrough
    LastPageEndsResults
