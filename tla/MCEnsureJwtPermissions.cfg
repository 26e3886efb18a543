\* Two threads; classes with own, inherited, default and shared permissions.
SPECIFICATION Spec
CONSTANTS
    Threads = {t1, t2}
    t1 = t1
    t2 = t2
    APIView = APIView
    DefaultList = DefaultList
    SharedList = SharedList
    None = None
    Views <- MCViews
    JwtViews <- MCJwtViews
    Mro <- MCMro
    Lists = {DefaultList, SharedList}
    Compositions <- MCCompositions
    Declared <- MCDeclared
    ListItems <- MCListItems
SYMMETRY Symmetry
INVARIANTS
    TypeOK
    RestrictedIsRefused
    OthersAsDeclared
    AddedOncePerThread
