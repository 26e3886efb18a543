----------------------- MODULE MCEnsureJwtPermissions -----------------------
(***************************************************************************)
(* EnsureJwtPermissions for TLC: every way a class comes by its            *)
(* permissions, with and without JWTs.                                     *)
(***************************************************************************)
EXTENDS EnsureJwtPermissions, TLC

CONSTANTS APIView, DefaultList, SharedList

AllowAny == PermissionClass("AllowAny")
IsStaff == PermissionClass("IsStaff")
JwtRestrictedApplication == PermissionClass("JwtRestrictedApplication")

\* (NotJwtRestrictedApplication & IsStaff) | JwtRestrictedApplication
Conditional == Or(And(Required, IsStaff), JwtRestrictedApplication)
\* ~JwtRestrictedApplication, which says what the middleware would add
Negated == Not(JwtRestrictedApplication)
\* ~(NotJwtRestrictedApplication & IsStaff)
NegatedComposition == Not(And(Required, IsStaff))

MCCompositions ==
    {Required, AllowAny, IsStaff, JwtRestrictedApplication, And(Required, IsStaff),
     Conditional, Negated, NegatedComposition}

\* "default" and "plain" have the default of the REST framework, "shared" and
\* "other" one list, "child" the tuple of "staff".  So has "mixed", until "default",
\* its other base, gets permissions of its own.
MCViews == {APIView, "default", "plain", "staff", "child", "mixed", "shared", "other",
            "conditional", "composition"}
MCJwtViews == MCViews \ {APIView, "mixed", "other"}
MCMro ==
    [c \in MCViews |->
        CASE c = APIView -> <<APIView>>
          [] c = "child" -> <<"child", "staff", APIView>>
          [] c = "mixed" -> <<"mixed", "default", "staff", APIView>>
          [] OTHER -> <<c, APIView>>]
MCDeclared ==
    [c \in MCViews |->
        CASE c = APIView -> DefaultList
          [] c \in {"default", "plain", "child", "mixed"} -> None
          [] c = "staff" -> <<IsStaff>>
          [] c \in {"shared", "other"} -> SharedList
          [] c = "conditional" -> <<Negated, Conditional>>
          [] c = "composition" -> <<IsStaff, NegatedComposition>>]
MCListItems == [l \in {DefaultList, SharedList} |-> IF l = DefaultList THEN <<AllowAny>> ELSE <<IsStaff>>]

Symmetry == Permutations(Threads)

=============================================================================
