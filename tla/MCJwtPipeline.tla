--------------------------- MODULE MCJwtPipeline ---------------------------
(***************************************************************************)
(* JwtPipeline for TLC: two users, alice and bob, tokens of alice that     *)
(* expire or begin while requests are served, and every combination of  *)
(* header, cookies, session, CSRF and view that the code tells apart.      *)
(***************************************************************************)
EXTENDS JwtPipeline

CONSTANTS alice, bob, home, work

MCIssuer == [ISSUER |-> "lms", SECRET_KEY |-> "symmetric", AUDIENCE |-> "service"]
MCIssuers == <<MCIssuer>>

Token(k, u, e) ==
    [key |-> k, readable |-> TRUE, exp |-> 9, iat |-> 0, nbf |-> None, iss |-> "lms", aud |-> {"service"},
     version |-> 1, username |-> u, email |-> e]

AliceToken == Token("asymmetric", alice, home)
BobToken   == Token("symmetric", bob, home)
ShortToken == [AliceToken EXCEPT !.exp = 1]
EarlyToken == [AliceToken EXCEPT !.nbf = 1]
NewerToken == [AliceToken EXCEPT !.version = 2]
Unreadable == [AliceToken EXCEPT !.readable = FALSE, !.key = None]
OldMail    == [AliceToken EXCEPT !.email = work]
NoMail     == [AliceToken EXCEPT !.email = None]

View(classes, permission) == [auth |-> classes, permission |-> permission]

AllViews ==
    {View(<<"jwt", "session">>, p) : p \in {"any", "authenticated", "login"}}
        \cup {View(<<"jwt">>, "any"), View(<<"session", "jwt">>, "login"),
              View(<<"jwt", "session_inactive">>, "authenticated"),
              View(<<"session_inactive">>, "login"), View(<<>>, "login"),
              View(<<"jwt", "session">>, "composed")}

Arriving(resolves, headers, halves, fulls, sessions, views) ==
    {[resolves |-> res, header |-> h, payload |-> p[1], signature |-> p[2], full |-> f,
      session |-> s, csrf |-> c, view |-> v] :
        res \in resolves, h \in headers, p \in halves, f \in fulls, s \in sessions,
        c \in BOOLEAN, v \in views}

\* No cookie, whole ones, halves of different tokens, and a missing half.
AllHalves ==
    {<<None, None>>, <<ShortToken, ShortToken>>, <<BobToken, BobToken>>, <<AliceToken, BobToken>>,
     <<EarlyToken, EarlyToken>>, <<NewerToken, NewerToken>>, <<Unreadable, Unreadable>>, <<None, BobToken>>}

MCRequests ==
    Arriving({TRUE}, {None, ShortToken, BobToken, Unreadable}, AllHalves, {None},
             {None, alice, bob}, AllViews)
        \cup Arriving({FALSE}, {None}, {<<None, None>>}, {None}, {None, alice},
                      {View(<<>>, "any")})
        \cup Arriving({TRUE}, {None}, {<<None, None>>, <<AliceToken, None>>}, {BobToken}, {None, alice},
                      {View(<<"jwt", "session">>, "login")})

\* The e-mail address matters: tokens with the address now stored, another one,
\* and none.
EmailRequests ==
    Arriving({TRUE}, {None, ShortToken, NoMail, OldMail},
             {<<None, None>>, <<ShortToken, ShortToken>>, <<OldMail, OldMail>>, <<NoMail, NoMail>>},
             {None}, {None, alice, bob}, {View(<<"jwt", "session">>, "login"), View(<<"session", "jwt">>, "any")})

\* Headers have less to do with the lazy user than cookies have.
LazyRequests ==
    {r \in MCRequests : /\ r.view.permission # "composed"
                        /\ r.header \in {None, BobToken}
                        /\ r.header # None => r.payload \in {ShortToken, EarlyToken, BobToken}}
        \cup EmailRequests

\* A few requests, for a worker whose cache is never emptied.
FewRequests ==
    Arriving({TRUE}, {None, BobToken}, {<<None, None>>, <<ShortToken, ShortToken>>},
             {None}, {None, bob}, {View(<<"jwt", "session">>, "login"), View(<<"session">>, "any")})
        \cup Arriving({FALSE}, {None}, {<<None, None>>}, {None}, {None, alice}, {View(<<>>, "any")})

=============================================================================
