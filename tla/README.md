# A formal model of edx-drf-extensions

`edx-drf-extensions` is a library that Open edX services install into Django
and Django REST framework (DRF). It decodes JWTs, authenticates requests by a
JWT header, a JWT cookie, a session or a bearer token, redirects anonymous users
to login, and adds permissions, pagination and monitoring. This directory holds
TLA+ modules that model it, the TLC configurations that check them, and theorems
that TLAPS checks. Paths below are relative to `src/edx_rest_framework_extensions/`
unless they start with another directory of the repository.

## The system

| Part | State it keeps | Operations | What makes it correct |
|---|---|---|---|
| Decoder, `auth/jwt/decoder.py` with `settings.py` | none; reads settings and the clock | `jwt_decode_handler`, `unsafe_jwt_decode_handler`, `get_asymmetric_only_jwt_decode_handler`, the claim readers | accepts exactly the tokens that are signed by a configured key and whose claims are in order, although it decodes every token two or three times with different options |
| `JwtAuthentication`, `auth/jwt/authentication.py` | the flag `_is_request_user_for_jwt_set` in the request cache; rows of the user table | `authenticate`, `authenticate_credentials`, `enforce_csrf` and the mismatch checks | cookies need CSRF, headers do not; failed headers are final, failed cookies are forgiven unless that would let in somebody else; claims end up in the row |
| `JwtAuthCookieMiddleware`, `auth/jwt/middleware.py` | `request.COOKIES`, `request.user`, `_cached_jwt_user` in the request cache | `process_view`; the lazy user | the user other middleware see is proved by this request and is the one the view will see |
| `JwtRedirectToLoginIfUnauthenticatedMiddleware`, same file | `login_required_found` in the request cache | `process_view`, `process_response` | exactly the anonymous requests of login views are redirected |
| `EnsureJWTAuthSettingsMiddleware`, same file | `permission_classes` of view classes, shared by all threads | `process_view` | every JWT view ends up with `NotJwtRestrictedApplication`, and nobody else notices |
| Session authentication, `auth/session/authentication.py` | none | `authenticate` | a logged-in, possibly inactive user, with CSRF |
| Bearer authentication, `auth/bearer/authentication.py` | rows of the user table | `authenticate`, `get_user_info` | only the provider's word authenticates; accounts are created once; inactive users are refused |
| Permissions, `permissions.py` | none | `has_permission` of eight classes and their composition | restricted tokens only reach what their scopes and filters name |
| `RequestCustomAttributesMiddleware`, `middleware.py` | one key of the request cache | the four middleware hooks | reports the first step at which a user was known |
| `paginate_search_results`, `paginators.py` | none; reads the table by the keys of an index | one function | pages of rows in the order of the index |
| `ScopedQuerysetMixin`, `scoping.py`; cookies, `config`, `utils`, `csrf/api/v1/views.py` | none | `get_queryset`; names, toggles, a view | |

The parts meet in five places, and these are what is hard here:

* **`request.user`**, written by Django, by the cookie middleware (as an
  unresolved `SimpleLazyObject`), and by DRF after authentication; read by other
  middleware, by the mismatch check, by session authenticators and on the way out.
* **`request.COOKIES`**, written by the middleware, read by the authenticator.
* **The request cache**, thread-local and emptied by `RequestCacheMiddleware` of
  `edx-django-utils` when a request begins, ends, or raises. Flags in it
  are valid only as long as it belongs to the request.
* **The clock**: a token is decoded when a middleware looks, in the view, by the
  e-mail check and by each permission; it may expire, or begin to be valid (`iat`,
  `nbf`), in between.
* **The user table and the view classes**, which threads share without a lock or
  a transaction.

`PROJECT.json` lists the hazards at their lines with the properties that cover
them.

## The modules

"←" reads "is extended by", "⇒" "implements".

    JwtDecoder ← JwtAuthentication ← JwtPipeline ← JwtPipelineProofs, MCJwtPipeline
    JwtDecoding (an INSTANCE of JwtDecoder) ← JwtDecodingProofs, MCJwtDecoder
    UserAttributes ← UserTable
                   ← JwtUserSync (⇒ UserTable) ← JwtUserSyncProofs, MCJwtUserSync
    EnsureJwtPermissions ← EnsureJwtPermissionsProofs, MCEnsureJwtPermissions
    JwtAccess            ← JwtAccessProofs, MCJwtAccess
    BearerAuth           ← BearerAuthProofs, MCBearerAuth
    RequestAttributes    ← RequestAttributesProofs, MCRequestAttributes
    SearchPages          ← SearchPagesProofs, MCSearchPages

The first chain composes what interacts within a request. The others share only
what each models on its own account: `JwtUserSync` has all attributes and all workers
of the method of which the pipeline has one worker and the e-mail address.

Definitions headed "A fault" are what a likely bug would make of the definition
after them. No specification uses them: they serve to see that each property
notices such a bug.

### JwtDecoder

Pure operators. A token is a record of what the decoder tells apart: the key that
signed it, whether it unpacks, `exp`, `iat`, `nbf`, issuer, audience, major version,
username, e-mail. PyJWT checks `iat` and `nbf` where it verifies the signature, since
the options of decoder.py:304-309 leave them on (`ImmatureAt`): a token that is a
little ahead of the clock is refused now and accepted later.

Each operator says whether the Python function of its name returns or raises. The loop over a key set stops at the first key that works and
reports only the last failure, so it is membership in the set; the empty set
falls through it.

`JwtDecoding` shows one token to the handlers while the clock runs, in a service with
any configuration in `Settings`: its variable `settings` takes the place of the
constants of `JwtDecoder`. `Good` is what the documentation promises of the claims and
the signature, as one predicate, where the code has three decodes with options of
their own. In a service without asymmetric keys it is about the claims alone, since the
first attempt at the signature has then no key to fail with.

### JwtAuthentication

The decision `JwtAuthentication.authenticate` takes, as one operator
`JwtAuthenticate` of what it reads: the request, the JWT cookie, `request.user`,
the flag, the time, whether the account was found and saved, and the e-mail address
of the user object. It yields the kind of the outcome (`none`:
returns None; `user`; `raise`: an exception DRF answers; `crash`: one it does
not), the user, and the value of `jwt_auth_result`.

### JwtPipeline

The state machine of a request: one worker thread that serves requests one after
the other.

| Variable | Code |
|---|---|
| `pc` | where Django and DRF are with the request |
| `user` | `request.user`; `LazyJwt` while it is the unresolved lazy object of `auth/jwt/middleware.py:258` |
| `cookie` | `request.COOKIES[jwt_cookie_name()]` |
| `cache` | the keys `_is_request_user_for_jwt_set`, `_cached_jwt_user` and `login_required_found` of the request cache |
| `remaining` | the authenticators DRF's `Request._authenticate` has still to call |
| `call` | the user object of a running `authenticate()`: whether one was `found`, the address `read` with it, and (history) the addresses the row has `held` since |
| `authenticator`, `attr`, `response` | `request.successful_authenticator`, `jwt_auth_result`, the answer |
| `email`, `now` | the user table and the clock, which others change at any time |
| `req`, `since` | the request and when it arrived (history) |
| `middlewareUser`, `reentered` | history: who another middleware saw; whether resolving `request.user` read it |

`Begin` stands for Django, `RequestCacheMiddleware` and `AuthenticationMiddleware`.
`RedirectProcessView` and `CookieProcessView` are the two `process_view` handlers
in the order the docstring prescribes (middleware.py:108); the first ends in an
exception for a view with composed permissions. `MiddlewareReadsUser`
is some later middleware of the service. `StartUserFromJwt` with `UserFromJwt`,
`NoUserFromJwt` and `CachedUserFromJwt` resolve the lazy user, whenever somebody asks:
in a `process_view`, in the view, and on the way out, where the hooks of several
middleware read `request.user` (`RequestCustomAttributesMiddleware` among them).
`StartJwtAuthentication` with `RunJwtAuthentication`, and
`RunSessionAuthentication`, are one authenticator each; `Authenticated`,
`TryNext`, `Rejected`, `Crashed` are what DRF does with its result.
`NotAcceptable` and `RaisesEarly` are views that answer or raise before they
authenticate. `CheckPermission`, `ViewRaises`, `ProcessException`, `ProcessResponse` and
`EndRequest` finish.

A call of `authenticate` takes two steps. `LookUpAccount` decodes the token and reads
the row (authentication.py:171-181). `SaveAccount` and `OutcomeOfCall` copy the claims,
save the user object if that changed it, decode the token a second time, compare the
address of the object and check CSRF and the session. Between the two the clock may
run and `ChangeEmail` may store other addresses, so the comparison is with what was
read, as in the code. One thread is enough because everything the pipeline shares
between requests is thread-local, except for the user table, which `ChangeEmail`
changes at any moment on behalf of all the others.

### UserAttributes, UserTable, JwtUserSync

`UserAttributes` is the loop over the attribute map in `authenticate_credentials`
as the function `Synced` from a row and claims to a row, with `Merged` for
mergeable attributes. `Carries` and `KeepsIn` say what the loop is for,
without it. A claim is named by the attribute it is mapped to.

`JwtUserSync` is the method as several workers run it: `Call`, then
`GetOrCreate`, `CopyClaims` to the worker's user object `copy`, and `Save`, which
writes the whole row back. `DatabaseFails` ends either query with the exception
that `authenticate_credentials` turns into a refusal. `AdminUpdate` is other code
of the service that sets one field.

`written` (history) is what others have written to the row of a call's user since the
call: the attributes whose value changed.

`UserTable` is what the method promises: a user is created once; a call that returns has
made the row carry the claims and keep the rest in one step (`Sync`), or found it so
(`Confirm`), in every attribute that nobody else has `written` during the call; and one
that fails leaves the row alone. `JwtUserSync!Table` maps the three stages of a call to
the one status `serving`; the property `LosesOnlyOverlapping` and the theorem
`OnlyOverlapsLose` show the implementation, with any number of overlapping calls and of
other writers. What others write during a call is excepted because the code does lose it:
`save()` writes back what `get_or_create` read.

### EnsureJwtPermissions

`own` is the `permission_classes` in each class's own dictionary, `lists` the list
objects by identity, since `+=` extends a list in place (and all who share it)
and makes a new tuple. `Check` is the look-up and the crawl, `Extend` and `Store`
the two halves of `view_class.permission_classes += ...`: `pc`, `view` and `value`
are local to a thread. Attribute look-up goes through the class's `Mro` (any
linearization that keeps the order of the base classes, as Python's does) to the
first class with `permission_classes` of its own: `Found` and `Owner`. `Crawl` is the
walk over composed permissions, with the `TypeError` of `issubclass`; `Granted` is the
set of requests a composition lets in.

`Line(c)` is the part of `Mro[c]` up to the class that declares the permissions, and
`Unmixed` are the classes all of whose line inherits from that same class. With
multiple inheritance there are others: if `C(A, B)` takes its permissions from `B`
because `A` only has the default, `+=` on `A` binds an attribute that from then on
hides `B`'s from `C`. `OthersAsDeclared` is therefore about `Unmixed`, and
`AddedOncePerThread` counts the additions to a list only if every JWT view is
unmixed: otherwise a thread that found the permission missing from one base may
extend the list of the other, to which it has added it already.

### JwtAccess

`JWT_RESTRICTED_APPLICATION_OR_USER_ACCESS` as DRF's operators evaluate it, one
action per operand, each of which decodes `request.auth` again at the time `now`.
`decode_jwt_filters` and the loops over its result stop at the first filter that
does not unpack or that is looked for (`ForFirst`). `Entitled` is the rule the
permission is for, stated with sets instead of loops and operands.

### BearerAuth

Workers run `authenticate`: `Call` with every form of the header, `Answers` of
the provider, `TakeReply` (`get_user_info` and `process_user_info_response`),
`Get` and `Create` (the two queries of Django's `get_or_create`), `CheckActive`.
`DatabaseFails` is a query that raises, which `authenticate` does not catch. `Revoke` and `SetActive` are the provider and other code. `attribute` is the
custom attribute `BearerAuthentication`.

### RequestAttributes

One action per hook; `SetsUser` and `View` change `request.user` in between, and
`CacheProcessException` is `RequestCacheMiddleware` emptying the cache after an
exception. `cached` is the hook in the request cache, `attributes` what has been
reported (an attribute that has no value keeps what was reported before).

### SearchPages

`Call`, `Validate` (`get_page` with Django's paginator) and `Fetch` (one query
for the keys of the page) are `paginate_search_results`; `ChangeRows` and `Reindex`
are what happens to database and index at any time between and within them.
`shown` is what a client has read that goes from page to page.

### What is abstracted

* Keys, names, addresses, values of attributes are atoms; versions are their major
  number, the only part the code compares. `username` stands for
  `preferred_username or username`.
* Django, DRF, drf-jwt and PyJWT are modelled from how this code uses them and
  marked external in the map.
* In the pipeline, of the attributes of a user only the e-mail is stored. A failed query
  is `dbOk = FALSE` or `save = "failed"`; that other attributes make a save necessary is
  nondeterministic. What is stored between the save and the comparison is not read
  again, so the two are one step. `JwtUserSync` has the rest.
* The time of a call's second decode is that of its second step; a clock that runs
  between the two decodes runs between the two steps.
* Two cookies that are halves of different tokens form one that no key verifies,
  and whose payload reads as the first one's.
* A filter is its type, its value and whether splitting it at ":" gives two parts.
* A `process_view` that reads `request.user` again sees what the first one saw, so one
  reader on the way in, `middlewareUser`, stands for all.
* Left out: the other monitoring attributes of authentication, logging, version strings
  that do not parse, views that are not DRF's, services in which `JWT_AUTH_COOKIE` is
  not set, and the attributes of `middleware.py` that copy headers.

## Runs

| Run | Question | Bounds |
|---|---|---|
| `toggles_off` | the default service: CSRF, forgiving, lock-out | alice and bob (inactive), eight combinations of cookie halves, four headers, three sessions, nine views, CSRF or not; one token expires at 1, one begins at 1, and the clock stops at 2 (257 527 states) |
| `set_request_user` | both toggles on, e-mail claim not mapped: lazy user, identity, redirect, e-mail | the requests of `toggles_off` without a header or with bob's, and those in which the e-mail matters; two addresses, changing at any time (699 624 states) |
| `no_request_cache_middleware` | what survives a cache that is never emptied | a few requests, clock to 1, so that leftovers of any request meet any other (15 384 states) |
| `find_only_login_views_affected` | a violation, see below | the requests of `toggles_off` |
| `decoder` | every token of a small world at every time, in sixteen configurations | with and without asymmetric keys, an audience, `JWT_VERIFY_EXPIRATION` and `JWT_VERIFY_AUDIENCE`; three keys (one is the secret of the second issuer), either issuer or none, two audiences and their subsets, versions 1, 2 and none, `exp` 2, 3 or none, `iat` 0, 1 or none, `nbf` 1, 2 or none, leeway 1, clock to 4 (622 080 states) |
| `user_sync` | what views are given, what a call may undo, and where the row settles, under `FairSpec` | one user, two workers, three tokens that differ in or lack an address and roles; other code changes `email` and `is_active` (118 390 states) |
| `ensure_permissions` | are restricted applications refused, does anybody else notice, do classes grow | two threads, ten classes with own, inherited, default, shared-list and composed permissions |
| `find_every_composition_is_crawled` | a violation, see below | the same |
| `jwt_access` | who is let in and who is turned away | two users and one whose name differs in case, two organizations, two scopes, ten lists of filters and a missing one; every token expires at 2, the last time of the clock |
| `bearer` | who is authenticated, what is kept and reported | two workers, users and tokens; one profile (140 100 states) |
| `request_attributes` | which hook and whose attributes are reported | two users, every header and cookie, an early answer, an exception |
| `search_pages` | what a paging client reads; where `last` leads | three keys, pages of two, page numbers to 3, every index and table (about a million states) |

Why that is enough. The pipeline distinguishes only the user of the session, of
the cookie, of the header, and somebody else (two users and nobody cover equal
and different); before, at and after `exp` and `nbf`; and what one request left behind
for the next (the state after `EndRequest` is again reachable by any request, so
sequences of any length are explored, within the clock's bound). A lost update, a
race to create an account and a double addition of a permission take two
workers. The threads of `ensure_permissions` are interchangeable, hence its symmetry
(43 581 states). Three keys on pages of two give a full page, a partial page, and the
empty search. The theorems below remove the bounds where they hold.

Two runs do not check for deadlock: in `decoder` the clock stops at its bound, and
`jwt_access` evaluates one request, since the permissions keep nothing from one
to the next.

What the properties say, besides a type invariant where the module has state:

* `CsrfUnlessHeader`: cookies never authenticate a request that fails CSRF, nor does a
  header that repeats the cookie.
* `ForgivenCookieKeepsUser`, `OwnCookieNeverLocksOut`, `FailedHeaderIsFinal`: the
  decision table of ADR 0002, over whole requests.
* `UserHasCredential`: whoever `request.user` names, the request proves it.
* `NoLazyReentry`, `NoIdentitySwitch`: the lazy user is resolved without
  recursion, unless the view raised before it authenticated, and the view does not
  authenticate another person than the middleware saw.
* `RedirectExactlyAnonymousLogin`: redirected if and only if anonymous on a login view.
* `JwtUserHasTokenEmail` (an action property): the e-mail check admits nobody for whom
  the address of the token was not stored at any moment since the row was read. It
  may be another one by then: the code compares what it has read.
* `AcceptsExactlyGoodTokens`, `LapseIsFinal`: the three decodes together are
  one predicate, for both handlers, and a token that was accepted and refused since stays
  refused. So where there are asymmetric keys a leeway buys nothing: the
  first phase always verifies expiry without one, so `JWT_LEEWAY` and
  `JWT_VERIFY_EXPIRATION` can only make the decoder stricter.
* `ReturnedUserHasClaims`, `SettlesOnClaims`, `LosesOnlyOverlapping`: the view gets a user
  with the claims of its token; a row whose update was lost is repaired by
  later requests (liveness); a call undoes nothing but what others wrote during it.
* `RestrictedIsRefused`, `OthersAsDeclared`, `AddedOncePerThread`: by the time a view
  is called its class refuses restricted applications; access of all others is
  as declared, for every class; nothing grows from request to request.
* `OnlyEntitledAllowed`, `ExpiredNeverAllowed`, `EntitledNeverDenied`: the operands
  against the rule, in both directions, while time passes between them.
* `AuthenticatedByProvider`, `ClosedAccountRefused`, `AttributeTellsOutcome`,
  `AccountsKept`: bearer tokens.
* `FirstHookReported`, `ReportedIffSeen`, `AttributesAgree`: monitoring tells of one
  user, and of the first hook that saw it unless an exception came between.
* `ReadsThrough`, `LastPageEndsResults`: search pages.

### Fairness

`JwtUserSync!FairSpec` has weak fairness of each worker's `Step`: a method that was
called runs to its end, because every query returns or raises and the code waits
for nothing else. `DatabaseFails` is one of the ways to end, so `SettlesOnClaims` has
the premise that requests with the token keep succeeding, besides the one
that claims have stopped changing. `Call` is not fair.

The other modules have safety properties only and assume no fairness. In particular
nothing is said of the end of a bearer request: the code sets no timeout on its request to
the provider (`auth/bearer/authentication.py:110`), and nothing makes an answer come.

### Where code and documentation disagree

`find_every_composition_is_crawled`: a comment says that composed permissions are
all crawled to see if the target classes are in them
(`auth/jwt/middleware.py:49-51`). Under a negation the code stops: for `~(A & B)`
`_iter_included_base_classes` yields the operand `A & B`, which is not a class,
`issubclass` raises `TypeError`, and every request of such a view fails.
`EveryCompositionIsCrawled` says that this does not happen; TLC shows it.

`find_only_login_views_affected`: the redirect middleware says that it "Only affects
endpoints using the LoginRedirectIfUnauthenticated permission class"
(`auth/jwt/middleware.py:109`). Its `process_view` gives every item of
`permission_classes` to `issubclass` (lines 165 and 333), which raises `TypeError` for a
composed permission: such a view cannot be called, whether it asks for login or not.
`OnlyLoginViewsAffected` says what the docstring says; TLC shows a request that fails.

Other differences met while modelling. The modules follow the code, and no run is
about them:

* With `ENABLE_SET_REQUEST_USER_FOR_JWT_COOKIE`, a session authenticator accepts the
  lazily resolved JWT user of a browser that is not logged in, if the cookie
  expires between middleware and view.
* A header equal to the cookie is handled as the cookie (authentication.py:261).
* A user's own cookie of an unsupported version has no readable user and so counts
  as a mismatch, which is not forgiven.
* An e-mail mismatch is forgiven for cookies.
* The comment at authentication.py:187 speaks of merging "new values that aren't already
  set"; the code also overwrites a value that is set and differs.
* The mismatch check skips `request.user` where the middleware has set it
  (authentication.py:286-290). After a view that raised before it authenticated, the
  flag is gone with the request cache while the user is still lazy: a middleware that
  reads it on the way out makes it resolve itself, up to the recursion limit.
* With the e-mail check on, a request may pass while the stored address is no longer that
  of the token, if another worker changed it after the row was read.
* Without `RequestCacheMiddleware`, which its docstring does not ask for, the
  redirect middleware can turn a 404 into a redirect.
* `JWT_VERIFY_AUDIENCE = False` has no effect when an audience and asymmetric keys are
  configured.
* The docstring of `verify_jwk_signature_using_keyset` promises a `ValueError` for an
  empty key set (`auth/jwt/decoder.py:293-295`); it returns None, so in a service
  without asymmetric keys the first of the two attempts succeeds and the claims decide.
* Two requests of one user: `user.save()` writes back an address that the other has
  replaced meanwhile.
* Only the first user filter of a token counts, its value is not lower-cased
  as the URL's username is, and an empty value is no filter. `EntitledNeverDenied`
  is about lists of filters without these (`PlainFilters`).
* A 200 response of the provider that is not JSON, or lacks a field, escapes from
  bearer authentication as `JSONDecodeError` or `KeyError`.
* After an exception the request cache is empty when `process_response` runs, and
  its hook replaces the earlier one that was reported. `FirstHookReported` is
  therefore about requests without an exception.
* A key of the search index whose row is gone becomes `None` in the page.
* A view that inherits from two classes can lose the permissions it has by the second
  when the middleware extends the first (see `Unmixed`).

## Proofs

TLAPS proves the following for every value of the constants that satisfies the
modules' assumptions: constants have their types, and the special values
(`None`, `Anonymous`, ...) are not among the ordinary ones; in `EnsureJwtPermissions`
also that threads are finitely many, compositions are finite trees, and each `Mro` starts
with its class, keeps the order of its base classes and reaches one that declares
permissions. Each invariant is shown for the initial states and for one action after
the other.

**`JwtDecodingProofs`**: `ExactlyGoodAccepted` and `LapsedForGood`,
for every token and configuration. `KeysOfAttempts` says which keys the two attempts at
the signature have, `SignatureVerified` that together they verify it, or that the
first has no key at all, `TimesOfToken` and `LeewayBuysNothing` what the two phases make
of `exp`, `iat` and `nbf`. `AcceptedBetween` is why a lapse is final: the times at which a
token is accepted are an interval, since `iat` and `nbf` only begin it and `exp` only
ends it.

**`JwtPipelineProofs`**, about one step at a time:

* `TypeCorrect`, with `CallInv`: what a running call has found is true of the request it
  serves. It runs where an authenticator or a reader of the lazy user may (`CallPlace`),
  and the account it found is that of a token which verified at some time since the
  request arrived, with the address that was read among those `held` (`CallToken`).
  `CallReports` says once what the outcome of a call may be, so that the steps need not
  open `JwtAuthenticate`.
* `CsrfEnforced`. `CsrfUnlessHeader` is not inductive alone: the next request
  replaces `req` and its middleware the cookie, so `CsrfInv` adds that until then
  nobody has authenticated.
* `LazyUserNeverReentered`. `LazyInv` adds why: while the user is unresolved and
  somebody may still want it, the flag is set, or the request cache was emptied after
  a view that raised before authenticating. Any other exception leaves the user
  unresolved only if a header counts, for which `request.user` is not read. Where `RequestCacheMiddleware` is missing the flag stays set.
* `UserIsProved`, with `HasRequestCacheMiddleware`. `CredentialInv` adds that the
  cached user has a credential of the current request too, and that nobody is
  cached before the cookie is reconstituted, when the token of the request may
  still change.

And about a request as a whole, with `HasRequestCacheMiddleware`: `HeaderFailureIsFinal`,
`ForgivingKeepsUser`, `IdentityIsKept`, `RedirectIsExact`, `JwtUserHasEmailOfToken`,
`OwnCookieIsHarmless`. `RequestInv` follows a request through its stages. Before the
cookie middleware the user is the session's (`EarlyInv`). Until the view has
authenticated (`MiddleInv`) the flag tells whether the user is that of the session or of
the token, whoever a middleware saw is still there, and a header that failed
for the lazy user has still to fail in the view, because its `JwtAuthentication` is
still to be called. Afterwards (`LateInv`) come the properties themselves, and what
the login flag is worth. `JwtUserHasEmailOfToken` needs `CallInv` besides: either the
address that was read is that of the token, or it has just been saved. `OwnInv` adds, for a browser with the
cookie and the session of one user, that the session authenticator is still to come
or has succeeded.

**`JwtUserSyncProofs`**: `TypeCorrect` and `ReturnedCarries`, by `CallInv` (what a call has
in hand at each stage) and the lemmas on the loop (`Synced` has the claims and
keeps the rest); `OnlyOverlapsLose`, that `Spec => Table!Spec` without a condition on who
writes when. `OverlapInv` says that a worker's copy and the stored row agree on every
attribute that is not in `written`, up to the claims once they are copied; so what it
saves is the stored row with the claims, except there.

**`JwtAccessProofs`**: `TypeCorrect`, `OnlyEntitled`, `ExpiredIsNotAllowed` by `AccessInv`
(what the operands evaluated so far have established) and `EntitledIsNotDenied` by
`DenialInv` (what they have ruled out), for lists of filters of any length.

**`BearerAuthProofs`**: `TypeCorrect`, `AuthenticatedIsNamed`, `ClosedIsRefused` and the
action property `CreatedOnce`. `BearerInv` says that a worker about to use an answer
has one about the owner of a token that was valid at the call, and that what was
read of an account is no older than the call.
`AttributeIsTold` is by `ToldInv`: while a worker is busy it has no outcome, and its
attribute is the one that is right if something ends the call.

**`EnsureJwtPermissionsProofs`**: `TypeCorrect`, `RestrictedRefused`, `OthersUnchanged` and
`AddedOnce`, for any number of threads, any hierarchy of classes and compositions of
any depth.

* The recursive functions `Crawl` and `Granted` are chosen by their equation, so first
  it has a solution: `Recursion` shows it by least counterexample, from
  `CompositionAssumption` (every set of compositions has one without components in
  it). `GrantedRequired` and `CrawlRequired` then say what they make of the added
  permission, `IncludesOutcome` what the crawl of a list can say.
* `RestrictedRefused` by `Refusing`: lists only grow (`ListsGrown`); what is no longer as
  declared contains the permission (`ChangedHas`), as does what a thread is about to
  bind (`PendingHas`); and a class being served has it or was declared with it
  (`ServedHas`). That a look-up may change under a thread, when another binds an
  attribute to a base class, is why the first three are about all classes.
* `OthersUnchanged` by `Deriving`: whatever a class in the line of an unmixed one has or
  is about to be bound is the declared value with the permission appended any number
  of times, and that permission says nothing of requests that are not restricted.
* `AddedOnce` by counting: `TuplesCounted` and `ListsCounted` say that the additions to a value are at
  most the number of threads in some set of contributors, which a thread joins when
  it extends, and in which it is not while it may still extend (`CountedBounds`). It is for
  this theorem that lists of mixed views had to be left out: the attempt to prove it
  without that led to the run of two threads in which one extends a list twice.

**`RequestAttributesProofs`**: `TypeCorrect`, `ReportsFirstHook`, `ReportsSomeHook`,
`ReportsOneUser`. `AttributesInv`: until something has been reported the cache
holds the first hook; once it has been emptied, what was reported stands in for it.

**`SearchPagesProofs`**: `TypeCorrect`, `ClientReadsThrough` and `LastPageIsLast`, for every
page size and number of keys. `PagesInv` adds that as long as a client goes on from
its first page the results it is given are those of the index; `LastInv` that `last`
has been resolved to the number of pages.

Every invariant and every safety action property that a run checks is stated by one
of these theorems. Only model-checked: the liveness property `SettlesOnClaims`, since
fairness and `ENABLED` are out of the prover's reach. So is
induction by the library's theorems, which take an operator as a parameter; where a
proof needs it, as for the crawl, it is done by least counterexample instead.
`EveryCompositionIsCrawled` and `OnlyLoginViewsAffected`, the properties that fail, have no
theorem of course.

## Not modelled

* `ScopedQuerysetMixin`: `get_queryset` and `get_serializer_context` are single calls of
  other code, without state, order or failure of their own.
* `DefaultPagination`, `NamespacedPageNumberPagination`: they add fields to the page
  they are given.
* The CSRF token view: one stateless call of Django's `get_token`.
* `utils.py` and package metadata: a re-export.
* Tests and documentation are read as the reference for what the code promises.
