\* Both toggles on; tokens of other addresses than those stored.
SPECIFICATION Spec
CONSTANTS
    None = None
    Anonymous = Anonymous
    LazyJwt = LazyJwt
    alice = alice
    bob = bob
    home = home
    work = work
    Keys = {"asymmetric", "symmetric"}
    Users = {alice, bob}
    Emails = {home, work}
    InactiveUsers = {bob}
    JWT_PUBLIC_SIGNING_JWK_SET = {"asymmetric"}
    JWT_ISSUERS <- MCIssuers
    DeprecatedIssuer <- MCIssuer
    JWT_VERIFY_EXPIRATION = TRUE
    JWT_VERIFY_AUDIENCE = TRUE
    JWT_LEEWAY = 0
    JWT_SUPPORTED_VERSION = 1
    ENABLE_SET_REQUEST_USER_FOR_JWT_COOKIE = TRUE
    ENABLE_JWT_AND_LMS_USER_EMAIL_MATCH = TRUE
    EmailIsMapped = FALSE
    HasRequestCacheMiddleware = TRUE
    Requests <- LazyRequests
    MaxTime = 2
INVARIANTS
    TypeOK
    UserHasCredential
    NoLazyReentry
    NoIdentitySwitch
    OwnCookieNeverLocksOut
    RedirectExactlyAnonymousLogin
PROPERTIES
    JwtUserHasTokenEmail
