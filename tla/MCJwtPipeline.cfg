\* The default settings.
SPECIFICATION Spec
CONSTANTS
    None = None
    Anonymous = Anonymous
    LazyJwt = LazyJwt
    alice = alice
    bob = bob
    home = home
    work = work
    Keys = {"asymmetric", "symmetric"}
    Users = {alice, bob}
    Emails = {home}
    InactiveUsers = {bob}
    JWT_PUBLIC_SIGNING_JWK_SET = {"asymmetric"}
    JWT_ISSUERS <- MCIssuers
    DeprecatedIssuer <- MCIssuer
    JWT_VERIFY_EXPIRATION = TRUE
    JWT_VERIFY_AUDIENCE = TRUE
    JWT_LEEWAY = 0
    JWT_SUPPORTED_VERSION = 1
    ENABLE_SET_REQUEST_USER_FOR_JWT_COOKIE = FALSE
    ENABLE_JWT_AND_LMS_USER_EMAIL_MATCH = FALSE
    EmailIsMapped = TRUE
    HasRequestCacheMiddleware = TRUE
    Requests <- MCRequests
    MaxTime = 2
INVARIANTS
    CsrfUnlessHeader
    ForgivenCookieKeepsUser
    FailedHeaderIsFinal
    OwnCookieNeverLocksOut
