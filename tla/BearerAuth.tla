---------------------------- MODULE BearerAuth ----------------------------
(***************************************************************************)
(* BearerAuthentication: an OAuth2 access token is shown to the provider,  *)
(* whose answer names the user to get or create.  Each worker serves one   *)
(* request at a time; the provider, which may answer anything or never,    *)
(* and the code that closes accounts act whenever they like.               *)
(***************************************************************************)
CONSTANTS
    Workers,
    Users,      \* usernames
    Profiles,   \* what user info holds besides the username
    Tokens,     \* access tokens
    Owner,      \* the user of a token
    None

Account == [profile : Profiles, active : BOOLEAN]

\* A row of the user table as an object.
User == [name : Users, active : BOOLEAN]

\* User info, a 200 response without it, another status, or a RequestException.
Info == [name : Users, profile : Profiles]
Failures == {"no info", "refused", "RequestException"}
Reply == [failure : {None} \cup Failures, info : {None} \cup Info]

\* Headers of another kind, those without or with more than one token, and
\* tokens that are not UTF-8.
Header == {"other", "malformed", "undecodable"} \cup Tokens

Outcome == {"none", "user", "AuthenticationFailed", "exception"}

ASSUME BearerAssumption ==
    /\ Owner \in [Tokens -> Users]
    /\ None \notin Tokens \cup Account \cup User \cup Info \cup Reply
    /\ Tokens \cap {"other", "malformed", "undecodable"} = {}
    /\ None \notin Failures \cup Outcome

VARIABLES
    hasUrl,     \* OAUTH2_USER_INFO_URL is set
    valid,      \* the tokens that the provider accepts
    accounts,   \* the user table of the service
    pc,         \* what each worker is about to do
    token,      \* the token each worker was given
    reply,      \* what the provider answered
    user,       \* the user as read from the table
    attribute,  \* the custom attribute BearerAuthentication
    outcome,    \* how authenticate ended
    invalid,    \* history: the token was not valid when authenticate was called
    closed      \* history: the accounts that have been inactive ever since

result == <<attribute, outcome>>
history == <<invalid, closed>>
vars == <<hasUrl, valid, accounts, pc, token, reply, user, result, history>>

Init ==
    /\ hasUrl \in BOOLEAN
    /\ valid = Tokens
    /\ accounts \in [Users -> {None} \cup Account]
    /\ pc = [w \in Workers |-> "idle"]
    /\ token = [w \in Workers |-> None]
    /\ reply = [w \in Workers |-> None]
    /\ user = [w \in Workers |-> None]
    /\ attribute = [w \in Workers |-> None]
    /\ outcome = [w \in Workers |-> None]
    /\ invalid = [w \in Workers |-> FALSE]
    /\ closed = [w \in Workers |-> {}]

-----------------------------------------------------------------------------
(* authenticate *)

Ends(w, how) ==
    /\ pc' = [pc EXCEPT ![w] = "idle"]
    /\ outcome' = [outcome EXCEPT ![w] = how]
    /\ reply' = [reply EXCEPT ![w] = None]
Reports(w, what) == attribute' = [attribute EXCEPT ![w] = what]

\* A fault: nothing is reported until the outcome is known.
ReportsNothing(w) == UNCHANGED attribute

\* The default, for every way out that sets nothing else.
ReportsDefault(w) == Reports(w, "Failed")

Inactive == {u \in Users : accounts[u] # None /\ ~accounts[u].active}

Call(w, header) ==
    /\ pc[w] = "idle"
    /\ \/ ~hasUrl /\ Reports(w, "NoURL") /\ Ends(w, "none")
       \/ hasUrl /\ header = "other" /\ Reports(w, "None") /\ Ends(w, "none")
       \/ hasUrl /\ header = "malformed" /\ ReportsDefault(w) /\ Ends(w, "AuthenticationFailed")
       \/ hasUrl /\ header = "undecodable" /\ ReportsDefault(w) /\ Ends(w, "exception")
       \/ /\ hasUrl /\ header \in Tokens /\ ReportsDefault(w)
          /\ pc' = [pc EXCEPT ![w] = "asking"]
          /\ outcome' = [outcome EXCEPT ![w] = None]
          /\ UNCHANGED reply
    /\ token' = [token EXCEPT ![w] = IF header \in Tokens THEN header ELSE None]
    /\ user' = [user EXCEPT ![w] = None]
    /\ invalid' = [invalid EXCEPT ![w] = header \in Tokens \ valid]
    /\ closed' = [closed EXCEPT ![w] = Inactive]
    /\ UNCHANGED <<hasUrl, valid, accounts>>

\* Any failure on the way, and the provider's user info for a valid token, with
\* whatever profile the user has there by now.
Replies(t) ==
    [failure : Failures, info : {None}]
    \cup IF t \in valid
           THEN [failure : {None}, info : [name : {Owner[t]}, profile : Profiles]]
           ELSE {}

\* A fault: the answer is kept on the authenticator, which workers share.
AnswersShared(w) ==
    /\ pc[w] = "asking"
    /\ \E r \in Replies(token[w]) :
         reply' = [v \in Workers |-> IF v = w \/ pc[v] = "answered" THEN r ELSE reply[v]]
    /\ pc' = [pc EXCEPT ![w] = "answered"]
    /\ UNCHANGED <<hasUrl, valid, accounts, token, user, result, history>>

Answers(w) ==
    /\ pc[w] = "asking"
    /\ \E r \in Replies(token[w]) : reply' = [reply EXCEPT ![w] = r]
    /\ pc' = [pc EXCEPT ![w] = "answered"]
    /\ UNCHANGED <<hasUrl, valid, accounts, token, user, result, history>>

\* A fault: a response is taken for user info whatever its status.
TakeAnyResponse(w) ==
    /\ pc[w] = "answered"
    /\ \/ reply[w].failure = "RequestException" /\ Ends(w, "AuthenticationFailed")
       \/ reply[w].failure = "no info" /\ Ends(w, "exception")
       \/ reply[w].failure \in {None, "refused"} /\ pc' = [pc EXCEPT ![w] = "get"] /\ UNCHANGED <<outcome, reply>>
    /\ UNCHANGED <<hasUrl, valid, accounts, token, user, attribute, history>>

\* get_user_info and process_user_info_response: a status other than 200 and a
\* RequestException are failures to authenticate, but not a 200 response that
\* is no JSON or lacks a key.
TakeReply(w) ==
    /\ pc[w] = "answered"
    /\ \/ reply[w].failure \in {"refused", "RequestException"} /\ Ends(w, "AuthenticationFailed")
       \/ reply[w].failure = "no info" /\ Ends(w, "exception")
       \/ reply[w].failure = None /\ pc' = [pc EXCEPT ![w] = "get"] /\ UNCHANGED <<outcome, reply>>
    /\ UNCHANGED <<hasUrl, valid, accounts, token, user, attribute, history>>

ReadsUser(w, table) ==
    /\ user' = [user EXCEPT ![w] = [name |-> reply[w].info.name, active |-> table[reply[w].info.name].active]]
    /\ pc' = [pc EXCEPT ![w] = "check"]

\* get_or_create reads the row first ...
Get(w) ==
    /\ pc[w] = "get"
    /\ IF accounts[reply[w].info.name] # None
         THEN ReadsUser(w, accounts)
         ELSE pc' = [pc EXCEPT ![w] = "create"] /\ UNCHANGED user
    /\ UNCHANGED <<hasUrl, valid, accounts, token, reply, result, history>>

Added(w) == [accounts EXCEPT ![reply[w].info.name] = [profile |-> reply[w].info.profile, active |-> TRUE]]

\* A fault: update_or_create.
CreateOver(w) ==
    /\ pc[w] = "create"
    /\ accounts' = Added(w)
    /\ ReadsUser(w, accounts')
    /\ UNCHANGED <<hasUrl, valid, token, reply, result, history>>

\* ... and inserts it if there was none, or reads what another worker has
\* inserted since.
Create(w) ==
    /\ pc[w] = "create"
    /\ accounts' = IF accounts[reply[w].info.name] = None THEN Added(w) ELSE accounts
    /\ ReadsUser(w, accounts')
    /\ UNCHANGED <<hasUrl, valid, token, reply, result, history>>

\* A query fails; authenticate catches no database error.
DatabaseFails(w) ==
    /\ pc[w] \in {"get", "create"}
    /\ Ends(w, "exception")
    /\ UNCHANGED <<hasUrl, valid, accounts, token, user, attribute, history>>

\* A fault: the activity of the account is not looked at.
CheckNothing(w) ==
    /\ pc[w] = "check"
    /\ Ends(w, "user") /\ Reports(w, "Success")
    /\ UNCHANGED <<hasUrl, valid, accounts, token, user, history>>

CheckActive(w) ==
    /\ pc[w] = "check"
    /\ \/ user[w].active /\ Ends(w, "user") /\ Reports(w, "Success")
       \/ ~user[w].active /\ Ends(w, "AuthenticationFailed") /\ UNCHANGED attribute
    /\ UNCHANGED <<hasUrl, valid, accounts, token, user, history>>

-----------------------------------------------------------------------------
(* Others *)

Revoke(t) ==
    /\ t \in valid
    /\ valid' = valid \ {t}
    /\ UNCHANGED <<hasUrl, accounts, pc, token, reply, user, result, history>>

SetActive(u, active) ==
    /\ accounts[u] # None /\ accounts[u].active # active
    /\ accounts' = [accounts EXCEPT ![u].active = active]
    /\ closed' = [w \in Workers |-> IF active THEN closed[w] \ {u} ELSE closed[w]]
    /\ UNCHANGED <<hasUrl, valid, pc, token, reply, user, result, invalid>>

-----------------------------------------------------------------------------
Works(w) == TakeReply(w) \/ Get(w) \/ Create(w) \/ DatabaseFails(w) \/ CheckActive(w)

Next ==
    \/ \E w \in Workers : Works(w) \/ Answers(w) \/ \E header \in Header : Call(w, header)
    \/ \E t \in Tokens : Revoke(t)
    \/ \E u \in Users, active \in BOOLEAN : SetActive(u, active)

Spec == Init /\ [][Next]_vars

-----------------------------------------------------------------------------
(* Properties *)

TypeOK ==
    /\ hasUrl \in BOOLEAN /\ valid \subseteq Tokens
    /\ accounts \in [Users -> {None} \cup Account]
    /\ pc \in [Workers -> {"idle", "asking", "answered", "get", "create", "check"}]
    /\ token \in [Workers -> {None} \cup Tokens]
    /\ reply \in [Workers -> {None} \cup Reply]
    /\ user \in [Workers -> {None} \cup User]
    /\ attribute \in [Workers -> {None, "NoURL", "None", "Failed", "Success"}]
    /\ outcome \in [Workers -> {None} \cup Outcome]
    /\ invalid \in [Workers -> BOOLEAN]
    /\ closed \in [Workers -> SUBSET Users]
    /\ \A w \in Workers :
         /\ pc[w] \in {"asking", "answered"} => token[w] # None
         /\ pc[w] = "answered" =>
              reply[w] # None /\ (reply[w].failure = None => reply[w].info # None)
         /\ pc[w] \in {"get", "create"} => reply[w] # None /\ reply[w].info # None
         /\ pc[w] = "check" => user[w] # None

\* Whoever is authenticated is the owner of the token, which was valid when
\* authenticate was called, whatever other workers are told meanwhile
\* (authentication.py:85-90).
AuthenticatedByProvider ==
    \A w \in Workers : outcome[w] = "user" =>
        user[w].name = Owner[token[w]] /\ ~invalid[w]

\* Nobody is authenticated whose account was inactive all the time since
\* authenticate was called, however the account was found (authentication.py:87).
ClosedAccountRefused ==
    \A w \in Workers : outcome[w] = "user" => user[w].name \notin closed[w]

\* Every way out leaves the attribute that tells which it was, also those that
\* set none (authentication.py:40).
AttributeTellsOutcome ==
    \A w \in Workers : outcome[w] # None =>
        CASE outcome[w] = "user" -> attribute[w] = "Success"
          [] outcome[w] = "none" -> attribute[w] \in {"NoURL", "None"}
          [] OTHER -> attribute[w] = "Failed"

\* Authenticating creates an account and never changes one, although workers that
\* found none may all try to create it: what the user, or whoever closed the
\* account meanwhile, has made of it stays (authentication.py:85).
AccountsKept ==
    [][pc' # pc => \A u \in Users : accounts[u] # None => accounts'[u] = accounts[u]]_vars

=============================================================================
