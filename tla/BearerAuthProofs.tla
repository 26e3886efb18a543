-------------------------- MODULE BearerAuthProofs --------------------------
(***************************************************************************)
(* Proofs about BearerAuth for any number of workers, users and tokens:    *)
(* who is authenticated owns a token that was valid and an account that    *)
(* was not closed all the while, and the custom attribute tells how the    *)
(* call ended.                                                             *)
(***************************************************************************)
EXTENDS BearerAuth, TLAPS

\* A worker about to use an answer has one that names the token's owner, and
\* only a valid token gets that far.
HoldsAnswer(w) ==
    /\ reply[w].info # None /\ reply[w].info.name = Owner[token[w]]
    /\ ~invalid[w]

\* What was read of an account is not older than the call.
ReadAccount(w) ==
    /\ user[w].name = Owner[token[w]] /\ ~invalid[w]
    /\ user[w].active => user[w].name \notin closed[w]

ClosedInactive ==
    \A w \in Workers : \A u \in closed[w] : accounts[u] # None /\ ~accounts[u].active

WorkerInv(w) ==
    /\ pc[w] = "asking" /\ invalid[w] => token[w] \notin valid
    /\ pc[w] = "answered" /\ reply[w].failure = None => HoldsAnswer(w)
    /\ pc[w] \in {"get", "create"} => HoldsAnswer(w)
    /\ pc[w] = "check" => ReadAccount(w)
    /\ outcome[w] = "user" => ReadAccount(w) /\ user[w].active
    /\ pc[w] # "idle" => outcome[w] # "user"

BearerInv == ClosedInactive /\ \A w \in Workers : WorkerInv(w)

-----------------------------------------------------------------------------
\* The provider's answer to a token: a failure, or the info of its owner.
LEMMA RepliesTyped ==
    ASSUME TypeOK, NEW t \in Tokens, NEW r \in Replies(t)
    PROVE  /\ r \in Reply
           /\ r.failure = None => /\ t \in valid /\ r.info # None
                                  /\ r.info \in Info /\ r.info.name = Owner[t]
<1>1. CASE r \in [failure : Failures, info : {None}]
  BY <1>1, BearerAssumption DEF Reply, Failures
<1>2. CASE /\ t \in valid
           /\ r \in [failure : {None}, info : [name : {Owner[t]}, profile : Profiles]]
  <2>1. Owner[t] \in Users
    BY BearerAssumption
  <2>2. r.info \in Info /\ r.info.name = Owner[t]
    BY <1>2, <2>1 DEF Info
  <2>3. r.info # None
    BY <2>2, BearerAssumption
  <2>4. r \in Reply
    BY <1>2, <2>2 DEF Reply
  <2> QED
    BY <1>2, <2>2, <2>3, <2>4
<1> QED
  BY <1>1, <1>2 DEF Replies

LEMMA InitBearer == Init => TypeOK /\ BearerInv
<1> SUFFICES ASSUME Init PROVE TypeOK /\ BearerInv
  OBVIOUS
<1>1. TypeOK
  BY DEF Init, TypeOK
<1>2. BearerInv
  BY BearerAssumption DEF Init, BearerInv, ClosedInactive, WorkerInv, Outcome
<1> QED
  BY <1>1, <1>2

\* The steps keep the types.
LEMMA NextTyped == TypeOK /\ [Next]_vars => TypeOK'
<1> SUFFICES ASSUME TypeOK, [Next]_vars PROVE TypeOK'
  OBVIOUS
<1>1. ASSUME NEW w \in Workers, NEW header \in Header, Call(w, header)
      PROVE  TypeOK'
  <2>1. /\ token' = [token EXCEPT ![w] = IF header \in Tokens THEN header ELSE None]
        /\ user' = [user EXCEPT ![w] = None]
        /\ invalid' = [invalid EXCEPT ![w] = header \in Tokens \ valid]
        /\ closed' = [closed EXCEPT ![w] = Inactive]
        /\ UNCHANGED <<hasUrl, valid, accounts>>
        /\ Inactive \subseteq Users
    BY <1>1 DEF Call, Inactive
  <2>2. CASE \E how \in Outcome, what \in {"NoURL", "None", "Failed"} : Ends(w, how) /\ Reports(w, what)
    <3>1. PICK how \in Outcome, what \in {"NoURL", "None", "Failed"} : Ends(w, how) /\ Reports(w, what)
      BY <2>2
    <3> HIDE DEF Outcome
    <3> QED
      BY <2>1, <3>1 DEF TypeOK, Ends, Reports
  <2>3. CASE /\ header \in Tokens /\ Reports(w, "Failed")
             /\ pc' = [pc EXCEPT ![w] = "asking"] /\ outcome' = [outcome EXCEPT ![w] = None]
             /\ UNCHANGED reply
    BY <2>1, <2>3, BearerAssumption DEF TypeOK, Reports
  <2> QED
    BY <1>1, <2>2, <2>3 DEF Call, Outcome, ReportsDefault
<1>2. ASSUME NEW w \in Workers, Answers(w)
      PROVE  TypeOK'
  <2>1. PICK r \in Replies(token[w]) : reply' = [reply EXCEPT ![w] = r]
    BY <1>2 DEF Answers
  <2>2. token[w] \in Tokens
    BY <1>2 DEF Answers, TypeOK
  <2>3. r \in Reply /\ r # None /\ (r.failure = None => r.info # None)
    BY <2>2, RepliesTyped, BearerAssumption
  <2> QED
    BY <1>2, <2>1, <2>3 DEF Answers, TypeOK, result, history
<1>3. ASSUME NEW w \in Workers, TakeReply(w)
      PROVE  TypeOK'
  <2>1. CASE \E how \in {"AuthenticationFailed", "exception"} : Ends(w, how)
    BY <1>3, <2>1 DEF TakeReply, Ends, TypeOK, Outcome, history
  <2>2. CASE reply[w].failure = None /\ pc' = [pc EXCEPT ![w] = "get"] /\ UNCHANGED <<outcome, reply>>
    BY <1>3, <2>2 DEF TakeReply, TypeOK, history
  <2> QED
    BY <1>3, <2>1, <2>2 DEF TakeReply
<1>4. ASSUME NEW w \in Workers, Get(w)
      PROVE  TypeOK'
  <2>1. reply[w].info \in Info /\ reply[w].info.name \in Users
    BY <1>4 DEF Get, TypeOK, Reply, Info
  <2>2. CASE accounts[reply[w].info.name] # None
    <3>1. accounts[reply[w].info.name].active \in BOOLEAN
      BY <2>1, <2>2 DEF TypeOK, Account
    <3>2. [name |-> reply[w].info.name, active |-> accounts[reply[w].info.name].active] \in User
      BY <2>1, <3>1 DEF User
    <3> QED
      BY <1>4, <2>2, <3>2, BearerAssumption
      DEF Get, ReadsUser, TypeOK, result, history
  <2>3. CASE accounts[reply[w].info.name] = None
    BY <1>4, <2>3 DEF Get, TypeOK, result, history
  <2> QED
    BY <2>2, <2>3
<1>5. ASSUME NEW w \in Workers, Create(w)
      PROVE  TypeOK'
  <2>1. reply[w].info \in Info /\ reply[w].info.name \in Users /\ reply[w].info.profile \in Profiles
    BY <1>5 DEF Create, TypeOK, Reply, Info
  <2>2. accounts' \in [Users -> {None} \cup Account] /\ accounts'[reply[w].info.name] \in Account
    BY <1>5, <2>1 DEF Create, Added, TypeOK, Account
  <2>3. [name |-> reply[w].info.name, active |-> accounts'[reply[w].info.name].active] \in User
    BY <2>1, <2>2 DEF User, Account
  <2> QED
    BY <1>5, <2>2, <2>3, BearerAssumption
    DEF Create, ReadsUser, TypeOK, result, history
<1>6. ASSUME NEW w \in Workers, CheckActive(w)
      PROVE  TypeOK'
  BY <1>6 DEF CheckActive, Ends, Reports, TypeOK, Outcome, history
<1>7. ASSUME NEW t \in Tokens, Revoke(t)
      PROVE  TypeOK'
  BY <1>7 DEF Revoke, TypeOK, result, history
<1>8. ASSUME NEW u \in Users, NEW active \in BOOLEAN, SetActive(u, active)
      PROVE  TypeOK'
  <2>1. accounts' \in [Users -> {None} \cup Account]
    BY <1>8 DEF SetActive, TypeOK, Account
  <2>2. closed' \in [Workers -> SUBSET Users]
    BY <1>8 DEF SetActive, TypeOK
  <2> QED
    BY <1>8, <2>1, <2>2 DEF SetActive, TypeOK, result
<1>10. ASSUME NEW w \in Workers, DatabaseFails(w)
       PROVE  TypeOK'
  BY <1>10 DEF DatabaseFails, Ends, TypeOK, Outcome, history
<1>9. CASE UNCHANGED vars
  BY <1>9 DEF vars, TypeOK, result, history
<1> QED
  BY <1>1, <1>2, <1>3, <1>4, <1>5, <1>6, <1>7, <1>8, <1>9, <1>10 DEF Next, Works

\* A step that touches nothing of a worker keeps what is known of it.
LEMMA OthersKept ==
    ASSUME NEW w, WorkerInv(w), pc'[w] = pc[w], token'[w] = token[w], reply'[w] = reply[w],
           user'[w] = user[w], outcome'[w] = outcome[w], invalid'[w] = invalid[w],
           closed'[w] \subseteq closed[w], valid' \subseteq valid
    PROVE  WorkerInv(w)'
BY DEF WorkerInv, HoldsAnswer, ReadAccount

\* The steps keep what is known of the workers and of the closed accounts.
LEMMA NextInv == TypeOK /\ BearerInv /\ [Next]_vars => BearerInv'
<1> SUFFICES ASSUME TypeOK, BearerInv, [Next]_vars PROVE BearerInv'
  OBVIOUS
<1>a. ASSUME NEW w \in Workers, \A v \in Workers \ {w} :
                /\ pc'[v] = pc[v] /\ token'[v] = token[v] /\ reply'[v] = reply[v]
                /\ user'[v] = user[v] /\ outcome'[v] = outcome[v] /\ invalid'[v] = invalid[v]
                /\ closed'[v] = closed[v],
             UNCHANGED valid, ClosedInactive', WorkerInv(w)'
      PROVE  BearerInv'
  BY <1>a, OthersKept DEF BearerInv
<1>1. ASSUME NEW w \in Workers, NEW header \in Header, Call(w, header)
      PROVE  BearerInv'
  <2>1. /\ token' = [token EXCEPT ![w] = IF header \in Tokens THEN header ELSE None]
        /\ user' = [user EXCEPT ![w] = None]
        /\ invalid' = [invalid EXCEPT ![w] = header \in Tokens \ valid]
        /\ closed' = [closed EXCEPT ![w] = Inactive]
        /\ UNCHANGED <<valid, accounts>>
    BY <1>1 DEF Call
  <2>2. ClosedInactive'
    BY <2>1 DEF ClosedInactive, Inactive, BearerInv, TypeOK
  <2>3. CASE \E how \in {"none", "AuthenticationFailed", "exception"} : Ends(w, how)
    BY <1>a, <2>1, <2>2, <2>3 DEF Ends, TypeOK, WorkerInv
  <2>4. CASE /\ header \in Tokens /\ UNCHANGED reply
             /\ pc' = [pc EXCEPT ![w] = "asking"] /\ outcome' = [outcome EXCEPT ![w] = None]
    <3>1. WorkerInv(w)'
      BY <2>1, <2>4, BearerAssumption DEF TypeOK, WorkerInv, Outcome
    <3> QED
      BY <1>a, <2>1, <2>2, <2>4, <3>1 DEF TypeOK
  <2> QED
    BY <1>1, <2>3, <2>4 DEF Call
<1>2. ASSUME NEW w \in Workers, Answers(w)
      PROVE  BearerInv'
  <2>1. PICK r \in Replies(token[w]) : reply' = [reply EXCEPT ![w] = r]
    BY <1>2 DEF Answers
  <2>2. r.failure = None => r.info # None /\ r.info.name = Owner[token[w]] /\ token[w] \in valid
    <3>1. token[w] \in Tokens
      BY <1>2 DEF Answers, TypeOK
    <3> QED
      BY <3>1, RepliesTyped
  <2>3. UNCHANGED <<valid, accounts, token, user, outcome, invalid, closed>>
    BY <1>2 DEF Answers, result, history
  <2>4. WorkerInv(w)'
    BY <1>2, <2>1, <2>2, <2>3 DEF Answers, BearerInv, WorkerInv, HoldsAnswer, TypeOK
  <2> QED
    BY <1>2, <1>a, <2>1, <2>3, <2>4 DEF Answers, BearerInv, ClosedInactive, TypeOK
<1>3. ASSUME NEW w \in Workers, TakeReply(w)
      PROVE  BearerInv'
  <2>1. UNCHANGED <<valid, accounts, token, user, invalid, closed>>
    BY <1>3 DEF TakeReply, history
  <2>2. ClosedInactive'
    BY <2>1 DEF BearerInv, ClosedInactive
  <2>3. CASE \E how \in {"AuthenticationFailed", "exception"} : Ends(w, how)
    BY <1>a, <2>1, <2>2, <2>3 DEF Ends, TypeOK, WorkerInv
  <2>4. CASE /\ reply[w].failure = None /\ pc' = [pc EXCEPT ![w] = "get"]
             /\ UNCHANGED <<outcome, reply>>
    <3>1. WorkerInv(w)'
      BY <1>3, <2>1, <2>4 DEF TakeReply, BearerInv, WorkerInv, HoldsAnswer, TypeOK
    <3> QED
      BY <1>a, <2>1, <2>2, <2>4, <3>1 DEF TypeOK
  <2> QED
    BY <1>3, <2>3, <2>4 DEF TakeReply
<1>4. ASSUME NEW w \in Workers, Get(w)
      PROVE  BearerInv'
  <2>1. UNCHANGED <<valid, accounts, token, reply, outcome, invalid, closed>>
    BY <1>4 DEF Get, result, history
  <2>2. ClosedInactive'
    BY <2>1 DEF BearerInv, ClosedInactive
  <2>3. HoldsAnswer(w) /\ outcome[w] # "user"
    BY <1>4 DEF Get, BearerInv, WorkerInv
  <2>4. CASE accounts[reply[w].info.name] # None
    <3>1. /\ user' = [user EXCEPT ![w] =
                       [name |-> reply[w].info.name, active |-> accounts[reply[w].info.name].active]]
          /\ pc' = [pc EXCEPT ![w] = "check"]
      BY <1>4, <2>4 DEF Get, ReadsUser
    <3>2. ReadAccount(w)'
      BY <2>1, <2>3, <3>1 DEF ReadAccount, HoldsAnswer, BearerInv, ClosedInactive, TypeOK
    <3>3. WorkerInv(w)'
      BY <2>1, <2>3, <3>1, <3>2 DEF WorkerInv, TypeOK
    <3> QED
      BY <1>a, <2>1, <2>2, <3>1, <3>3 DEF TypeOK
  <2>5. CASE accounts[reply[w].info.name] = None
    <3>1. pc' = [pc EXCEPT ![w] = "create"] /\ UNCHANGED user
      BY <1>4, <2>5 DEF Get
    <3>2. WorkerInv(w)'
      BY <2>1, <2>3, <3>1 DEF WorkerInv, HoldsAnswer, TypeOK
    <3> QED
      BY <1>a, <2>1, <2>2, <3>1, <3>2 DEF TypeOK
  <2> QED
    BY <2>4, <2>5
<1>5. ASSUME NEW w \in Workers, Create(w)
      PROVE  BearerInv'
  <2> DEFINE u == reply[w].info.name
  <2>1. /\ UNCHANGED <<valid, token, reply, outcome, invalid, closed>>
        /\ accounts' = IF accounts[u] = None THEN Added(w) ELSE accounts
        /\ user' = [user EXCEPT ![w] = [name |-> u, active |-> accounts'[u].active]]
        /\ pc' = [pc EXCEPT ![w] = "check"]
    BY <1>5 DEF Create, ReadsUser, result, history
  <2>2. HoldsAnswer(w) /\ outcome[w] # "user"
    BY <1>5 DEF Create, BearerInv, WorkerInv
  <2>3. \A v \in Users : accounts[v] # None => accounts'[v] = accounts[v]
    BY <2>1 DEF Added, TypeOK
  <2>4. ClosedInactive'
    BY <2>1, <2>3 DEF BearerInv, ClosedInactive, TypeOK
  <2>5. ReadAccount(w)'
    BY <2>1, <2>2, <2>4 DEF ReadAccount, HoldsAnswer, ClosedInactive, TypeOK
  <2>6. WorkerInv(w)'
    BY <2>1, <2>2, <2>5 DEF WorkerInv, TypeOK
  <2> QED
    BY <1>a, <2>1, <2>4, <2>6 DEF TypeOK
<1>6. ASSUME NEW w \in Workers, CheckActive(w)
      PROVE  BearerInv'
  <2>1. /\ UNCHANGED <<valid, accounts, token, user, invalid, closed>>
        /\ reply' = [reply EXCEPT ![w] = None]
    BY <1>6 DEF CheckActive, Ends, history
  <2>2. ClosedInactive'
    BY <2>1 DEF BearerInv, ClosedInactive
  <2>3. ReadAccount(w)
    BY <1>6 DEF CheckActive, BearerInv, WorkerInv
  <2>4. WorkerInv(w)' /\ \A v \in Workers \ {w} : pc'[v] = pc[v] /\ outcome'[v] = outcome[v]
    BY <1>6, <2>1, <2>3 DEF CheckActive, Ends, WorkerInv, ReadAccount, TypeOK
  <2> QED
    BY <1>a, <2>1, <2>2, <2>4 DEF TypeOK
<1>7. ASSUME NEW t \in Tokens, Revoke(t)
      PROVE  BearerInv'
  <2>1. valid' \subseteq valid /\ UNCHANGED <<accounts, pc, token, reply, user, outcome, invalid, closed>>
    BY <1>7 DEF Revoke, result, history
  <2> QED
    BY <2>1, OthersKept DEF BearerInv, ClosedInactive
<1>8. ASSUME NEW u \in Users, NEW active \in BOOLEAN, SetActive(u, active)
      PROVE  BearerInv'
  <2>1. /\ UNCHANGED <<valid, pc, token, reply, user, outcome, invalid>>
        /\ accounts[u] # None /\ accounts' = [accounts EXCEPT ![u].active = active]
        /\ closed' = [w \in Workers |-> IF active THEN closed[w] \ {u} ELSE closed[w]]
    BY <1>8 DEF SetActive, result
  <2>2. accounts[u] \in Account
    BY <2>1 DEF TypeOK
  <2>3. accounts'[u] \in Account /\ accounts'[u].active = active
    BY <2>1, <2>2 DEF TypeOK, Account
  <2>4. ClosedInactive'
    BY <2>1, <2>3, BearerAssumption DEF BearerInv, ClosedInactive, TypeOK
  <2> QED
    BY <2>1, <2>4, OthersKept DEF BearerInv
<1>10. ASSUME NEW w \in Workers, DatabaseFails(w)
       PROVE  BearerInv'
  <2>1. UNCHANGED <<valid, accounts, token, user, invalid, closed>> /\ Ends(w, "exception")
    BY <1>10 DEF DatabaseFails, history
  <2>2. ClosedInactive'
    BY <2>1 DEF BearerInv, ClosedInactive
  <2>3. WorkerInv(w)'
    BY <2>1 DEF Ends, WorkerInv, TypeOK
  <2> QED
    BY <1>a, <2>1, <2>2, <2>3 DEF Ends, TypeOK
<1>9. CASE UNCHANGED vars
  <2>1. UNCHANGED <<valid, accounts, pc, token, reply, user, outcome, invalid, closed>>
    BY <1>9 DEF vars, result, history
  <2> QED
    BY <2>1, OthersKept DEF BearerInv, ClosedInactive
<1> QED
  BY <1>1, <1>2, <1>3, <1>4, <1>5, <1>6, <1>7, <1>8, <1>9, <1>10 DEF Next, Works

\* The attribute of the default is set from the start, so that it is right
\* whatever ends the call, and only success replaces it.
Told(w) ==
    /\ pc[w] # "idle" => outcome[w] = None /\ attribute[w] = "Failed"
    /\ outcome[w] = "user" => attribute[w] = "Success"
    /\ outcome[w] = "none" => attribute[w] \in {"NoURL", "None"}
    /\ outcome[w] \in {"AuthenticationFailed", "exception"} => attribute[w] = "Failed"

ToldInv == \A w \in Workers : Told(w)

\* The steps keep the attribute in agreement with the outcome.
LEMMA NextTold == TypeOK /\ ToldInv /\ [Next]_vars => ToldInv'
<1> SUFFICES ASSUME TypeOK, ToldInv, [Next]_vars PROVE ToldInv'
  OBVIOUS
<1>a. ASSUME NEW w \in Workers, Told(w)',
             \A v \in Workers \ {w} :
                pc'[v] = pc[v] /\ outcome'[v] = outcome[v] /\ attribute'[v] = attribute[v]
      PROVE  ToldInv'
  BY <1>a DEF ToldInv, Told
<1>b. None \notin {"none", "user", "AuthenticationFailed", "exception"}
  BY BearerAssumption DEF Outcome
<1>1. ASSUME NEW w \in Workers, NEW header \in Header, Call(w, header)
      PROVE  ToldInv'
  <2>1. CASE Ends(w, "none") /\ \E what \in {"NoURL", "None"} : Reports(w, what)
    BY <1>a, <2>1 DEF Ends, Reports, Told, TypeOK
  <2>2. CASE Reports(w, "Failed") /\ \E how \in {"AuthenticationFailed", "exception"} : Ends(w, how)
    BY <1>a, <2>2 DEF Ends, Reports, Told, TypeOK
  <2>3. CASE /\ Reports(w, "Failed") /\ pc' = [pc EXCEPT ![w] = "asking"]
             /\ outcome' = [outcome EXCEPT ![w] = None]
    BY <1>a, <1>b, <2>3 DEF Reports, Told, TypeOK
  <2> QED
    BY <1>1, <2>1, <2>2, <2>3 DEF Call, ReportsDefault
<1>2. ASSUME NEW w \in Workers, Answers(w) \/ Get(w) \/ Create(w)
      PROVE  ToldInv'
  <2>1. pc[w] # "idle" /\ UNCHANGED <<outcome, attribute>>
    BY <1>2 DEF Answers, Get, Create, result
  <2>2. \A v \in Workers \ {w} : pc'[v] = pc[v]
    BY <1>2 DEF Answers, Get, Create, ReadsUser, TypeOK
  <2>3. Told(w)'
    BY <2>1, <1>b DEF ToldInv, Told
  <2> QED
    BY <1>a, <2>1, <2>2, <2>3
<1>3. ASSUME NEW w \in Workers, TakeReply(w)
      PROVE  ToldInv'
  <2>1. pc[w] = "answered" /\ UNCHANGED attribute
    BY <1>3 DEF TakeReply
  <2>2. CASE \E how \in {"AuthenticationFailed", "exception"} : Ends(w, how)
    BY <1>a, <2>1, <2>2 DEF Ends, ToldInv, Told, TypeOK
  <2>3. CASE pc' = [pc EXCEPT ![w] = "get"] /\ UNCHANGED outcome
    BY <1>a, <1>b, <2>1, <2>3 DEF ToldInv, Told, TypeOK
  <2> QED
    BY <1>3, <2>2, <2>3 DEF TakeReply
<1>4. ASSUME NEW w \in Workers, CheckActive(w)
      PROVE  ToldInv'
  <2>1. CASE Ends(w, "user") /\ Reports(w, "Success")
    BY <1>a, <2>1 DEF Ends, Reports, Told, TypeOK
  <2>2. CASE pc[w] = "check" /\ Ends(w, "AuthenticationFailed") /\ UNCHANGED attribute
    BY <1>a, <2>2 DEF Ends, ToldInv, Told, TypeOK
  <2> QED
    BY <1>4, <2>1, <2>2 DEF CheckActive
<1>5. CASE UNCHANGED <<pc, outcome, attribute>>
  BY <1>5 DEF ToldInv, Told
<1>6. ASSUME NEW t \in Tokens, Revoke(t) PROVE ToldInv'
  BY <1>6, <1>5 DEF Revoke, result
<1>7. ASSUME NEW u \in Users, NEW active \in BOOLEAN, SetActive(u, active) PROVE ToldInv'
  BY <1>7, <1>5 DEF SetActive, result
<1>9. ASSUME NEW w \in Workers, DatabaseFails(w)
      PROVE  ToldInv'
  BY <1>9, <1>a DEF DatabaseFails, Ends, ToldInv, Told, TypeOK
<1>8. CASE UNCHANGED vars
  BY <1>8, <1>5 DEF vars, result
<1> QED
  BY <1>1, <1>2, <1>3, <1>4, <1>6, <1>7, <1>8, <1>9 DEF Next, Works

-----------------------------------------------------------------------------
LEMMA SpecInv == Spec => [](TypeOK /\ BearerInv)
<1>1. TypeOK /\ BearerInv /\ [Next]_vars => (TypeOK /\ BearerInv)'
  BY NextTyped, NextInv
<1> QED
  BY InitBearer, <1>1, PTL DEF Spec

\* For any number of workers, tokens and users every variable keeps its type.
THEOREM TypeCorrect == Spec => []TypeOK
BY SpecInv, PTL

\* Whoever is authenticated owns the token, and it was valid when authenticate
\* was called (authentication.py:85-90).
THEOREM AuthenticatedIsNamed == Spec => []AuthenticatedByProvider
<1>1. BearerInv => AuthenticatedByProvider
  BY DEF BearerInv, WorkerInv, ReadAccount, AuthenticatedByProvider
<1> QED
  BY <1>1, SpecInv, PTL

\* An account that is inactive from the call on authenticates nobody
\* (authentication.py:87).
THEOREM ClosedIsRefused == Spec => []ClosedAccountRefused
<1>1. BearerInv => ClosedAccountRefused
  BY DEF BearerInv, WorkerInv, ReadAccount, ClosedAccountRefused
<1> QED
  BY <1>1, SpecInv, PTL

\* However a call ends, the attribute tells it, although most ways out set none:
\* the one that the call begins with is right for them (authentication.py:40).
THEOREM AttributeIsTold == Spec => []AttributeTellsOutcome
<1>1. Init => ToldInv
  BY BearerAssumption DEF Init, ToldInv, Told, Outcome
<1>2. TypeOK /\ ToldInv => AttributeTellsOutcome
  <2> SUFFICES ASSUME TypeOK, ToldInv, NEW w \in Workers, outcome[w] # None
               PROVE  CASE outcome[w] = "user" -> attribute[w] = "Success"
                        [] outcome[w] = "none" -> attribute[w] \in {"NoURL", "None"}
                        [] OTHER -> attribute[w] = "Failed"
    BY DEF AttributeTellsOutcome
  <2>1. outcome[w] \in Outcome /\ Told(w)
    BY DEF TypeOK, ToldInv
  <2> QED
    BY <2>1 DEF Told, Outcome
<1> QED
  BY TypeCorrect, NextTold, <1>1, <1>2, PTL DEF Spec

\* Racing requests create an account once and never change one that exists
\* (authentication.py:85).
THEOREM CreatedOnce == Spec => AccountsKept
<1> DEFINE Kept == pc' # pc => \A u \in Users : accounts[u] # None => accounts'[u] = accounts[u]
<1>1. ASSUME TypeOK, [Next]_vars PROVE [Kept]_vars
  <2>1. CASE UNCHANGED accounts
    BY <2>1
  <2>2. ASSUME NEW w \in Workers, Create(w) PROVE Kept
    BY <1>1, <2>2 DEF Create, Added, TypeOK
  <2>3. ASSUME NEW u \in Users, NEW active \in BOOLEAN, SetActive(u, active) PROVE Kept
    BY <2>3 DEF SetActive
  <2>4. UNCHANGED vars => UNCHANGED accounts
    BY DEF vars
  <2> QED
    BY <1>1, <2>1, <2>2, <2>3, <2>4 DEF Next, Works, TakeReply, Get, DatabaseFails, CheckActive, Call, Answers, Revoke
<1> QED
  BY <1>1, TypeCorrect, PTL DEF Spec, AccountsKept

=============================================================================
