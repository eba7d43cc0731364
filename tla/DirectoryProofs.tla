--------------------------- MODULE DirectoryProofs ---------------------------
(***************************************************************************)
(* Safety of the logins and of the requests on accounts, roles and teams,  *)
(* for any accounts, persons, tokens, operations, and any number of        *)
(* callbacks and requests at one time.                                     *)
(***************************************************************************)
EXTENDS Directory, TLAPS

-----------------------------------------------------------------------------
\* Callbacks and requests as records of their steps

LEMMA CallbackFields ==
  ASSUME NEW cb \in CallbackRow
  PROVE  /\ cb.at # "idle" => cb.login \in Attempt
         /\ cb.at \in {"verified", "searched", "loaded"} => cb.claims \in Claims
         /\ cb.at \in {"searched", "loaded"} => cb.owner \in Account \cup {NoAccount}
         /\ cb.at = "loaded" => /\ cb.user \in Account \cup {NoAccount}
                                /\ cb.active \in BOOLEAN /\ cb.had \in SUBSET Role
  BY DEF CallbackRow

LEMMA ClaimFields ==
  ASSUME NEW claims \in Claims
  PROVE  claims.sub \in Person /\ claims.email \in Email /\ claims.groups \in SUBSET Role
  BY LoginsAssumption

LEMMA RequestFields ==
  ASSUME NEW q \in RequestRow
  PROVE  /\ q.at # "idle" => q.op \in Operations
         /\ q.at = "begun" => q.session \in Session
         /\ q.at = "found" => q.seen \in Seen
  BY DEF RequestRow

LEMMA OperationFields ==
  ASSUME NEW o \in Operations
  PROVE  /\ o.op \in {"grant", "revoke"} => o.user \in Account /\ o.role \in Role
         /\ o.op = "setStatus" => o.user \in Account /\ o.status \in {"active", "disabled"}
         /\ o.op = "join" => /\ o.team \in Team /\ o.user \in Account
                             /\ o.as \in {"member", "manager"}
         /\ o.op = "leave" => o.team \in Team /\ o.user \in Account
         /\ o.op \in {"createTeam", "deleteTeam"} => o.team \in Team
  <1>1. o \in AllOperations  BY DirectoryAssumption
  <1> QED  BY <1>1 DEF AllOperations

\* A request that finds its row gone stays a request for the same operation.
LEMMA GoneRow ==
  ASSUME NEW q \in RequestRow, q.at = "found"
  PROVE  /\ [q EXCEPT !.seen = "gone"] \in RequestRow
         /\ [q EXCEPT !.seen = "gone"].at = "found"
         /\ [q EXCEPT !.seen = "gone"].op = q.op
         /\ [q EXCEPT !.seen = "gone"].seen = "gone"
  BY DEF RequestRow, Seen

LEMMA FoundRow ==
  ASSUME TypeOK, NEW r \in Request, request[r].at # "idle", NEW what \in Seen
  PROVE  [at |-> "found", op |-> request[r].op, seen |-> what] \in RequestRow
  <1>1. request[r] \in RequestRow  BY DEF TypeOK
  <1>2. request[r].op \in Operations  BY <1>1, RequestFields
  <1> QED  BY <1>2 DEF RequestRow

\* What the commit of r does to the requests.
LEMMA CommitFacts ==
  ASSUME TypeOK, NEW r \in Request, NEW lost, Commits(r, lost)
  PROVE  /\ request' \in [Request -> RequestRow]
         /\ request'[r].at = "idle"
         /\ \A q \in Request \ {r} :
              \/ request'[q] = request[q]
              \/ /\ request[q].at = "found" /\ request'[q].at = "found"
                 /\ request[q].seen = "differs" /\ request'[q].seen = "gone"
                 /\ request'[q].op = request[q].op
         /\ \A q \in Request \ {r} :
              request[q].at = "found" /\ request[q].op \in lost => request'[q].seen # "differs"
  <1>1. \A q \in Request : request[q] \in RequestRow  BY DEF TypeOK
  <1>2. \A q \in Request : request[q].at = "found" =>
          LET gone == [request[q] EXCEPT !.seen = "gone"] IN
          gone \in RequestRow /\ gone.at = "found" /\ gone.op = request[q].op /\ gone.seen = "gone"
    BY <1>1, GoneRow
  <1>3. [at |-> "idle"] \in RequestRow  BY DEF RequestRow
  <1>4. request' \in [Request -> RequestRow]
    BY <1>1, <1>2, <1>3 DEF Commits
  <1>5. request'[r].at = "idle"  BY DEF Commits
  <1>6. ASSUME NEW q \in Request \ {r}
        PROVE  /\ \/ request'[q] = request[q]
                  \/ /\ request[q].at = "found" /\ request'[q].at = "found"
                     /\ request[q].seen = "differs" /\ request'[q].seen = "gone"
                     /\ request'[q].op = request[q].op
               /\ request[q].at = "found" /\ request[q].op \in lost => request'[q].seen # "differs"
    <2>1. CASE request[q].at = "found" /\ request[q].seen = "differs" /\ request[q].op \in lost
      <3>1. request'[q] = [request[q] EXCEPT !.seen = "gone"]  BY <2>1 DEF Commits
      <3> QED  BY <2>1, <3>1, <1>2
    <2>2. CASE ~(request[q].at = "found" /\ request[q].seen = "differs" /\ request[q].op \in lost)
      <3>1. request'[q] = request[q]  BY <2>2 DEF Commits
      <3> QED  BY <2>2, <3>1
    <2> QED  BY <2>1, <2>2
  <1> QED  BY <1>4, <1>5, <1>6

-----------------------------------------------------------------------------
\* Types

LEMMA InitType == ASSUME Init PROVE TypeOK
  <1>1. account \in [Account -> AccountRow]
    <2>1. \A a \in Account : Seed(a) \in AccountRow
      BY LoginsAssumption DEF Seed, Seeded, NoAccountRow, AccountRow
    <2> QED  BY <2>1 DEF Init, LoginsInit
  <1>2. roles \in [Account -> SUBSET Role]
    BY LoginsAssumption DEF Init, LoginsInit, Seeded
  <1>3. session \in [Session -> SessionRow]
    BY DEF Init, LoginsInit, NoSession, SessionRow
  <1>4. callback \in [Callback -> CallbackRow] /\ request \in [Request -> RequestRow]
    BY DEF Init, LoginsInit, CallbackRow, RequestRow
  <1> QED  BY <1>1, <1>2, <1>3, <1>4 DEF Init, LoginsInit, TypeOK

LEMMA CreatedSession ==
  ASSUME TypeOK, NEW s \in Session, NEW a \in Account, NEW t \in Attempt \cup {NoAttempt},
         NEW p \in Person \cup {Dev}, CreateSession(s, a, t, p)
  PROVE  session' \in [Session -> SessionRow]
  <1>1. [status |-> "live", user |-> a, login |-> t, person |-> p] \in SessionRow
    BY DEF SessionRow
  <1> QED  BY <1>1 DEF CreateSession, TypeOK

LEMMA EndedSession ==
  ASSUME TypeOK, NEW s \in Session, EndSession(s)
  PROVE  /\ session' \in [Session -> SessionRow]
         /\ \A q \in Session : /\ session'[q].user = session[q].user
                               /\ session'[q].login = session[q].login
                               /\ session'[q].person = session[q].person
  <1>1. \A row \in SessionRow : LET over == [row EXCEPT !.status = "over"] IN
          /\ over \in SessionRow
          /\ over.user = row.user /\ over.login = row.login /\ over.person = row.person
    BY DEF SessionRow
  <1>2. session' = [session EXCEPT ![s] = [session[s] EXCEPT !.status = "over"]]
    BY DEF EndSession
  <1>3. \A q \in Session : session[q] \in SessionRow  BY DEF TypeOK
  <1> QED  BY <1>1, <1>2, <1>3 DEF TypeOK

LEMMA LoginsType ==
  ASSUME TypeOK, LoginsNext, UNCHANGED <<team, member, request, contended>>
  PROVE  TypeOK'
  <1>1. ASSUME NEW t \in Attempt, StartLogin(t) \/ LapseState(t)  PROVE TypeOK'
    BY <1>1 DEF StartLogin, LapseState, TypeOK, peopleVars
  <1>2. ASSUME NEW c \in Callback, NEW t \in Attempt, ReadState(c, t)  PROVE TypeOK'
    <2>1. [at |-> "read", login |-> t] \in CallbackRow  BY DEF CallbackRow
    <2> QED  BY <1>2, <2>1 DEF ReadState, Goes, TypeOK, peopleVars
  <1>3. ASSUME NEW c \in Callback, ConsumeState(c)  PROVE TypeOK'
    <2>1. \A cb \in CallbackRow : cb.at = "read" => [cb EXCEPT !.at = "consumed"] \in CallbackRow
      BY DEF CallbackRow
    <2> DEFINE cb == callback[c]
    <2>2. cb \in CallbackRow /\ cb.at = "read"  BY <1>3 DEF TypeOK, ConsumeState
    <2>3. [cb EXCEPT !.at = "consumed"] \in CallbackRow  BY <2>1, <2>2
    <2> QED  BY <1>3, <2>3 DEF ConsumeState, Goes, TypeOK, peopleVars
  <1>4. ASSUME NEW c \in Callback, NEW claims \in Claims, Redeem(c, claims)  PROVE TypeOK'
    <2>1. callback[c] \in CallbackRow /\ callback[c].at = "consumed"
      BY <1>4 DEF TypeOK, Redeem
    <2>2. callback[c].login \in Attempt  BY <2>1, CallbackFields
    <2>3. [at |-> "verified", login |-> callback[c].login, claims |-> claims] \in CallbackRow
      BY <2>2 DEF CallbackRow
    <2> QED  BY <1>4, <2>2, <2>3 DEF Redeem, Goes, TypeOK, peopleVars
  <1>5. ASSUME NEW c \in Callback, FindIdentity(c)  PROVE TypeOK'
    <2>1. callback[c] \in CallbackRow /\ callback[c].at = "verified"
      BY <1>5 DEF TypeOK, FindIdentity
    <2>2. callback[c].login \in Attempt /\ callback[c].claims \in Claims
      BY <2>1, CallbackFields
    <2>3. identity[callback[c].claims.sub] \in Account \cup {NoAccount}
      BY <2>2, ClaimFields DEF TypeOK
    <2>4. [at |-> "searched", login |-> callback[c].login, claims |-> callback[c].claims,
           owner |-> identity[callback[c].claims.sub]] \in CallbackRow
      BY <2>2, <2>3 DEF CallbackRow
    <2> QED  BY <1>5, <2>4 DEF FindIdentity, Goes, TypeOK, peopleVars
  <1>6. ASSUME NEW c \in Callback, LoadAccount(c)  PROVE TypeOK'
    <2>1. callback[c] \in CallbackRow /\ callback[c].at = "searched"
      BY <1>6 DEF TypeOK, LoadAccount
    <2>2. /\ callback[c].login \in Attempt /\ callback[c].claims \in Claims
          /\ callback[c].owner \in Account \cup {NoAccount}
      BY <2>1, CallbackFields
    <2>3. PICK a \in AccountFor(callback[c].owner, callback[c].claims.email) :
            Goes(c, [at |-> "loaded", login |-> callback[c].login, claims |-> callback[c].claims,
                     owner |-> callback[c].owner, user |-> a,
                     active |-> IF a = NoAccount THEN TRUE ELSE account[a].status = "active",
                     had |-> IF a = NoAccount THEN {} ELSE roles[a]])
      BY <1>6 DEF LoadAccount
    <2>4. a \in Account \cup {NoAccount}
      BY <2>2, <2>3 DEF AccountFor, WithEmail
    <2>5. (IF a = NoAccount THEN {} ELSE roles[a]) \in SUBSET Role
      BY <2>4 DEF TypeOK
    <2>6. [at |-> "loaded", login |-> callback[c].login, claims |-> callback[c].claims,
           owner |-> callback[c].owner, user |-> a,
           active |-> IF a = NoAccount THEN TRUE ELSE account[a].status = "active",
           had |-> IF a = NoAccount THEN {} ELSE roles[a]] \in CallbackRow
      BY <2>2, <2>4, <2>5 DEF CallbackRow
    <2> QED  BY <1>6, <2>3, <2>6 DEF LoadAccount, Goes, TypeOK, peopleVars
  <1>7. ASSUME NEW c \in Callback, NEW s \in Session, EnterAccount(c, s)  PROVE TypeOK'
    <2> DEFINE cb == callback[c]
    <2>1. cb \in CallbackRow /\ cb.at = "loaded" /\ cb.user # NoAccount
      BY <1>7 DEF TypeOK, EnterAccount
    <2>2. cb.login \in Attempt /\ cb.claims \in Claims /\ cb.user \in Account /\ cb.had \in SUBSET Role
      BY <2>1, CallbackFields
    <2>3. cb.claims.sub \in Person /\ cb.claims.groups \in SUBSET Role
      BY <2>2, ClaimFields
    <2>4. identity' \in [Person -> Account \cup {NoAccount}]
      BY <1>7, <2>2, <2>3 DEF EnterAccount, Bind, TypeOK
    <2>5. Added(cb) \in SUBSET Role  BY <2>3 DEF Added, Target, Role
    <2>6. roles' \in [Account -> SUBSET Role]
      BY <1>7, <2>2, <2>5 DEF EnterAccount, RolesAfter, TypeOK
    <2>7. session' \in [Session -> SessionRow]
      BY <1>7, <2>2, <2>3, CreatedSession DEF EnterAccount
    <2>8. callback' \in [Callback -> CallbackRow]
      BY <1>7 DEF EnterAccount, TypeOK, CallbackRow
    <2> QED  BY <1>7, <2>4, <2>6, <2>7, <2>8 DEF EnterAccount, TypeOK
  <1>8. ASSUME NEW c \in Callback, NEW a \in Account, NEW s \in Session, CreateAccount(c, a, s)
        PROVE  TypeOK'
    <2> DEFINE cb == callback[c]
    <2>1. cb \in CallbackRow /\ cb.at = "loaded"
      BY <1>8 DEF TypeOK, CreateAccount
    <2>2. cb.login \in Attempt /\ cb.claims \in Claims /\ cb.had \in SUBSET Role
      BY <2>1, CallbackFields
    <2>3. /\ cb.claims.sub \in Person /\ cb.claims.email \in Email
          /\ cb.claims.groups \in SUBSET Role
      BY <2>2, ClaimFields
    <2>4. identity' \in [Person -> Account \cup {NoAccount}]
      BY <1>8, <2>3 DEF CreateAccount, TypeOK
    <2>5. Added(cb) \in SUBSET Role  BY <2>3 DEF Added, Target, Role
    <2>6. roles' \in [Account -> SUBSET Role]
      BY <1>8, <2>5 DEF CreateAccount, TypeOK
    <2>7. session' \in [Session -> SessionRow]
      BY <1>8, <2>2, <2>3, CreatedSession DEF CreateAccount
    <2>8. callback' \in [Callback -> CallbackRow]
      BY <1>8 DEF CreateAccount, TypeOK, CallbackRow
    <2>9. [status |-> "active", email |-> cb.claims.email, subject |-> cb.claims.sub] \in AccountRow
      BY <2>3 DEF AccountRow
    <2>10. account' \in [Account -> AccountRow]
      BY <1>8, <2>9 DEF CreateAccount, TypeOK
    <2> QED  BY <1>8, <2>4, <2>6, <2>7, <2>8, <2>10 DEF CreateAccount, TypeOK
  <1>9. ASSUME NEW c \in Callback, AbandonCallback(c)  PROVE TypeOK'
    <2>1. [at |-> "idle"] \in CallbackRow  BY DEF CallbackRow
    <2> QED  BY <1>9, <2>1 DEF AbandonCallback, Goes, TypeOK, peopleVars
  <1>10. ASSUME NEW a \in Account, NEW s \in Session, DevLogin(a, s)  PROVE TypeOK'
    <2>1. session' \in [Session -> SessionRow]
      BY <1>10, CreatedSession DEF DevLogin
    <2> QED  BY <1>10, <2>1 DEF DevLogin, TypeOK, loginVars
  <1>11. ASSUME NEW s \in Session, ExpireSession(s)  PROVE TypeOK'
    <2>1. session' \in [Session -> SessionRow]
      BY <1>11, EndedSession DEF ExpireSession
    <2> QED  BY <1>11, <2>1 DEF ExpireSession, TypeOK, loginVars
  <1> QED
    BY <1>1, <1>2, <1>3, <1>4, <1>5, <1>6, <1>7, <1>8, <1>9, <1>10, <1>11 DEF LoginsNext

\* A request that is begun or found has an operation.
LEMMA AskedOperation ==
  ASSUME TypeOK, NEW r \in Request, NEW op, Asks(r, op) \/ Writes(r, op)
  PROVE  /\ request[r] \in RequestRow /\ request[r].at # "idle"
         /\ request[r].op \in Operations /\ request[r].op.op = op
         /\ request[r].at = "begun" => request[r].session \in Session
  <1>1. request[r] \in RequestRow  BY DEF TypeOK
  <1> QED  BY <1>1, RequestFields DEF Asks, Writes

LEMMA SeenType ==
  ASSUME TypeOK, NEW r \in Request, request[r].at # "idle", NEW what \in Seen, Sees(r, what)
  PROVE  /\ request' \in [Request -> RequestRow]
         /\ UNCHANGED <<account, identity, roles, session, loginState, redeemed, callback,
                        team, member>>
  <1>1. [at |-> "found", op |-> request[r].op, seen |-> what] \in RequestRow  BY FoundRow
  <1> QED  BY <1>1 DEF Sees, TypeOK, peopleVars, loginVars, teamVars

LEMMA RequestsType ==
  ASSUME TypeOK, RequestsNext
  PROVE  TypeOK'
  <1> USE DEF peopleVars, loginVars, teamVars
  <1> SUFFICES ASSUME NEW r \in Request,
         \/ \E s \in Session, o \in Operations : Begin(r, s, o)
         \/ FindGrant(r) \/ Grant(r) \/ FindRevoke(r) \/ Revoke(r)
         \/ FindStatus(r) \/ SetStatus(r)
         \/ CreateTeam(r) \/ DeleteTeam(r) \/ FindMember(r) \/ Join(r) \/ Leave(r)
         \/ Logout(r) \/ EndRequest(r)
       PROVE TypeOK'
    BY DEF RequestsNext
  <1> DEFINE o == request[r].op
  <1>1. ASSUME NEW s \in Session, NEW p \in Operations, Begin(r, s, p)  PROVE TypeOK'
    <2>1. [at |-> "begun", session |-> s, op |-> p] \in RequestRow  BY DEF RequestRow
    <2> QED  BY <1>1, <2>1 DEF Begin, TypeOK
  <1>2. CASE FindGrant(r)
    <2>1. request' \in [Request -> RequestRow]
          /\ UNCHANGED <<account, identity, roles, session, loginState, redeemed, callback, team, member>>
      BY <1>2, AskedOperation, SeenType DEF FindGrant, Seen
    <2> QED  BY <1>2, <2>1 DEF FindGrant, TypeOK
  <1>3. CASE Grant(r)
    <2>1. o \in Operations /\ o.op = "grant"  BY <1>3, AskedOperation DEF Grant
    <2>2. o.user \in Account /\ o.role \in Role  BY <2>1, OperationFields
    <2>3. request' \in [Request -> RequestRow]  BY <1>3, CommitFacts DEF Grant
    <2>4. roles' \in [Account -> SUBSET Role]  BY <1>3, <2>2 DEF Grant, TypeOK
    <2> QED  BY <1>3, <2>3, <2>4 DEF Grant, TypeOK
  <1>4. CASE FindRevoke(r)
    <2>1. request' \in [Request -> RequestRow]
          /\ UNCHANGED <<account, identity, roles, session, loginState, redeemed, callback, team, member>>
      BY <1>4, AskedOperation, SeenType DEF FindRevoke, Seen
    <2> QED  BY <1>4, <2>1 DEF FindRevoke, TypeOK
  <1>5. CASE Revoke(r)
    <2>1. o \in Operations /\ o.op = "revoke"  BY <1>5, AskedOperation DEF Revoke
    <2>2. o.user \in Account /\ o.role \in Role  BY <2>1, OperationFields
    <2>3. request' \in [Request -> RequestRow]  BY <1>5, CommitFacts DEF Revoke
    <2>4. roles' \in [Account -> SUBSET Role]  BY <1>5, <2>2 DEF Revoke, TypeOK
    <2> QED  BY <1>5, <2>3, <2>4 DEF Revoke, TypeOK
  <1>6. CASE FindStatus(r)
    <2>1. request' \in [Request -> RequestRow]
          /\ UNCHANGED <<account, identity, roles, session, loginState, redeemed, callback, team, member>>
      BY <1>6, AskedOperation, SeenType DEF FindStatus, Seen
    <2> QED  BY <1>6, <2>1 DEF FindStatus, TypeOK
  <1>7. CASE SetStatus(r)
    <2>1. o \in Operations /\ o.op = "setStatus"  BY <1>7, AskedOperation DEF SetStatus
    <2>2. o.user \in Account /\ o.status \in {"active", "disabled"}  BY <2>1, OperationFields
    <2>3. request' \in [Request -> RequestRow]  BY <1>7, CommitFacts DEF SetStatus
    <2>4. \A row \in AccountRow : [row EXCEPT !.status = o.status] \in AccountRow
      BY <2>2 DEF AccountRow
    <2>5. account' \in [Account -> AccountRow]
      <3>1. CASE request[r].seen = "same"  BY <1>7, <3>1 DEF SetStatus, TypeOK
      <3>2. CASE request[r].seen # "same"
        <4>1. account' = [account EXCEPT ![o.user] = [account[o.user] EXCEPT !.status = o.status]]
          BY <1>7, <3>2 DEF SetStatus
        <4>2. account[o.user] \in AccountRow  BY <2>2 DEF TypeOK
        <4> QED  BY <4>1, <4>2, <2>4 DEF TypeOK
      <3> QED  BY <3>1, <3>2
    <2> QED  BY <1>7, <2>3, <2>5 DEF SetStatus, TypeOK
  <1>8. CASE CreateTeam(r)
    <2>1. request' \in [Request -> RequestRow]  BY <1>8, CommitFacts DEF CreateTeam
    <2> QED  BY <1>8, <2>1 DEF CreateTeam, TypeOK
  <1>9. CASE DeleteTeam(r)
    <2>1. request' \in [Request -> RequestRow]  BY <1>9, CommitFacts DEF DeleteTeam
    <2> QED  BY <1>9, <2>1 DEF DeleteTeam, TypeOK
  <1>10. CASE FindMember(r)
    <2>1. PICK what \in Seen : Sees(r, what)  BY <1>10 DEF FindMember, Seen
    <2>2. request' \in [Request -> RequestRow]
          /\ UNCHANGED <<account, identity, roles, session, loginState, redeemed, callback, team, member>>
      BY <1>10, <2>1, AskedOperation, SeenType DEF FindMember
    <2> QED  BY <1>10, <2>2 DEF FindMember, TypeOK
  <1>11. CASE Join(r)
    <2>1. o \in Operations /\ o.op = "join"  BY <1>11, AskedOperation DEF Join
    <2>2. o.team \in Team /\ o.user \in Account /\ o.as \in {"member", "manager"}
      BY <2>1, OperationFields
    <2>3. request' \in [Request -> RequestRow]  BY <1>11, CommitFacts DEF Join
    <2>4. member' \in [Team -> [Account -> {"none", "member", "manager"}]]
      <3>1. \/ member' = member
            \/ member' = [member EXCEPT ![o.team] = [member[o.team] EXCEPT ![o.user] = o.as]]
        BY <1>11 DEF Join
      <3>2. [member[o.team] EXCEPT ![o.user] = o.as] \in [Account -> {"none", "member", "manager"}]
        BY <2>2 DEF TypeOK
      <3> QED  BY <3>1, <3>2, <2>2 DEF TypeOK
    <2> QED  BY <1>11, <2>3, <2>4 DEF Join, TypeOK
  <1>12. CASE Leave(r)
    <2>1. o \in Operations /\ o.op = "leave"  BY <1>12, AskedOperation DEF Leave
    <2>2. o.team \in Team /\ o.user \in Account  BY <2>1, OperationFields
    <2>3. request' \in [Request -> RequestRow]  BY <1>12, CommitFacts DEF Leave
    <2>4. member' \in [Team -> [Account -> {"none", "member", "manager"}]]
      BY <1>12, <2>2 DEF Leave, TypeOK
    <2> QED  BY <1>12, <2>3, <2>4 DEF Leave, TypeOK
  <1>13. CASE Logout(r)
    <2>1. request[r].session \in Session
      BY <1>13, AskedOperation DEF Logout, Asks
    <2>2. session' \in [Session -> SessionRow]  BY <1>13, <2>1, EndedSession DEF Logout
    <2>3. request' \in [Request -> RequestRow]  BY <1>13, CommitFacts DEF Logout
    <2> QED  BY <1>13, <2>2, <2>3 DEF Logout, TypeOK
  <1>14. CASE EndRequest(r)
    <2>1. [at |-> "idle"] \in RequestRow  BY DEF RequestRow
    <2> QED  BY <1>14, <2>1 DEF EndRequest, TypeOK
  <1> QED
    BY <1>1, <1>2, <1>3, <1>4, <1>5, <1>6, <1>7, <1>8, <1>9, <1>10, <1>11, <1>12, <1>13, <1>14

LEMMA NextType == ASSUME TypeOK, [Next]_vars PROVE TypeOK'
  <1>1. CASE UNCHANGED vars  BY <1>1 DEF vars, TypeOK
  <1> QED  BY <1>1, LoginsType, RequestsType DEF Next

\* The variables of the accounts, logins and teams keep their kinds.
THEOREM TypeCorrect == Spec => []TypeOK
  <1>1. Init => TypeOK  BY InitType
  <1>2. TypeOK /\ [Next]_vars => TypeOK'  BY NextType
  <1> QED  BY <1>1, <1>2, PTL DEF Spec

-----------------------------------------------------------------------------
\* Logins: one code, one session

Past(c) == callback[c].at \in {"verified", "searched", "loaded"}

\* A callback that has consumed its state, and one that has redeemed its code.
StateGone ==
  \A c \in Callback :
    callback[c].at = "consumed" \/ Past(c) => loginState[callback[c].login] = "gone"

CodeSpent ==
  /\ \A c \in Callback : Past(c) =>
       /\ callback[c].login \in redeemed
       /\ \A s \in Session : session[s].login # callback[c].login
  /\ \A c, d \in Callback : Past(c) /\ Past(d) /\ callback[c].login = callback[d].login => c = d
  /\ \A s \in Session : session[s].login # NoAttempt => session[s].login \in redeemed

LoginInv == StateGone /\ CodeSpent /\ LoginCompletesOnce

\* Steps that leave logins alone.
LEMMA LoginFrame ==
  ASSUME LoginInv, UNCHANGED <<loginState, redeemed, callback>>,
         \A s \in Session : session'[s].login = session[s].login
  PROVE  LoginInv'
  BY DEF LoginInv, StateGone, CodeSpent, Past, LoginCompletesOnce

\* A callback moves on with the code it has redeemed.
LEMMA LoginAdvances ==
  ASSUME LoginInv, NEW c \in Callback, Past(c),
         callback'[c].at \in {"searched", "loaded"}, callback'[c].login = callback[c].login,
         \A d \in Callback \ {c} : callback'[d] = callback[d],
         UNCHANGED <<loginState, redeemed, session>>
  PROVE  LoginInv'
  <1>1. \A d \in Callback : Past(d)' <=> Past(d)  BY DEF Past
  <1>2. \A d \in Callback : callback'[d].login = callback[d].login  OBVIOUS
  <1>3. StateGone'  BY <1>1, <1>2 DEF StateGone, LoginInv
  <1>4. CodeSpent'  BY <1>1, <1>2 DEF CodeSpent, LoginInv
  <1>5. LoginCompletesOnce'  BY DEF LoginCompletesOnce, LoginInv
  <1> QED  BY <1>3, <1>4, <1>5 DEF LoginInv

\* The commit of a callback opens the session of its login.
LEMMA LoginCommits ==
  ASSUME TypeOK, LoginInv, NEW c \in Callback, Past(c),
         NEW s \in Session, NEW a, NEW p,
         CreateSession(s, a, callback[c].login, p),
         callback' = [callback EXCEPT ![c] = [at |-> "idle"]],
         UNCHANGED <<loginState, redeemed>>
  PROVE  LoginInv'
  <1> DEFINE t == callback[c].login
  <1>1. /\ \A d \in Callback \ {c} : callback'[d] = callback[d]
        /\ callback'[c].at = "idle"
    BY DEF TypeOK
  <1>2. /\ session'[s].login = t
        /\ \A q \in Session \ {s} : session'[q].login = session[q].login
    BY DEF CreateSession, TypeOK
  <1>3. loginState[t] = "gone" /\ t \in redeemed /\ \A q \in Session : session[q].login # t
    BY DEF LoginInv, StateGone, CodeSpent
  <1>4. \A d \in Callback : Past(d)' => Past(d) /\ d # c  BY <1>1 DEF Past
  <1>5. StateGone'  BY <1>1, <1>4 DEF StateGone, LoginInv
  <1>6. CodeSpent'
    <2>1. ASSUME NEW d \in Callback, Past(d)'
          PROVE  /\ callback'[d].login \in redeemed'
                 /\ \A q \in Session : session'[q].login # callback'[d].login
      <3>1. Past(d) /\ d # c /\ callback'[d] = callback[d]  BY <2>1, <1>1, <1>4
      <3>2. callback[d].login # t  BY <3>1 DEF LoginInv, CodeSpent
      <3> QED  BY <3>1, <3>2, <1>2 DEF LoginInv, CodeSpent
    <2>2. \A d, e \in Callback :
            Past(d)' /\ Past(e)' /\ callback'[d].login = callback'[e].login => d = e
      BY <1>1, <1>4 DEF LoginInv, CodeSpent
    <2>3. \A q \in Session : session'[q].login # NoAttempt => session'[q].login \in redeemed'
      BY <1>2, <1>3 DEF LoginInv, CodeSpent
    <2> QED  BY <2>1, <2>2, <2>3 DEF CodeSpent
  <1>7. LoginCompletesOnce'
    BY <1>2, <1>3 DEF LoginCompletesOnce, LoginInv
  <1> QED  BY <1>5, <1>6, <1>7 DEF LoginInv

LEMMA LoginsKeepLogins ==
  ASSUME TypeOK, LoginInv, LoginsNext
  PROVE  LoginInv'
  <1> USE DEF peopleVars
  <1>1. ASSUME NEW t \in Attempt, StartLogin(t) \/ LapseState(t)  PROVE LoginInv'
    <2>1. \A u \in Attempt : loginState[u] = "gone" => loginState'[u] = "gone"
      BY <1>1 DEF StartLogin, LapseState, TypeOK
    <2>2. UNCHANGED <<redeemed, callback, session>>
      BY <1>1 DEF StartLogin, LapseState
    <2>3. \A c \in Callback : callback[c].at # "idle" => callback[c].login \in Attempt
      BY CallbackFields DEF TypeOK
    <2>4. \A s \in Session : session[s].login # NoAttempt => session[s].login \in Attempt
      BY DEF TypeOK, SessionRow
    <2>5. StateGone'
      BY <2>1, <2>2, <2>3 DEF LoginInv, StateGone, Past
    <2>6. CodeSpent'  BY <2>2 DEF LoginInv, CodeSpent, Past
    <2>7. LoginCompletesOnce'  BY <2>1, <2>2, <2>4 DEF LoginInv, LoginCompletesOnce
    <2> QED  BY <2>5, <2>6, <2>7 DEF LoginInv
  <1>2. ASSUME NEW c \in Callback, NEW t \in Attempt, ReadState(c, t)  PROVE LoginInv'
    <2>1. /\ callback'[c].at = "read" /\ \A d \in Callback \ {c} : callback'[d] = callback[d]
          /\ UNCHANGED <<loginState, redeemed, session>>
      BY <1>2 DEF ReadState, Goes, TypeOK
    <2>2. StateGone' /\ CodeSpent' /\ LoginCompletesOnce'
      BY <2>1 DEF LoginInv, StateGone, CodeSpent, Past, LoginCompletesOnce
    <2> QED  BY <2>2 DEF LoginInv
  <1>3. ASSUME NEW c \in Callback, ConsumeState(c)  PROVE LoginInv'
    <2>1. callback[c] \in CallbackRow /\ callback[c].at = "read"  BY <1>3 DEF ConsumeState, TypeOK
    <2>2. callback[c].login \in Attempt  BY <2>1, CallbackFields
    <2>3. \A cb \in CallbackRow : cb.at = "read" =>
            /\ [cb EXCEPT !.at = "consumed"].at = "consumed"
            /\ [cb EXCEPT !.at = "consumed"].login = cb.login
      BY DEF CallbackRow
    <2>4. callback' = [callback EXCEPT ![c] = [callback[c] EXCEPT !.at = "consumed"]]
      BY <1>3 DEF ConsumeState, Goes
    <2>5. /\ callback'[c].at = "consumed" /\ callback'[c].login = callback[c].login
          /\ \A d \in Callback \ {c} : callback'[d] = callback[d]
      BY <2>1, <2>3, <2>4 DEF TypeOK
    <2>6. /\ loginState'[callback[c].login] = "gone"
          /\ \A u \in Attempt : loginState[u] = "gone" => loginState'[u] = "gone"
          /\ UNCHANGED <<redeemed, session>>
      BY <1>3, <2>2 DEF ConsumeState, Goes, TypeOK
    <2>7. \A d \in Callback : callback[d].at # "idle" => callback[d].login \in Attempt
      BY CallbackFields DEF TypeOK
    <2>8. \A s \in Session : session[s].login # NoAttempt => session[s].login \in Attempt
      BY DEF TypeOK, SessionRow
    <2>9. StateGone'
      BY <2>5, <2>6, <2>7 DEF LoginInv, StateGone, Past
    <2>10. CodeSpent'  BY <2>5, <2>6 DEF LoginInv, CodeSpent, Past
    <2>11. LoginCompletesOnce'  BY <2>6, <2>8 DEF LoginInv, LoginCompletesOnce
    <2> QED  BY <2>9, <2>10, <2>11 DEF LoginInv
  <1>4. ASSUME NEW c \in Callback, NEW claims \in Claims, Redeem(c, claims)  PROVE LoginInv'
    <2> DEFINE t == callback[c].login
    <2>1. /\ callback[c] \in CallbackRow /\ callback[c].at = "consumed" /\ t \notin redeemed
          /\ redeemed' = redeemed \cup {t} /\ UNCHANGED <<loginState, session>>
      BY <1>4 DEF Redeem, Goes, TypeOK
    <2>2. t \in Attempt /\ t # NoAttempt  BY <2>1, CallbackFields, LoginsAssumption
    <2>3. /\ callback'[c].at = "verified" /\ callback'[c].login = t
          /\ \A d \in Callback \ {c} : callback'[d] = callback[d]
      BY <1>4 DEF Redeem, Goes, TypeOK
    <2>4. \A s \in Session : session[s].login # t
      BY <2>1, <2>2 DEF LoginInv, CodeSpent
    <2>5. \A d \in Callback : Past(d) => callback[d].login # t
      BY <2>1 DEF LoginInv, CodeSpent
    <2>6. StateGone'  BY <2>1, <2>3 DEF LoginInv, StateGone, Past
    <2>7. CodeSpent'
      <3>1. \A d \in Callback \ {c} : Past(d)' <=> Past(d)  BY <2>3 DEF Past
      <3> QED  BY <2>1, <2>3, <2>4, <2>5, <3>1 DEF LoginInv, CodeSpent
    <2>8. LoginCompletesOnce'  BY <2>1 DEF LoginInv, LoginCompletesOnce
    <2> QED  BY <2>6, <2>7, <2>8 DEF LoginInv
  <1>5. ASSUME NEW c \in Callback, FindIdentity(c)  PROVE LoginInv'
    <2>1. Past(c)  BY <1>5 DEF FindIdentity, Past
    <2>2. /\ callback'[c].at = "searched" /\ callback'[c].login = callback[c].login
          /\ \A d \in Callback \ {c} : callback'[d] = callback[d]
          /\ UNCHANGED <<loginState, redeemed, session>>
      BY <1>5 DEF FindIdentity, Goes, TypeOK
    <2> QED  BY <2>1, <2>2, LoginAdvances
  <1>6. ASSUME NEW c \in Callback, LoadAccount(c)  PROVE LoginInv'
    <2>1. Past(c)  BY <1>6 DEF LoadAccount, Past
    <2>2. PICK a \in AccountFor(callback[c].owner, callback[c].claims.email) :
            Goes(c, [at |-> "loaded", login |-> callback[c].login, claims |-> callback[c].claims,
                     owner |-> callback[c].owner, user |-> a,
                     active |-> IF a = NoAccount THEN TRUE ELSE account[a].status = "active",
                     had |-> IF a = NoAccount THEN {} ELSE roles[a]])
      BY <1>6 DEF LoadAccount
    <2>3. /\ callback'[c].at = "loaded" /\ callback'[c].login = callback[c].login
          /\ \A d \in Callback \ {c} : callback'[d] = callback[d]
          /\ UNCHANGED <<loginState, redeemed, session>>
      BY <1>6, <2>2 DEF LoadAccount, Goes, TypeOK
    <2> QED  BY <2>1, <2>3, LoginAdvances
  <1>7. ASSUME NEW c \in Callback, NEW s \in Session, EnterAccount(c, s)  PROVE LoginInv'
    BY <1>7, LoginCommits DEF EnterAccount, Past
  <1>8. ASSUME NEW c \in Callback, NEW a \in Account, NEW s \in Session, CreateAccount(c, a, s)
        PROVE  LoginInv'
    BY <1>8, LoginCommits DEF CreateAccount, Past
  <1>9. ASSUME NEW c \in Callback, AbandonCallback(c)  PROVE LoginInv'
    <2>1. /\ callback'[c].at = "idle" /\ \A d \in Callback \ {c} : callback'[d] = callback[d]
          /\ UNCHANGED <<loginState, redeemed, session>>
      BY <1>9 DEF AbandonCallback, Goes, TypeOK
    <2>2. StateGone' /\ CodeSpent' /\ LoginCompletesOnce'
      BY <2>1 DEF LoginInv, StateGone, CodeSpent, Past, LoginCompletesOnce
    <2> QED  BY <2>2 DEF LoginInv
  <1>10. ASSUME NEW a \in Account, NEW s \in Session, DevLogin(a, s)  PROVE LoginInv'
    <2>1. /\ session'[s].login = NoAttempt
          /\ \A q \in Session \ {s} : session'[q].login = session[q].login
          /\ UNCHANGED <<loginState, redeemed, callback>>
      BY <1>10 DEF DevLogin, CreateSession, TypeOK, loginVars
    <2>2. \A c \in Callback : Past(c) => callback[c].login # NoAttempt
      BY CallbackFields, LoginsAssumption DEF Past, TypeOK
    <2>3. StateGone'  BY <2>1 DEF LoginInv, StateGone, Past
    <2>4. CodeSpent'  BY <2>1, <2>2 DEF LoginInv, CodeSpent, Past
    <2>5. LoginCompletesOnce'  BY <2>1 DEF LoginInv, LoginCompletesOnce
    <2> QED  BY <2>3, <2>4, <2>5 DEF LoginInv
  <1>11. ASSUME NEW s \in Session, ExpireSession(s)  PROVE LoginInv'
    BY <1>11, EndedSession, LoginFrame DEF ExpireSession, loginVars
  <1> QED
    BY <1>1, <1>2, <1>3, <1>4, <1>5, <1>6, <1>7, <1>8, <1>9, <1>10, <1>11 DEF LoginsNext

-----------------------------------------------------------------------------
\* Accounts: a person is bound once

\* What a callback has read of identities and accounts still holds.
AccountFound(c) ==
  /\ callback[c].at \in {"searched", "loaded"} /\ callback[c].owner # NoAccount =>
       identity[callback[c].claims.sub] = callback[c].owner
  /\ callback[c].at = "loaded" =>
       /\ callback[c].user # NoAccount => Exists(callback[c].user)
       /\ callback[c].owner # NoAccount => callback[c].user = callback[c].owner

IdentityKnown == \A p \in Person : identity[p] # NoAccount => Exists(identity[p])

SessionKnown == \A s \in Session : session[s].person # Dev => session[s].user # NoAccount

PeopleInv ==
  /\ \A c \in Callback : AccountFound(c)
  /\ IdentityKnown /\ SessionKnown /\ OneAccountPerPerson /\ SessionOfPerson

\* Steps that leave accounts alone but for their status.
LEMMA PeopleFrame ==
  ASSUME PeopleInv, UNCHANGED <<identity, callback>>,
         \A a \in Account : /\ Exists(a)' <=> Exists(a)
                            /\ account'[a].email = account[a].email
                            /\ account'[a].subject = account[a].subject,
         \A s \in Session : session'[s].user = session[s].user
                            /\ session'[s].person = session[s].person,
         TypeOK
  PROVE  PeopleInv'
  <1>1. \A c \in Callback : callback[c].at = "loaded" =>
          callback[c].user \in Account \cup {NoAccount}
    BY CallbackFields DEF TypeOK
  <1>2. ASSUME NEW c \in Callback  PROVE AccountFound(c)'
    BY <1>1 DEF PeopleInv, AccountFound
  <1>3. IdentityKnown'  BY DEF PeopleInv, IdentityKnown, TypeOK
  <1>4. SessionKnown'  BY DEF PeopleInv, SessionKnown
  <1>5. OneAccountPerPerson'  BY DEF PeopleInv, OneAccountPerPerson
  <1>6. SessionOfPerson'  BY DEF PeopleInv, SessionOfPerson
  <1> QED  BY <1>2, <1>3, <1>4, <1>5, <1>6 DEF PeopleInv

\* Steps of one callback.
LEMMA PeopleWait ==
  ASSUME PeopleInv, UNCHANGED <<account, identity, session>>,
         NEW c \in Callback, \A d \in Callback \ {c} : callback'[d] = callback[d],
         AccountFound(c)'
  PROVE  PeopleInv'
  <1>1. ASSUME NEW d \in Callback  PROVE AccountFound(d)'
    <2>1. CASE d = c  BY <2>1
    <2>2. CASE d # c
      <3>1. callback'[d] = callback[d]  BY <2>2
      <3> QED  BY <3>1 DEF PeopleInv, AccountFound, Exists
    <2> QED  BY <2>1, <2>2
  <1>2. IdentityKnown' /\ SessionKnown'
    BY DEF PeopleInv, IdentityKnown, SessionKnown, Exists
  <1>3. OneAccountPerPerson' /\ SessionOfPerson'
    BY DEF PeopleInv, OneAccountPerPerson, SessionOfPerson, Exists
  <1> QED  BY <1>1, <1>2, <1>3 DEF PeopleInv

\* The commit of a callback: a session for person p and the account a it is
\* bound to, while who was bound stays bound.
LEMMA PeopleCommit ==
  ASSUME TypeOK, PeopleInv, NEW c \in Callback, NEW s \in Session,
         NEW p \in Person, NEW a \in Account, account'[a].status # "none", identity'[p] = a,
         \A q \in Person : identity[q] # NoAccount => identity'[q] = identity[q],
         \A q \in Person \ {p} : identity'[q] = identity[q],
         \A b \in Account : Exists(b) => account'[b].status # "none",
         callback' = [callback EXCEPT ![c] = [at |-> "idle"]],
         NEW t \in Attempt, CreateSession(s, a, t, p)
  PROVE  /\ \A d \in Callback : AccountFound(d)'
         /\ IdentityKnown' /\ SessionKnown' /\ SessionOfPerson'
  <1>1. /\ callback'[c].at = "idle"
        /\ \A d \in Callback \ {c} : callback'[d] = callback[d]
    BY DEF TypeOK
  <1>2. ASSUME NEW d \in Callback  PROVE AccountFound(d)'
    <2>1. CASE d = c  BY <1>1, <2>1 DEF AccountFound
    <2>2. CASE d # c
      <3>1. callback'[d] = callback[d] /\ callback[d] \in CallbackRow
        BY <1>1, <2>2 DEF TypeOK
      <3>2. callback[d].at \in {"searched", "loaded"} => callback[d].claims.sub \in Person
        BY <3>1, CallbackFields, ClaimFields
      <3>3. callback[d].at = "loaded" => callback[d].user \in Account \cup {NoAccount}
        BY <3>1, CallbackFields
      <3>4. AccountFound(d)  BY DEF PeopleInv
      <3>5. /\ callback'[d].at \in {"searched", "loaded"} /\ callback'[d].owner # NoAccount =>
                 identity'[callback'[d].claims.sub] = callback'[d].owner
        BY <3>1, <3>2, <3>4 DEF AccountFound
      <3>6. callback'[d].at = "loaded" /\ callback'[d].user # NoAccount =>
               account'[callback[d].user].status # "none"
        BY <3>1, <3>3, <3>4 DEF AccountFound
      <3> QED  BY <3>1, <3>4, <3>5, <3>6 DEF AccountFound, Exists
    <2> QED  BY <2>1, <2>2
  <1>3. IdentityKnown'
    BY DEF PeopleInv, IdentityKnown, TypeOK, Exists
  <1>4. /\ session'[s].person = p /\ session'[s].user = a
        /\ \A q \in Session \ {s} : session'[q] = session[q]
    BY DEF CreateSession, TypeOK
  <1>5. SessionKnown'  BY <1>4, LoginsAssumption DEF PeopleInv, SessionKnown
  <1>6. SessionOfPerson'
    <2>1. ASSUME NEW q \in Session, session'[q].person # Dev
          PROVE  identity'[session'[q].person] = session'[q].user
      <3>1. CASE q = s  BY <3>1, <1>4
      <3>2. CASE q # s
        <4>1. session'[q] = session[q] /\ session[q] \in SessionRow
          BY <3>2, <1>4 DEF TypeOK
        <4>2. session[q].person \in Person  BY <4>1, <2>1 DEF SessionRow
        <4>3. session[q].user # NoAccount /\ identity[session[q].person] = session[q].user
          BY <4>1, <2>1 DEF PeopleInv, SessionKnown, SessionOfPerson
        <4> QED  BY <4>1, <4>2, <4>3
      <3> QED  BY <3>1, <3>2
    <2> QED  BY <2>1 DEF SessionOfPerson
  <1> QED  BY <1>2, <1>3, <1>5, <1>6

LEMMA LoginsKeepPeople ==
  ASSUME TypeOK, PeopleInv, LoginsNext
  PROVE  PeopleInv'
  <1> USE DEF peopleVars
  <1>1. ASSUME NEW t \in Attempt, StartLogin(t) \/ LapseState(t)  PROVE PeopleInv'
    BY <1>1, PeopleFrame DEF StartLogin, LapseState, Exists
  <1>2. ASSUME NEW c \in Callback, NEW t \in Attempt, ReadState(c, t)  PROVE PeopleInv'
    <2>1. /\ callback'[c].at = "read" /\ \A d \in Callback \ {c} : callback'[d] = callback[d]
          /\ UNCHANGED <<account, identity, session>>
      BY <1>2 DEF ReadState, Goes, TypeOK
    <2> QED  BY <2>1, PeopleWait DEF AccountFound
  <1>3. ASSUME NEW c \in Callback, ConsumeState(c)  PROVE PeopleInv'
    <2>1. \A cb \in CallbackRow : cb.at = "read" => [cb EXCEPT !.at = "consumed"].at = "consumed"
      BY DEF CallbackRow
    <2>2. callback' = [callback EXCEPT ![c] = [callback[c] EXCEPT !.at = "consumed"]]
          /\ callback[c] \in CallbackRow /\ callback[c].at = "read"
      BY <1>3 DEF ConsumeState, Goes, TypeOK
    <2>3. /\ callback'[c].at = "consumed" /\ \A d \in Callback \ {c} : callback'[d] = callback[d]
          /\ UNCHANGED <<account, identity, session>>
      BY <1>3, <2>1, <2>2 DEF ConsumeState, Goes, TypeOK
    <2> QED  BY <2>3, PeopleWait DEF AccountFound
  <1>4. ASSUME NEW c \in Callback, NEW claims \in Claims, Redeem(c, claims)  PROVE PeopleInv'
    <2>1. /\ callback'[c].at = "verified" /\ \A d \in Callback \ {c} : callback'[d] = callback[d]
          /\ UNCHANGED <<account, identity, session>>
      BY <1>4 DEF Redeem, Goes, TypeOK
    <2> QED  BY <2>1, PeopleWait DEF AccountFound
  <1>5. ASSUME NEW c \in Callback, FindIdentity(c)  PROVE PeopleInv'
    <2>1. /\ callback'[c].at = "searched" /\ callback'[c].claims = callback[c].claims
          /\ callback'[c].owner = identity[callback[c].claims.sub]
          /\ \A d \in Callback \ {c} : callback'[d] = callback[d]
          /\ UNCHANGED <<account, identity, session>>
      BY <1>5 DEF FindIdentity, Goes, TypeOK
    <2> QED  BY <2>1, PeopleWait DEF AccountFound
  <1>6. ASSUME NEW c \in Callback, LoadAccount(c)  PROVE PeopleInv'
    <2>1. callback[c] \in CallbackRow /\ callback[c].at = "searched"
      BY <1>6 DEF TypeOK, LoadAccount
    <2>2. /\ callback[c].claims.sub \in Person
          /\ callback[c].owner \in Account \cup {NoAccount}
      BY <2>1, CallbackFields, ClaimFields
    <2>3. PICK a \in AccountFor(callback[c].owner, callback[c].claims.email) :
            Goes(c, [at |-> "loaded", login |-> callback[c].login, claims |-> callback[c].claims,
                     owner |-> callback[c].owner, user |-> a,
                     active |-> IF a = NoAccount THEN TRUE ELSE account[a].status = "active",
                     had |-> IF a = NoAccount THEN {} ELSE roles[a]])
      BY <1>6 DEF LoadAccount
    <2>4. /\ callback'[c].at = "loaded" /\ callback'[c].claims = callback[c].claims
          /\ callback'[c].owner = callback[c].owner /\ callback'[c].user = a
          /\ \A d \in Callback \ {c} : callback'[d] = callback[d]
          /\ UNCHANGED <<account, identity, session>>
      BY <2>3 DEF Goes, TypeOK
    <2>5. callback[c].owner # NoAccount =>
            /\ identity[callback[c].claims.sub] = callback[c].owner
            /\ Exists(callback[c].owner)
      BY <2>1, <2>2 DEF PeopleInv, AccountFound, IdentityKnown
    <2>6. (a # NoAccount => Exists(a)) /\ (callback[c].owner # NoAccount => a = callback[c].owner)
      BY <2>3, <2>5 DEF AccountFor, WithEmail
    <2>7. AccountFound(c)'  BY <2>4, <2>5, <2>6 DEF AccountFound, Exists
    <2> QED  BY <2>4, <2>7, PeopleWait
  <1>7. ASSUME NEW c \in Callback, NEW s \in Session, EnterAccount(c, s)  PROVE PeopleInv'
    <2> DEFINE a == callback[c].user
               p == callback[c].claims.sub
               t == callback[c].login
    <2>1. callback[c] \in CallbackRow /\ callback[c].at = "loaded" /\ a # NoAccount
      BY <1>7 DEF TypeOK, EnterAccount
    <2>2. a \in Account /\ p \in Person /\ t \in Attempt  BY <2>1, CallbackFields, ClaimFields
    <2>3. /\ Exists(a)
          /\ callback[c].owner # NoAccount => a = callback[c].owner /\ identity[p] = a
          /\ callback[c].owner = NoAccount => identity[p] = NoAccount
      BY <1>7, <2>1 DEF PeopleInv, AccountFound, EnterAccount, Unbound
    <2>4. identity' = IF callback[c].owner # NoAccount THEN identity ELSE [identity EXCEPT ![p] = a]
      BY <1>7 DEF EnterAccount, Bind
    <2>5. CreateSession(s, a, t, p) /\ account' = account
          /\ callback' = [callback EXCEPT ![c] = [at |-> "idle"]]
      BY <1>7 DEF EnterAccount
    <2> HIDE DEF a, p, t
    <2>6. /\ identity'[p] = a
          /\ \A q \in Person : identity[q] # NoAccount => identity'[q] = identity[q]
          /\ \A q \in Person \ {p} : identity'[q] = identity[q]
      BY <2>2, <2>3, <2>4 DEF TypeOK
    <2>7. /\ account'[a].status # "none"
          /\ \A b \in Account : Exists(b) => account'[b].status # "none"
      BY <2>3, <2>5 DEF Exists
    <2>8. /\ \A d \in Callback : AccountFound(d)'
          /\ IdentityKnown' /\ SessionKnown' /\ SessionOfPerson'
      BY <2>2, <2>5, <2>6, <2>7, PeopleCommit
    <2>9. OneAccountPerPerson'
      <3>1. \A b \in Account : Exists(b) /\ account[b].subject # Dev => account[b].subject \in Person
        BY DEF TypeOK, AccountRow
      <3>2. \A b \in Account : b # NoAccount  BY LoginsAssumption
      <3> QED  BY <3>1, <3>2, <2>5, <2>6 DEF PeopleInv, OneAccountPerPerson, Exists
    <2> QED  BY <2>8, <2>9 DEF PeopleInv
  <1>8. ASSUME NEW c \in Callback, NEW a \in Account, NEW s \in Session, CreateAccount(c, a, s)
        PROVE  PeopleInv'
    <2> DEFINE claims == callback[c].claims
               p == claims.sub
               t == callback[c].login
    <2>1. callback[c] \in CallbackRow /\ callback[c].at = "loaded"
      BY <1>8 DEF TypeOK, CreateAccount
    <2>2. p \in Person /\ t \in Attempt /\ claims.email \in Email
      BY <2>1, CallbackFields, ClaimFields
    <2>3. /\ ~Exists(a) /\ identity[p] = NoAccount /\ Insertable(claims)
          /\ identity' = [identity EXCEPT ![p] = a]
          /\ account' = [account EXCEPT ![a] = [status |-> "active", email |-> claims.email,
                                                subject |-> p]]
      BY <1>8 DEF CreateAccount
    <2>4. CreateSession(s, a, t, p) /\ callback' = [callback EXCEPT ![c] = [at |-> "idle"]]
      BY <1>8 DEF CreateAccount
    <2>5. \A b \in Account : Exists(b) =>
            account[b].email # claims.email /\ account[b].subject # p
      BY <2>3 DEF Insertable
    <2> DEFINE email == claims.email
    <2> HIDE DEF p, t, claims
    <2>6. /\ account'[a].status = "active" /\ account'[a].email = email /\ account'[a].subject = p
          /\ \A b \in Account \ {a} : account'[b] = account[b]
      BY <2>3 DEF TypeOK
    <2>7. /\ identity'[p] = a
          /\ \A q \in Person : identity[q] # NoAccount => identity'[q] = identity[q]
          /\ \A q \in Person \ {p} : identity'[q] = identity[q]
      BY <2>2, <2>3 DEF TypeOK
    <2>8. /\ account'[a].status # "none"
          /\ \A b \in Account : Exists(b) => account'[b].status # "none"
      BY <2>3, <2>6 DEF Exists
    <2>9. /\ \A d \in Callback : AccountFound(d)'
          /\ IdentityKnown' /\ SessionKnown' /\ SessionOfPerson'
      BY <2>2, <2>4, <2>7, <2>8, PeopleCommit
    <2>10. ASSUME NEW b \in Account, Exists(b)', b # a
           PROVE  /\ Exists(b) /\ account'[b] = account[b]
                  /\ account[b].email # email /\ account[b].subject # p
      BY <2>5, <2>6, <2>10 DEF Exists
    <2>11. ASSUME NEW b \in Account, Exists(b)', account'[b].subject # Dev
           PROVE  identity'[account'[b].subject] = b
      <3>1. CASE b = a  BY <3>1, <2>6, <2>7
      <3>2. CASE b # a
        <4>1. Exists(b) /\ account'[b] = account[b]  BY <3>2, <2>10, <2>11
        <4>2. account[b].subject \in Person  BY <4>1, <2>11 DEF TypeOK, AccountRow
        <4>3. identity[account[b].subject] = b /\ b # NoAccount
          BY <4>1, <2>11, LoginsAssumption DEF PeopleInv, OneAccountPerPerson
        <4> QED  BY <4>1, <4>2, <4>3, <2>7
      <3> QED  BY <3>1, <3>2
    <2>12. ASSUME NEW b \in Account, NEW d \in Account, Exists(b)', Exists(d)',
                  account'[b].email = account'[d].email
           PROVE  b = d
      <3>1. CASE b # a /\ d # a
        BY <3>1, <2>10, <2>12 DEF PeopleInv, OneAccountPerPerson
      <3>2. CASE b = a \/ d = a
        BY <3>2, <2>6, <2>10, <2>12
      <3> QED  BY <3>1, <3>2
    <2>13. OneAccountPerPerson'  BY <2>11, <2>12 DEF OneAccountPerPerson
    <2> QED  BY <2>9, <2>13 DEF PeopleInv
  <1>9. ASSUME NEW c \in Callback, AbandonCallback(c)  PROVE PeopleInv'
    <2>1. /\ callback'[c].at = "idle" /\ \A d \in Callback \ {c} : callback'[d] = callback[d]
          /\ UNCHANGED <<account, identity, session>>
      BY <1>9 DEF AbandonCallback, Goes, TypeOK
    <2> QED  BY <2>1, PeopleWait DEF AccountFound
  <1>10. ASSUME NEW a \in Account, NEW s \in Session, DevLogin(a, s)  PROVE PeopleInv'
    <2>1. /\ UNCHANGED <<account, identity, callback>> /\ session'[s].person = Dev
          /\ \A q \in Session \ {s} : session'[q] = session[q]
      BY <1>10 DEF DevLogin, CreateSession, loginVars, TypeOK
    <2>2. \A c \in Callback : AccountFound(c)'
      BY <2>1 DEF PeopleInv, AccountFound, Exists
    <2>3. IdentityKnown' /\ OneAccountPerPerson'
      BY <2>1 DEF PeopleInv, IdentityKnown, OneAccountPerPerson, Exists
    <2>4. SessionKnown' /\ SessionOfPerson'
      BY <2>1 DEF PeopleInv, SessionKnown, SessionOfPerson
    <2> QED  BY <2>2, <2>3, <2>4 DEF PeopleInv
  <1>11. ASSUME NEW s \in Session, ExpireSession(s)  PROVE PeopleInv'
    BY <1>11, EndedSession, PeopleFrame DEF ExpireSession, loginVars, Exists
  <1> QED
    BY <1>1, <1>2, <1>3, <1>4, <1>5, <1>6, <1>7, <1>8, <1>9, <1>10, <1>11 DEF LoginsNext

-----------------------------------------------------------------------------
\* Requests: what they found, and what they leave alone

\* The account a grant or a change of status has found is still there.
RequestFound ==
  \A r \in Request :
    request[r].at = "found" /\ request[r].op.op \in {"grant", "setStatus"} =>
      Exists(request[r].op.user)

\* Only accounts have roles.
GhostRoles == \A a \in Account : ~Exists(a) => roles[a] = {}

GrantInv == RequestFound /\ GhostRoles

\* No request is found after a commit that was not found before.
LEMMA CommitKeeps ==
  ASSUME TypeOK, NEW r \in Request, NEW lost, Commits(r, lost), NEW q \in Request,
         request'[q].at = "found"
  PROVE  /\ q # r /\ request[q].at = "found" /\ request'[q].op = request[q].op
         /\ request'[q].seen = "differs" => request[q].seen = "differs"
  BY CommitFacts

LEMMA SeenKeeps ==
  ASSUME TypeOK, NEW r \in Request, NEW what, Sees(r, what)
  PROVE  /\ request'[r].at = "found" /\ request'[r].op = request[r].op /\ request'[r].seen = what
         /\ \A q \in Request \ {r} : request'[q] = request[q]
  BY DEF Sees, TypeOK

\* The end and the begin of a request, of which nothing is found.
LEMMA OtherKept ==
  ASSUME TypeOK, NEW r \in Request,
         (\E s \in Session, o \in Operations : Begin(r, s, o)) \/ EndRequest(r)
  PROVE  /\ UNCHANGED <<account, identity, roles, session, loginState, redeemed, callback,
                        team, member, contended>>
         /\ request'[r].at # "found"
         /\ \A q \in Request \ {r} : request'[q] = request[q]
  <1>1. CASE EndRequest(r)
    BY <1>1 DEF EndRequest, TypeOK, peopleVars, loginVars, teamVars
  <1>2. ASSUME NEW s \in Session, NEW o \in Operations, Begin(r, s, o)
        PROVE  /\ UNCHANGED <<account, identity, roles, session, loginState, redeemed, callback,
                              team, member, contended>>
               /\ request'[r].at # "found"
               /\ \A q \in Request \ {r} : request'[q] = request[q]
    BY <1>2 DEF Begin, TypeOK, peopleVars, loginVars, teamVars
  <1> QED  BY <1>1, <1>2

\* A change of status touches the status of an account that exists.
LEMMA StatusSet ==
  ASSUME TypeOK, GrantInv, NEW r \in Request, SetStatus(r)
  PROVE  \A a \in Account : /\ Exists(a)' <=> Exists(a)
                            /\ account'[a].email = account[a].email
                            /\ account'[a].subject = account[a].subject
  <1> DEFINE o == request[r].op
  <1>1. o \in Operations /\ o.op = "setStatus"  BY AskedOperation DEF SetStatus
  <1>2. o.user \in Account /\ o.status \in {"active", "disabled"}  BY <1>1, OperationFields
  <1>3. Exists(o.user)  BY <1>1 DEF GrantInv, RequestFound, SetStatus, Writes
  <1>4. CASE account' = account  BY <1>4 DEF Exists
  <1>5. CASE account' = [account EXCEPT ![o.user] = [account[o.user] EXCEPT !.status = o.status]]
    <2>1. \A row \in AccountRow : LET set == [row EXCEPT !.status = o.status] IN
            set.status = o.status /\ set.email = row.email /\ set.subject = row.subject
      BY DEF AccountRow
    <2>2. account[o.user] \in AccountRow  BY <1>2 DEF TypeOK
    <2>3. /\ account'[o.user].status = o.status
          /\ account'[o.user].email = account[o.user].email
          /\ account'[o.user].subject = account[o.user].subject
          /\ \A a \in Account \ {o.user} : account'[a] = account[a]
      BY <1>2, <1>5, <2>1, <2>2 DEF TypeOK
    <2>4. o.status # "none"  BY <1>2
    <2> HIDE DEF o
    <2>5. ASSUME NEW a \in Account
          PROVE  /\ account'[a].status # "none" <=> account[a].status # "none"
                 /\ account'[a].email = account[a].email
                 /\ account'[a].subject = account[a].subject
      <3>1. CASE a = o.user  BY <3>1, <2>3, <2>4, <1>3 DEF Exists
      <3>2. CASE a # o.user  BY <3>2, <2>3
      <3> QED  BY <3>1, <3>2
    <2> QED  BY <2>5 DEF Exists
  <1> QED  BY <1>4, <1>5 DEF SetStatus

\* Requests leave identities and logins alone, and of accounts and sessions
\* change the status only.
LEMMA RequestFrame ==
  ASSUME TypeOK, GrantInv, RequestsNext
  PROVE  /\ UNCHANGED <<identity, loginState, redeemed, callback>>
         /\ \A a \in Account : /\ Exists(a)' <=> Exists(a)
                               /\ account'[a].email = account[a].email
                               /\ account'[a].subject = account[a].subject
         /\ \A s \in Session : /\ session'[s].user = session[s].user
                               /\ session'[s].login = session[s].login
                               /\ session'[s].person = session[s].person
  <1> USE DEF peopleVars, loginVars, teamVars
  <1>1. PICK r \in Request :
         \/ \E s \in Session, o \in Operations : Begin(r, s, o)
         \/ FindGrant(r) \/ Grant(r) \/ FindRevoke(r) \/ Revoke(r)
         \/ FindStatus(r) \/ SetStatus(r)
         \/ CreateTeam(r) \/ DeleteTeam(r) \/ FindMember(r) \/ Join(r) \/ Leave(r)
         \/ Logout(r) \/ EndRequest(r)
    BY DEF RequestsNext
  <1>2. CASE SetStatus(r)
    BY <1>2, StatusSet DEF SetStatus
  <1>3. CASE Logout(r)
    <2>1. request[r].session \in Session  BY <1>3, AskedOperation DEF Logout, Asks
    <2> QED  BY <1>3, <2>1, EndedSession DEF Logout, Exists
  <1>4. CASE \/ \E s \in Session, o \in Operations : Begin(r, s, o)
             \/ EndRequest(r)
    BY <1>4, OtherKept DEF Exists
  <1>5. CASE FindGrant(r) \/ FindRevoke(r) \/ FindStatus(r) \/ FindMember(r)
    BY <1>5 DEF FindGrant, FindRevoke, FindStatus, FindMember, Sees, Exists
  <1>6. CASE Grant(r) \/ Revoke(r)
    BY <1>6 DEF Grant, Revoke, Exists
  <1>7. CASE CreateTeam(r) \/ DeleteTeam(r) \/ Join(r) \/ Leave(r)
    BY <1>7 DEF CreateTeam, DeleteTeam, Join, Leave, Exists
  <1> QED  BY <1>1, <1>2, <1>3, <1>4, <1>5, <1>6, <1>7

\* What a request found stays found through the commit of another.
LEMMA FoundAfterCommit ==
  ASSUME TypeOK, GrantInv, NEW r \in Request, NEW lost, Commits(r, lost),
         \A a \in Account : Exists(a)' <=> Exists(a)
  PROVE  RequestFound'
  <1>1. ASSUME NEW q \in Request, request'[q].at = "found",
               request'[q].op.op \in {"grant", "setStatus"}
        PROVE  account'[request'[q].op.user].status # "none"
    <2>1. request[q].at = "found" /\ request'[q].op = request[q].op
      BY <1>1, CommitKeeps
    <2>2. Exists(request[q].op.user)  BY <1>1, <2>1 DEF GrantInv, RequestFound
    <2>3. request[q].op \in Operations  BY <2>1, RequestFields DEF TypeOK
    <2>4. request[q].op.user \in Account  BY <1>1, <2>1, <2>3, OperationFields
    <2>5. \A a \in Account : account'[a].status # "none" <=> account[a].status # "none"
      BY DEF Exists
    <2> QED  BY <2>1, <2>2, <2>4, <2>5 DEF Exists
  <1> QED  BY <1>1 DEF RequestFound, Exists

LEMMA RequestsKeepGrants ==
  ASSUME TypeOK, GrantInv, RequestsNext
  PROVE  GrantInv'
  <1> USE DEF peopleVars, loginVars, teamVars
  <1>0. \A a \in Account : Exists(a)' <=> Exists(a)  BY RequestFrame
  <1>1. PICK r \in Request :
         \/ \E s \in Session, o \in Operations : Begin(r, s, o)
         \/ FindGrant(r) \/ Grant(r) \/ FindRevoke(r) \/ Revoke(r)
         \/ FindStatus(r) \/ SetStatus(r)
         \/ CreateTeam(r) \/ DeleteTeam(r) \/ FindMember(r) \/ Join(r) \/ Leave(r)
         \/ Logout(r) \/ EndRequest(r)
    BY DEF RequestsNext
  <1>2. RequestFound'
    <2>1. CASE Grant(r) \/ Revoke(r) \/ SetStatus(r)
      BY <2>1, <1>0, FoundAfterCommit DEF Grant, Revoke, SetStatus
    <2>2. CASE CreateTeam(r) \/ DeleteTeam(r) \/ Join(r) \/ Leave(r) \/ Logout(r)
      BY <2>2, <1>0, FoundAfterCommit DEF CreateTeam, DeleteTeam, Join, Leave, Logout
    <2>3. CASE (\E s \in Session, o \in Operations : Begin(r, s, o)) \/ EndRequest(r)
      <3>1. account' = account /\ request'[r].at # "found"
            /\ \A q \in Request \ {r} : request'[q] = request[q]
        BY <2>3, OtherKept
      <3> QED  BY <3>1 DEF GrantInv, RequestFound, Exists
    <2>4. ASSUME NEW what, Sees(r, what),
                 request[r].op.op \in {"grant", "setStatus"} => Exists(request[r].op.user)
          PROVE  RequestFound'
      <3>1. /\ request'[r].op = request[r].op
            /\ \A q \in Request \ {r} : request'[q] = request[q]
        BY <2>4, SeenKeeps
      <3>2. account' = account  BY <2>4 DEF Sees
      <3> QED  BY <2>4, <3>1, <3>2 DEF GrantInv, RequestFound, Exists
    <2>5. CASE FindGrant(r) \/ FindStatus(r)
      BY <2>4, <2>5 DEF FindGrant, FindStatus
    <2>6. CASE FindRevoke(r) \/ FindMember(r)
      BY <2>4, <2>6 DEF FindRevoke, FindMember, Asks
    <2> QED  BY <1>1, <2>1, <2>2, <2>3, <2>5, <2>6
  <1>3. ASSUME NEW a \in Account, ~Exists(a)  PROVE roles'[a] = {}
    <2>1. roles[a] = {}  BY <1>3 DEF GrantInv, GhostRoles
    <2>2. CASE Grant(r)
      <3>1. request[r].op.user # a
        BY <1>3, <2>2 DEF Grant, Writes, GrantInv, RequestFound
      <3> QED  BY <2>1, <2>2, <3>1 DEF Grant, TypeOK
    <2>3. CASE Revoke(r)
      <3>1. \/ roles' = roles
            \/ roles' = [roles EXCEPT ![request[r].op.user]
                           = roles[request[r].op.user] \ {request[r].op.role}]
        BY <2>3 DEF Revoke
      <3> QED  BY <2>1, <3>1 DEF TypeOK
    <2>4. CASE ~Grant(r) /\ ~Revoke(r)
      <3>1. roles' = roles
        BY <1>1, <2>4, OtherKept DEF FindGrant, FindRevoke, FindStatus, SetStatus, CreateTeam,
           DeleteTeam, FindMember, Join, Leave, Logout, Sees
      <3> QED  BY <2>1, <3>1
    <2> QED  BY <2>2, <2>3, <2>4
  <1>4. GhostRoles'
    <2>1. ASSUME NEW a \in Account, ~(account'[a].status # "none")  PROVE roles'[a] = {}
      BY <1>0, <1>3, <2>1 DEF Exists
    <2> QED  BY <2>1 DEF GhostRoles, Exists
  <1> QED  BY <1>2, <1>4 DEF GrantInv

LEMMA LoginsKeepGrants ==
  ASSUME TypeOK, PeopleInv, GrantInv, LoginsNext, UNCHANGED request
  PROVE  GrantInv'
  <1> USE DEF peopleVars, loginVars
  <1>1. ASSUME \A a \in Account : account[a].status # "none" => account'[a].status # "none",
               \A a \in Account : account'[a].status = "none" => roles'[a] = roles[a]
        PROVE  GrantInv'
    <2>1. ASSUME NEW q \in Request, request[q].at = "found",
                 request[q].op.op \in {"grant", "setStatus"}
          PROVE  account'[request[q].op.user].status # "none"
      <3>1. request[q].op \in Operations  BY <2>1, RequestFields DEF TypeOK
      <3>2. request[q].op.user \in Account  BY <2>1, <3>1, OperationFields
      <3>3. Exists(request[q].op.user)  BY <2>1 DEF GrantInv, RequestFound
      <3> QED  BY <1>1, <3>2, <3>3 DEF Exists
    <2>2. RequestFound'  BY <2>1 DEF RequestFound, Exists
    <2>3. GhostRoles'  BY <1>1 DEF GrantInv, GhostRoles, Exists
    <2> QED  BY <2>2, <2>3 DEF GrantInv
  <1>2. ASSUME NEW c \in Callback, NEW s \in Session, EnterAccount(c, s)  PROVE GrantInv'
    <2>1. Exists(callback[c].user) /\ account' = account
      BY <1>2 DEF EnterAccount, PeopleInv, AccountFound
    <2>2. roles' = [roles EXCEPT ![callback[c].user] = RolesAfter(callback[c])]
      BY <1>2 DEF EnterAccount
    <2>3. \A a \in Account : account'[a].status = "none" => roles'[a] = roles[a]
      BY <2>1, <2>2 DEF Exists, TypeOK
    <2> QED  BY <1>1, <2>1, <2>3
  <1>3. ASSUME NEW c \in Callback, NEW a \in Account, NEW s \in Session, CreateAccount(c, a, s)
        PROVE  GrantInv'
    <2>1. /\ account'[a].status = "active" /\ \A b \in Account \ {a} : account'[b] = account[b]
          /\ \A b \in Account \ {a} : roles'[b] = roles[b]
      BY <1>3 DEF CreateAccount, TypeOK
    <2> QED  BY <1>1, <2>1
  <1>4. ASSUME account' = account, roles' = roles  PROVE GrantInv'
    BY <1>1, <1>4
  <1>5. ASSUME NEW t \in Attempt, StartLogin(t) \/ LapseState(t)  PROVE GrantInv'
    BY <1>4, <1>5 DEF StartLogin, LapseState
  <1>6. ASSUME NEW c \in Callback, NEW t \in Attempt, ReadState(c, t)  PROVE GrantInv'
    BY <1>4, <1>6 DEF ReadState, Goes
  <1>7. ASSUME NEW c \in Callback,
               ConsumeState(c) \/ FindIdentity(c) \/ LoadAccount(c) \/ AbandonCallback(c)
        PROVE  GrantInv'
    BY <1>4, <1>7 DEF ConsumeState, FindIdentity, LoadAccount, AbandonCallback, Goes
  <1>8. ASSUME NEW c \in Callback, NEW claims \in Claims, Redeem(c, claims)  PROVE GrantInv'
    BY <1>4, <1>8 DEF Redeem, Goes
  <1>9. ASSUME NEW a \in Account, NEW s \in Session, DevLogin(a, s)  PROVE GrantInv'
    BY <1>4, <1>9 DEF DevLogin
  <1>10. ASSUME NEW s \in Session, ExpireSession(s)  PROVE GrantInv'
    BY <1>4, <1>10 DEF ExpireSession
  <1> QED  BY <1>2, <1>3, <1>5, <1>6, <1>7, <1>8, <1>9, <1>10 DEF LoginsNext

-----------------------------------------------------------------------------
\* Roles

\* Logins add roles.
LEMMA LoginsAddRoles ==
  ASSUME TypeOK, GrantInv, LoginsNext, NEW a \in Account
  PROVE  roles[a] \subseteq roles'[a]
  <1> USE DEF peopleVars, loginVars
  <1>1. ASSUME NEW c \in Callback, NEW s \in Session, EnterAccount(c, s)
        PROVE  roles[a] \subseteq roles'[a]
    <2>1. roles' = [roles EXCEPT ![callback[c].user] = roles[callback[c].user] \cup Added(callback[c])]
      BY <1>1 DEF EnterAccount, RolesAfter
    <2> QED  BY <2>1 DEF TypeOK
  <1>2. ASSUME NEW c \in Callback, NEW b \in Account, NEW s \in Session, CreateAccount(c, b, s)
        PROVE  roles[a] \subseteq roles'[a]
    <2>1. roles[b] = {}  BY <1>2 DEF CreateAccount, GrantInv, GhostRoles
    <2>2. \A d \in Account \ {b} : roles'[d] = roles[d]  BY <1>2 DEF CreateAccount, TypeOK
    <2> QED  BY <2>1, <2>2
  <1>3. ASSUME NEW t \in Attempt, StartLogin(t) \/ LapseState(t)  PROVE roles' = roles
    BY <1>3 DEF StartLogin, LapseState
  <1>4. ASSUME NEW c \in Callback, NEW t \in Attempt, ReadState(c, t)  PROVE roles' = roles
    BY <1>4 DEF ReadState, Goes
  <1>5. ASSUME NEW c \in Callback,
               ConsumeState(c) \/ FindIdentity(c) \/ LoadAccount(c) \/ AbandonCallback(c)
        PROVE  roles' = roles
    BY <1>5 DEF ConsumeState, FindIdentity, LoadAccount, AbandonCallback, Goes
  <1>6. ASSUME NEW c \in Callback, NEW claims \in Claims, Redeem(c, claims)  PROVE roles' = roles
    BY <1>6 DEF Redeem, Goes
  <1>7. ASSUME NEW b \in Account, NEW s \in Session, DevLogin(b, s)  PROVE roles' = roles
    BY <1>7 DEF DevLogin
  <1>8. ASSUME NEW s \in Session, ExpireSession(s)  PROVE roles' = roles
    BY <1>8 DEF ExpireSession
  <1> QED  BY <1>1, <1>2, <1>3, <1>4, <1>5, <1>6, <1>7, <1>8 DEF LoginsNext

\* Requests add roles, but for a revocation, which takes one.
LEMMA RequestRoles ==
  ASSUME TypeOK, NEW r \in Request,
         \/ \E s \in Session, o \in Operations : Begin(r, s, o)
         \/ FindGrant(r) \/ Grant(r) \/ FindRevoke(r) \/ Revoke(r)
         \/ FindStatus(r) \/ SetStatus(r)
         \/ CreateTeam(r) \/ DeleteTeam(r) \/ FindMember(r) \/ Join(r) \/ Leave(r)
         \/ Logout(r) \/ EndRequest(r)
  PROVE  /\ ~Revoke(r) => \A a \in Account : roles[a] \subseteq roles'[a]
         /\ Revoke(r) => \A a \in Account : roles[a] \ roles'[a] \subseteq {request[r].op.role}
  <1> USE DEF peopleVars, loginVars, teamVars
  <1>1. CASE Revoke(r)
    <2>1. \/ roles' = roles
          \/ roles' = [roles EXCEPT ![request[r].op.user]
                         = roles[request[r].op.user] \ {request[r].op.role}]
      BY <1>1 DEF Revoke
    <2> QED  BY <1>1, <2>1 DEF TypeOK
  <1>2. CASE Grant(r)
    <2>1. roles' = [roles EXCEPT ![request[r].op.user]
                      = roles[request[r].op.user] \cup {request[r].op.role}]
      BY <1>2 DEF Grant
    <2>2. \A a \in Account : roles[a] \subseteq roles'[a]  BY <2>1 DEF TypeOK
    <2> QED  BY <1>1, <2>2
  <1>3. CASE ~Grant(r) /\ ~Revoke(r)
    <2>1. roles' = roles
      BY <1>3, OtherKept DEF FindGrant, FindRevoke, FindStatus, SetStatus, CreateTeam,
         DeleteTeam, FindMember, Join, Leave, Logout, Sees
    <2> QED  BY <1>3, <2>1
  <1> QED  BY <1>1, <1>2, <1>3

LEMMA RolesStep ==
  ASSUME TypeOK, GrantInv, [Next]_vars
  PROVE  [\A a \in Account : \A p \in roles[a] \ roles'[a] :
            \E r \in Request : /\ Writes(r, "revoke")
                               /\ request[r].op.user = a /\ request[r].op.role = p]_vars
  <1>1. CASE LoginsNext  BY <1>1, LoginsAddRoles
  <1>2. CASE RequestsNext
    <2>1. PICK r \in Request :
         \/ \E s \in Session, o \in Operations : Begin(r, s, o)
         \/ FindGrant(r) \/ Grant(r) \/ FindRevoke(r) \/ Revoke(r)
         \/ FindStatus(r) \/ SetStatus(r)
         \/ CreateTeam(r) \/ DeleteTeam(r) \/ FindMember(r) \/ Join(r) \/ Leave(r)
         \/ Logout(r) \/ EndRequest(r)
      BY <1>2 DEF RequestsNext
    <2>2. CASE ~Revoke(r)
      <3>1. \A a \in Account : roles[a] \subseteq roles'[a]  BY <2>1, <2>2, RequestRoles
      <3> QED  BY <3>1
    <2>3. CASE Revoke(r)
      <3> DEFINE o == request[r].op
      <3>1. roles' = roles \/ roles' = [roles EXCEPT ![o.user] = @ \ {o.role}]
        BY <2>3 DEF Revoke
      <3>2. roles \in [Account -> SUBSET Role]  BY DEF TypeOK
      <3>3. ASSUME NEW a \in Account, NEW p \in roles[a] \ roles'[a]
            PROVE  o.user = a /\ o.role = p
        BY <3>1, <3>2, <3>3
      <3>4. Writes(r, "revoke")  BY <2>3 DEF Revoke
      <3> QED  BY <3>3, <3>4
    <2> QED  BY <2>2, <2>3
  <1>3. CASE UNCHANGED vars  BY <1>3
  <1> QED  BY <1>1, <1>2, <1>3 DEF Next

\* While no two revocations of an admin role have overlapped, the one under way
\* has seen two administrators, and there still are two.
AdminInv ==
  ~contended =>
    /\ Admins # {}
    /\ \A q, r \in Request : RevokesAdmin(q) /\ RevokesAdmin(r) => q = r
    /\ \A r \in Request : RevokesAdmin(r) /\ request[r].seen = "differs" => SeveralAdmins

\* Steps that add roles, and find no new revocation.
LEMMA AdminFrame ==
  ASSUME AdminInv, UNCHANGED contended,
         \A a \in Account : roles[a] \subseteq roles'[a],
         \A r \in Request : RevokesAdmin(r)' =>
           /\ RevokesAdmin(r)
           /\ request'[r].seen = "differs" => request[r].seen = "differs"
  PROVE  AdminInv'
  <1>1. \A a \in Account : a \in Admins => a \in Admins'  BY DEF Admins
  <1>2. Admins # {} => Admins' # {}  BY <1>1 DEF Admins
  <1>3. SeveralAdmins => SeveralAdmins'  BY <1>1 DEF SeveralAdmins, Admins
  <1> QED  BY <1>2, <1>3 DEF AdminInv

LEMMA LoginsKeepAdmin ==
  ASSUME TypeOK, GrantInv, AdminInv, LoginsNext, UNCHANGED <<request, contended>>
  PROVE  AdminInv'
  <1>1. \A a \in Account : roles[a] \subseteq roles'[a]  BY LoginsAddRoles
  <1>2. \A r \in Request : RevokesAdmin(r)' <=> RevokesAdmin(r)  BY DEF RevokesAdmin, Writes
  <1> QED  BY <1>1, <1>2, AdminFrame

LEMMA RevokeKeepsAdmin ==
  ASSUME TypeOK, AdminInv, NEW r \in Request, Revoke(r)
  PROVE  AdminInv'
  <1> DEFINE o == request[r].op
  <1>1. o.op = "revoke" /\ o \in Operations  BY AskedOperation DEF Revoke
  <1>2. o.user \in Account /\ o.role \in Role  BY <1>1, OperationFields
  <1>3. PICK lost : Commits(r, lost)  BY DEF Revoke
  <1>4. \A q \in Request : RevokesAdmin(q)' =>
          /\ q # r /\ RevokesAdmin(q)
          /\ request'[q].seen = "differs" => request[q].seen = "differs"
    BY <1>3, CommitKeeps DEF RevokesAdmin, Writes
  <1>5. contended' = contended  BY DEF Revoke
  <1>6. CASE roles' = roles
    <2>1. \A a \in Account : roles[a] \subseteq roles'[a]  BY <1>6
    <2> QED  BY <2>1, <1>4, <1>5, AdminFrame
  <1>7. CASE /\ request[r].seen = "differs"
             /\ roles' = [roles EXCEPT ![o.user] = roles[o.user] \ {o.role}]
    <2>1. CASE o.role # "admin"
      <3>1. \A a \in Account : "admin" \in roles'[a] <=> "admin" \in roles[a]
        BY <1>2, <1>7, <2>1 DEF TypeOK
      <3>2. Admins' = Admins  BY <3>1 DEF Admins
      <3>3. SeveralAdmins' <=> SeveralAdmins  BY <3>2 DEF SeveralAdmins
      <3> QED  BY <3>2, <3>3, <1>4, <1>5 DEF AdminInv
    <2>2. CASE o.role = "admin"
      <3> SUFFICES ASSUME ~contended  PROVE AdminInv'
        BY <1>5 DEF AdminInv
      <3>1. RevokesAdmin(r)  BY <2>2 DEF RevokesAdmin, Revoke
      <3>2. \A q \in Request : ~RevokesAdmin(q)'  BY <1>4, <3>1 DEF AdminInv
      <3>3. PICK a \in Admins, b \in Admins : a # b
        BY <1>7, <3>1 DEF AdminInv, SeveralAdmins
      <3>4. PICK d \in Admins : d # o.user  BY <3>3
      <3>5. d \in Account /\ "admin" \in roles'[d]
        BY <3>4, <1>7 DEF Admins, TypeOK
      <3>6. Admins' # {}  BY <3>5 DEF Admins
      <3> QED  BY <3>2, <3>6 DEF AdminInv
    <2> QED  BY <2>1, <2>2
  <1> QED  BY <1>6, <1>7 DEF Revoke

LEMMA FindRevokeKeepsAdmin ==
  ASSUME TypeOK, AdminInv, NEW r \in Request, FindRevoke(r)
  PROVE  AdminInv'
  <1>1. /\ request'[r].at = "found" /\ request'[r].op = request[r].op
        /\ \A q \in Request \ {r} : request'[q] = request[q]
    BY SeenKeeps DEF FindRevoke
  <1>2. roles' = roles  BY DEF FindRevoke, Sees, peopleVars
  <1>3. Admins' = Admins /\ (SeveralAdmins' <=> SeveralAdmins)
    BY <1>2 DEF Admins, SeveralAdmins
  <1>4. \A q \in Request \ {r} : RevokesAdmin(q)' <=> RevokesAdmin(q)
    BY <1>1 DEF RevokesAdmin, Writes
  <1>5. ~RevokesAdmin(r)  BY DEF FindRevoke, Asks, RevokesAdmin, Writes
  <1>6. CASE request[r].op.role = "admin"
    <2>1. SeveralAdmins  BY <1>6 DEF FindRevoke
    <2>2. ~contended' => ~contended /\ \A q \in Request : ~RevokesAdmin(q)
      BY <1>6 DEF FindRevoke
    <2>3. ~contended' => \A q \in Request : RevokesAdmin(q)' => q = r
      BY <2>2, <1>4
    <2> QED  BY <2>1, <2>2, <2>3, <1>3 DEF AdminInv
  <1>7. CASE request[r].op.role # "admin"
    <2>1. ~RevokesAdmin(r)'  BY <1>1, <1>7 DEF RevokesAdmin
    <2>2. contended' = contended  BY <1>7 DEF FindRevoke, TypeOK
    <2>3. \A q \in Request : RevokesAdmin(q)' => RevokesAdmin(q) /\ request'[q] = request[q]
      BY <2>1, <1>1, <1>4
    <2> QED  BY <2>2, <2>3, <1>3 DEF AdminInv
  <1> QED  BY <1>6, <1>7

LEMMA RequestsKeepAdmin ==
  ASSUME TypeOK, AdminInv, RequestsNext
  PROVE  AdminInv'
  <1> USE DEF peopleVars, loginVars, teamVars
  <1>1. PICK r \in Request :
         \/ \E s \in Session, o \in Operations : Begin(r, s, o)
         \/ FindGrant(r) \/ Grant(r) \/ FindRevoke(r) \/ Revoke(r)
         \/ FindStatus(r) \/ SetStatus(r)
         \/ CreateTeam(r) \/ DeleteTeam(r) \/ FindMember(r) \/ Join(r) \/ Leave(r)
         \/ Logout(r) \/ EndRequest(r)
    BY DEF RequestsNext
  <1>2. CASE Revoke(r)  BY <1>2, RevokeKeepsAdmin
  <1>3. CASE FindRevoke(r)  BY <1>3, FindRevokeKeepsAdmin
  <1>4. CASE ~Revoke(r) /\ ~FindRevoke(r)
    <2>1. \A a \in Account : roles[a] \subseteq roles'[a]  BY <1>1, <1>4, RequestRoles
    <2>2. contended' = contended
      BY <1>1, <1>4, OtherKept DEF FindGrant, Grant, FindStatus, SetStatus, CreateTeam,
         DeleteTeam, FindMember, Join, Leave, Logout
    <2>3. ASSUME NEW lost, Commits(r, lost)
          PROVE  \A q \in Request : RevokesAdmin(q)' =>
                   /\ RevokesAdmin(q)
                   /\ request'[q].seen = "differs" => request[q].seen = "differs"
      BY <2>3, CommitKeeps DEF RevokesAdmin, Writes
    <2>4. ASSUME NEW what, Sees(r, what), request[r].op.op # "revoke"
          PROVE  \A q \in Request : RevokesAdmin(q)' => RevokesAdmin(q) /\ request'[q] = request[q]
      BY <2>4, SeenKeeps DEF RevokesAdmin, Writes
    <2>5. CASE (\E s \in Session, o \in Operations : Begin(r, s, o)) \/ EndRequest(r)
      <3>1. \A q \in Request : RevokesAdmin(q)' => RevokesAdmin(q) /\ request'[q] = request[q]
        BY <2>5, OtherKept DEF RevokesAdmin, Writes
      <3> QED  BY <3>1, <2>1, <2>2, AdminFrame
    <2>6. CASE FindGrant(r) \/ FindStatus(r) \/ FindMember(r)
      <3>1. PICK what : Sees(r, what)
        BY <2>6 DEF FindGrant, FindStatus, FindMember
      <3>2. request[r].op.op # "revoke"
        BY <2>6 DEF FindGrant, FindStatus, FindMember, Asks
      <3>3. \A q \in Request : RevokesAdmin(q)' => RevokesAdmin(q) /\ request'[q] = request[q]
        BY <3>1, <3>2, <2>4
      <3> QED  BY <3>3, <2>1, <2>2, AdminFrame
    <2>7. CASE Grant(r) \/ SetStatus(r) \/ CreateTeam(r) \/ DeleteTeam(r) \/ Join(r) \/ Leave(r)
                 \/ Logout(r)
      <3>1. PICK lost : Commits(r, lost)
        BY <2>7 DEF Grant, SetStatus, CreateTeam, DeleteTeam, Join, Leave, Logout
      <3>2. \A q \in Request : RevokesAdmin(q)' =>
              /\ RevokesAdmin(q)
              /\ request'[q].seen = "differs" => request[q].seen = "differs"
        BY <3>1, <2>3
      <3> QED  BY <3>2, <2>1, <2>2, AdminFrame
    <2> QED  BY <1>1, <1>4, <2>5, <2>6, <2>7
  <1> QED  BY <1>2, <1>3, <1>4

-----------------------------------------------------------------------------
\* Teams

\* The row that a join has found and will update is there, unless the request
\* that deleted it has told it so.
JoinFound ==
  \A r \in Request :
    request[r].at = "found" /\ request[r].op.op = "join" /\ request[r].seen = "differs" =>
      member[request[r].op.team][request[r].op.user] # "none"

TeamInv == NoMembersOfGoneTeam /\ JoinFound

\* Steps that leave teams alone and find no new join.
LEMMA TeamFrame ==
  ASSUME TeamInv, UNCHANGED <<team, member>>,
         \A r \in Request :
           request'[r].at = "found" /\ request'[r].op.op = "join" /\ request'[r].seen = "differs" =>
             request[r].at = "found" /\ request'[r].op = request[r].op /\ request[r].seen = "differs"
  PROVE  TeamInv'
  <1>1. NoMembersOfGoneTeam'  BY DEF TeamInv, NoMembersOfGoneTeam
  <1>2. JoinFound'  BY DEF TeamInv, JoinFound
  <1> QED  BY <1>1, <1>2 DEF TeamInv

LEMMA JoinKeepsTeams ==
  ASSUME TypeOK, TeamInv, NEW r \in Request, Join(r)
  PROVE  TeamInv'
  <1> DEFINE o == request[r].op
             seen == request[r].seen
  <1>1. o \in Operations /\ o.op = "join" /\ request[r] \in RequestRow /\ request[r].at = "found"
    BY AskedOperation DEF Join, Writes
  <1>2. o.team \in Team /\ o.user \in Account /\ o.as \in {"member", "manager"}
    BY <1>1, OperationFields
  <1>3. Commits(r, {}) /\ team' = team  BY DEF Join
  <1>4. CASE seen = "same"
    <2>1. member' = member  BY <1>4 DEF Join
    <2> QED  BY <1>3, <2>1, CommitKeeps, TeamFrame
  <1>5. CASE seen # "same"
    <2>1. member' = [member EXCEPT ![o.team] = [member[o.team] EXCEPT ![o.user] = o.as]]
      BY <1>5 DEF Join
    <2>2. seen \in Seen  BY <1>1, RequestFields
    <2>3. team[o.team] = "live"
      <3>1. CASE seen = "absent"  BY <3>1 DEF Join, Joinable
      <3>2. CASE seen = "gone"  BY <3>2 DEF Join, Joinable
      <3>3. CASE seen = "differs"
        <4>1. member[o.team][o.user] # "none"  BY <1>1, <3>3 DEF TeamInv, JoinFound
        <4> QED  BY <4>1, <1>2 DEF TeamInv, NoMembersOfGoneTeam
      <3> QED  BY <1>5, <2>2, <3>1, <3>2, <3>3 DEF Seen
    <2> HIDE DEF o
    <2>4. \A t \in Team, a \in Account :
            /\ member'[t][a] = member[t][a] \/ t = o.team
            /\ member[t][a] # "none" => member'[t][a] # "none"
      <3> SUFFICES ASSUME NEW t \in Team, NEW a \in Account
                   PROVE  /\ member'[t][a] = member[t][a] \/ t = o.team
                          /\ member[t][a] # "none" => member'[t][a] # "none"
        OBVIOUS
      <3>1. CASE t = o.team
        <4>1. member'[t] = [member[o.team] EXCEPT ![o.user] = o.as]  BY <3>1, <2>1 DEF TypeOK
        <4>2. member[o.team] \in [Account -> {"none", "member", "manager"}]  BY <1>2 DEF TypeOK
        <4> QED  BY <3>1, <4>1, <4>2, <1>2
      <3>2. CASE t # o.team
        <4>1. member'[t] = member[t]  BY <3>2, <2>1 DEF TypeOK
        <4> QED  BY <4>1
      <3> QED  BY <3>1, <3>2
    <2>5. NoMembersOfGoneTeam'
      BY <1>3, <2>3, <2>4 DEF TeamInv, NoMembersOfGoneTeam
    <2>6. ASSUME NEW q \in Request, request'[q].at = "found", request'[q].op.op = "join",
                 request'[q].seen = "differs"
          PROVE  member'[request'[q].op.team][request'[q].op.user] # "none"
      <3>1. request[q].at = "found" /\ request'[q].op = request[q].op /\ request[q].seen = "differs"
        BY <1>3, <2>6, CommitKeeps
      <3>2. request[q].op \in Operations  BY <3>1, RequestFields DEF TypeOK
      <3>3. request[q].op.team \in Team /\ request[q].op.user \in Account
        BY <2>6, <3>1, <3>2, OperationFields
      <3>4. member[request[q].op.team][request[q].op.user] # "none"
        BY <2>6, <3>1 DEF TeamInv, JoinFound
      <3> QED  BY <3>1, <3>3, <3>4, <2>4
    <2>7. JoinFound'  BY <2>6 DEF JoinFound
    <2> QED  BY <2>5, <2>7 DEF TeamInv
  <1> QED  BY <1>4, <1>5

\* The rows that go are those of lost: a join that has found one of them learns it.
LEMMA RemovalKeepsTeams ==
  ASSUME TypeOK, TeamInv, NEW r \in Request, NEW t \in Team, NEW A, NEW lost, Commits(r, lost),
         \A u \in Team : team'[u] = team[u] \/ \A a \in Account : member'[u][a] = "none",
         \A u \in Team, a \in Account :
           member'[u][a] = IF u = t /\ a \in A THEN "none" ELSE member[u][a],
         \A o \in Operations : o.op = "join" /\ o.team = t /\ o.user \in A => o \in lost
  PROVE  TeamInv'
  <1>1. ASSUME NEW u \in Team, NEW a \in Account, team'[u] # "live"  PROVE member'[u][a] = "none"
    BY <1>1 DEF TeamInv, NoMembersOfGoneTeam
  <1>2. ASSUME NEW q \in Request, request'[q].at = "found", request'[q].op.op = "join",
               request'[q].seen = "differs"
        PROVE  member'[request'[q].op.team][request'[q].op.user] # "none"
    <2>1. /\ q # r /\ request[q].at = "found" /\ request'[q].op = request[q].op
          /\ request[q].seen = "differs"
      BY <1>2, CommitKeeps
    <2>2. request[q].op \in Operations  BY <2>1, RequestFields DEF TypeOK
    <2>3. request[q].op.team \in Team /\ request[q].op.user \in Account
      BY <1>2, <2>1, <2>2, OperationFields
    <2>4. member[request[q].op.team][request[q].op.user] # "none"
      BY <1>2, <2>1 DEF TeamInv, JoinFound
    <2>5. request[q].op \notin lost  BY <1>2, <2>1, CommitFacts
    <2>6. ~(request[q].op.team = t /\ request[q].op.user \in A)  BY <1>2, <2>1, <2>2, <2>5
    <2> QED  BY <2>1, <2>3, <2>4, <2>6
  <1> QED  BY <1>1, <1>2 DEF TeamInv, NoMembersOfGoneTeam, JoinFound

LEMMA RequestsKeepTeams ==
  ASSUME TypeOK, TeamInv, RequestsNext
  PROVE  TeamInv'
  <1> USE DEF peopleVars, loginVars, teamVars
  <1>1. PICK r \in Request :
         \/ \E s \in Session, o \in Operations : Begin(r, s, o)
         \/ FindGrant(r) \/ Grant(r) \/ FindRevoke(r) \/ Revoke(r)
         \/ FindStatus(r) \/ SetStatus(r)
         \/ CreateTeam(r) \/ DeleteTeam(r) \/ FindMember(r) \/ Join(r) \/ Leave(r)
         \/ Logout(r) \/ EndRequest(r)
    BY DEF RequestsNext
  <1> DEFINE o == request[r].op
  <1>2. CASE Join(r)  BY <1>2, JoinKeepsTeams
  <1>3. CASE DeleteTeam(r)
    <2>1. o \in Operations /\ o.op = "deleteTeam"  BY <1>3, AskedOperation DEF DeleteTeam
    <2>2. o.team \in Team  BY <2>1, OperationFields
    <2> DEFINE lost == {p \in Operations : p.op = "join" /\ p.team = o.team}
    <2>3. /\ Commits(r, lost)
          /\ team' = [team EXCEPT ![o.team] = "deleted"]
          /\ member' = [member EXCEPT ![o.team] = [a \in Account |-> "none"]]
      BY <1>3 DEF DeleteTeam
    <2>4. \A u \in Team : team'[u] = team[u] \/ \A a \in Account : member'[u][a] = "none"
      BY <2>3 DEF TypeOK
    <2>5. \A u \in Team, a \in Account :
            member'[u][a] = IF u = o.team /\ a \in Account THEN "none" ELSE member[u][a]
      BY <2>3 DEF TypeOK
    <2>6. \A p \in Operations : p.op = "join" /\ p.team = o.team /\ p.user \in Account => p \in lost
      OBVIOUS
    <2> HIDE DEF lost, o
    <2> QED  BY <2>2, <2>3, <2>4, <2>5, <2>6, RemovalKeepsTeams
  <1>4. CASE Leave(r)
    <2>1. o \in Operations /\ o.op = "leave"  BY <1>4, AskedOperation DEF Leave
    <2>2. o.team \in Team /\ o.user \in Account  BY <2>1, OperationFields
    <2> DEFINE lost == {p \in Operations : p.op = "join" /\ p.team = o.team /\ p.user = o.user}
    <2>3. /\ Commits(r, lost) /\ team' = team
          /\ member' = [member EXCEPT ![o.team] = [member[o.team] EXCEPT ![o.user] = "none"]]
      BY <1>4 DEF Leave
    <2>4. \A u \in Team, a \in Account :
            member'[u][a] = IF u = o.team /\ a \in {o.user} THEN "none" ELSE member[u][a]
      <3> HIDE DEF o
      <3> SUFFICES ASSUME NEW u \in Team, NEW a \in Account
                   PROVE  member'[u][a] = IF u = o.team /\ a \in {o.user} THEN "none" ELSE member[u][a]
        OBVIOUS
      <3>1. CASE u = o.team
        <4>1. member'[u] = [member[o.team] EXCEPT ![o.user] = "none"]  BY <3>1, <2>3 DEF TypeOK
        <4>2. member[o.team] \in [Account -> {"none", "member", "manager"}]  BY <2>2 DEF TypeOK
        <4> QED  BY <3>1, <4>1, <4>2, <2>2
      <3>2. CASE u # o.team
        <4>1. member'[u] = member[u]  BY <3>2, <2>3 DEF TypeOK
        <4> QED  BY <3>2, <4>1
      <3> QED  BY <3>1, <3>2
    <2>5. \A p \in Operations :
            p.op = "join" /\ p.team = o.team /\ p.user \in {o.user} => p \in lost
      OBVIOUS
    <2> HIDE DEF lost
    <2> QED  BY <2>2, <2>3, <2>4, <2>5, RemovalKeepsTeams
  <1>5. CASE CreateTeam(r)
    <2>1. o \in Operations /\ o.op = "createTeam"  BY <1>5, AskedOperation DEF CreateTeam
    <2>2. o.team \in Team  BY <2>1, OperationFields
    <2>3. /\ Commits(r, {}) /\ member' = member
          /\ \A u \in Team : team'[u] = "live" \/ team'[u] = team[u]
      BY <1>5, <2>2 DEF CreateTeam, TypeOK
    <2>4. NoMembersOfGoneTeam'  BY <2>3 DEF TeamInv, NoMembersOfGoneTeam
    <2>5. JoinFound'  BY <2>3, CommitKeeps DEF TeamInv, JoinFound
    <2> QED  BY <2>4, <2>5 DEF TeamInv
  <1>6. CASE FindMember(r)
    <2>1. PICK what :
            /\ Sees(r, what)
            /\ what = "differs" => member[o.team][o.user] # "none"
      BY <1>6 DEF FindMember
    <2>2. /\ request'[r].op = o /\ request'[r].seen = what
          /\ \A q \in Request \ {r} : request'[q] = request[q]
          /\ UNCHANGED <<team, member>>
      BY <2>1, SeenKeeps DEF Sees
    <2>3. NoMembersOfGoneTeam'  BY <2>2 DEF TeamInv, NoMembersOfGoneTeam
    <2>4. JoinFound'  BY <2>1, <2>2 DEF TeamInv, JoinFound
    <2> QED  BY <2>3, <2>4 DEF TeamInv
  <1>7. CASE Grant(r) \/ Revoke(r) \/ SetStatus(r) \/ Logout(r)
    <2>1. (\E lost : Commits(r, lost)) /\ UNCHANGED <<team, member>>
      BY <1>7 DEF Grant, Revoke, SetStatus, Logout
    <2> QED  BY <2>1, CommitKeeps, TeamFrame
  <1>8. CASE FindGrant(r) \/ FindRevoke(r) \/ FindStatus(r)
    <2>1. /\ \E what : Sees(r, what)
          /\ request[r].op.op # "join" /\ UNCHANGED <<team, member>>
      BY <1>8 DEF FindGrant, FindRevoke, FindStatus, Asks, Sees
    <2>2. request'[r].op.op # "join" /\ \A q \in Request \ {r} : request'[q] = request[q]
      BY <2>1, SeenKeeps
    <2> QED  BY <2>1, <2>2, TeamFrame
  <1>9. CASE (\E s \in Session, p \in Operations : Begin(r, s, p)) \/ EndRequest(r)
    BY <1>9, OtherKept, TeamFrame
  <1> QED  BY <1>1, <1>2, <1>3, <1>4, <1>5, <1>6, <1>7, <1>8, <1>9

-----------------------------------------------------------------------------
\* The inductive invariant

IInv == TypeOK /\ LoginInv /\ PeopleInv /\ GrantInv /\ AdminInv /\ TeamInv

LEMMA InitInv == ASSUME Init PROVE IInv
  <1>0. TypeOK  BY InitType
  <1>1. /\ \A c \in Callback : callback[c].at = "idle"
        /\ \A r \in Request : request[r].at = "idle"
        /\ \A s \in Session : session[s].login = NoAttempt /\ session[s].person = Dev
        /\ \A p \in Person : identity[p] = NoAccount
    BY DEF Init, LoginsInit, NoSession
  <1>2. LoginInv  BY <1>1 DEF LoginInv, StateGone, CodeSpent, Past, LoginCompletesOnce
  <1>3. PeopleInv
    <2>1. OneAccountPerPerson
      <3>1. \A a \in Account : Exists(a) =>
              a \in Seeded /\ account[a].email = SeedEmail[a] /\ account[a].subject = Dev
        BY DEF Init, LoginsInit, Seed, Exists, NoAccountRow
      <3> QED  BY <3>1, LoginsAssumption DEF OneAccountPerPerson
    <2> QED  BY <1>1, <2>1 DEF PeopleInv, AccountFound, IdentityKnown, SessionKnown, SessionOfPerson
  <1>4. GrantInv
    <2>1. \A a \in Account : ~Exists(a) => roles[a] = {}
      <3>1. \A a \in Account : a \in Seeded => Exists(a)
        BY DEF Init, LoginsInit, Seed, Exists
      <3>2. \A a \in Account : a \notin Seeded => roles[a] = {}  BY DEF Init, LoginsInit
      <3> QED  BY <3>1, <3>2
    <2> QED  BY <1>1, <2>1 DEF GrantInv, RequestFound, GhostRoles
  <1>5. AdminInv
    <2>1. PICK a \in Seeded : "admin" \in SeedRoles[a]  BY LoginsAssumption
    <2>2. a \in Account /\ "admin" \in roles[a]  BY <2>1, LoginsAssumption DEF Init, LoginsInit
    <2>3. Admins # {}  BY <2>2 DEF Admins
    <2> QED  BY <1>1, <2>3 DEF AdminInv, RevokesAdmin, Writes
  <1>6. TeamInv  BY <1>1 DEF Init, TeamInv, NoMembersOfGoneTeam, JoinFound
  <1> QED  BY <1>0, <1>2, <1>3, <1>4, <1>5, <1>6 DEF IInv

LEMMA NextInv == ASSUME IInv, [Next]_vars PROVE IInv'
  <1> USE DEF IInv
  <1>1. TypeOK'  BY NextType
  <1>2. CASE LoginsNext /\ UNCHANGED <<team, member, request, contended>>
    <2>1. LoginInv' /\ PeopleInv'  BY <1>2, LoginsKeepLogins, LoginsKeepPeople
    <2>2. GrantInv' /\ AdminInv'  BY <1>2, LoginsKeepGrants, LoginsKeepAdmin
    <2>3. TeamInv'  BY <1>2, TeamFrame
    <2> QED  BY <1>1, <2>1, <2>2, <2>3
  <1>3. CASE RequestsNext
    <2>1. LoginInv'  BY <1>3, RequestFrame, LoginFrame
    <2>2. PeopleInv'  BY <1>3, RequestFrame, PeopleFrame
    <2>3. GrantInv' /\ AdminInv' /\ TeamInv'
      BY <1>3, RequestsKeepGrants, RequestsKeepAdmin, RequestsKeepTeams
    <2> QED  BY <1>1, <2>1, <2>2, <2>3
  <1>4. CASE UNCHANGED vars
    <2> USE <1>4 DEF vars
    <2>1. LoginInv'  BY DEF LoginInv, StateGone, CodeSpent, Past, LoginCompletesOnce
    <2>2. PeopleInv'
      BY DEF PeopleInv, AccountFound, IdentityKnown, SessionKnown, OneAccountPerPerson,
             SessionOfPerson, Exists
    <2>3. GrantInv'  BY DEF GrantInv, RequestFound, GhostRoles, Exists
    <2>4. AdminInv'  BY DEF AdminInv, RevokesAdmin, Writes, SeveralAdmins, Admins
    <2>5. TeamInv'  BY DEF TeamInv, NoMembersOfGoneTeam, JoinFound
    <2> QED  BY <1>1, <2>1, <2>2, <2>3, <2>4, <2>5
  <1> QED  BY <1>2, <1>3, <1>4 DEF Next

LEMMA Inductive == Spec => []IInv
  <1>1. Init => IInv  BY InitInv
  <1>2. IInv /\ [Next]_vars => IInv'  BY NextInv
  <1> QED  BY <1>1, <1>2, PTL DEF Spec

\* However logins overlap, a person and an address have one account, and the
\* account that carries a subject is the one its identity is bound to.
THEOREM AccountsUnique == Spec => []OneAccountPerPerson
  <1>1. IInv => OneAccountPerPerson  BY DEF IInv, PeopleInv
  <1> QED  BY <1>1, Inductive, PTL

\* A session opened through the provider is, then and later, one of the account
\* its person is bound to.
THEOREM SessionsOfPersons == Spec => []SessionOfPerson
  <1>1. IInv => SessionOfPerson  BY DEF IInv, PeopleInv
  <1> QED  BY <1>1, Inductive, PTL

\* A login opens one session at most, after its state was removed, whatever is
\* repeated.
THEOREM LoginsOnce == Spec => []LoginCompletesOnce
  <1>1. IInv => LoginCompletesOnce  BY DEF IInv, LoginInv
  <1> QED  BY <1>1, Inductive, PTL

\* Unless two revocations of an admin role overlap, an administrator remains.
THEOREM AdminStays == Spec => []AdminRemains
  <1>1. IInv => AdminRemains  BY DEF IInv, AdminInv, AdminRemains
  <1> QED  BY <1>1, Inductive, PTL

\* A deleted team has no members, whoever was being added to it.
THEOREM GoneTeamsEmpty == Spec => []NoMembersOfGoneTeam
  <1>1. IInv => NoMembersOfGoneTeam  BY DEF IInv, TeamInv
  <1> QED  BY <1>1, Inductive, PTL

\* Only a revocation of that role of that account takes it away; no login does.
THEOREM RolesKept == Spec => RolesLostByRevocation
  <1>1. IInv /\ [Next]_vars =>
          [\A a \in Account : \A p \in roles[a] \ roles'[a] :
             \E r \in Request : /\ Writes(r, "revoke")
                                /\ request[r].op.user = a /\ request[r].op.role = p]_vars
    BY RolesStep DEF IInv
  <1> QED  BY <1>1, Inductive, PTL DEF Spec, RolesLostByRevocation

==============================================================================
