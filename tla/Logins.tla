------------------------------- MODULE Logins --------------------------------
(***************************************************************************)
(* services/auth_service.py and services/user_service.py: accounts, the    *)
(* identities bound to them, and the login through the identity provider   *)
(* that opens a session.                                                   *)
(*                                                                         *)
(* The callback of a login reads and deletes the login state in Redis with *)
(* two commands, trades the code at the provider, and then provisions the  *)
(* account and inserts the session in one transaction, whose reads are     *)
(* steps of their own: another callback or an administrator may commit     *)
(* between them, and only the unique constraints are tested at the commit. *)
(* The check of the ID token is one step that may take for ever: module    *)
(* OidcCache has the lock it waits for.                                    *)
(***************************************************************************)
EXTENDS Integers, FiniteSets

CONSTANTS
  Account,     \* rows of app_user
  Person,      \* subjects of the identity provider
  Email,
  Session,     \* rows of user_session
  Attempt,     \* logins started, each with its state, nonce and code
  Callback,    \* callbacks being handled at one time
  Claims,      \* what the ID tokens may say: [sub, email, groups]
  SeedEmail,   \* SeedEmail[a]: the address of an account of the seed script
  SeedRoles,   \* SeedRoles[a]: its roles
  NoAccount, NoAttempt, NoEmail

Role == {"admin", "manager", "member"}
Seeded == DOMAIN SeedRoles
Dev == "dev"  \* the subject dev:<email> that the seed script gives an account

ASSUME LoginsAssumption ==
  /\ Claims \subseteq [sub : Person, email : Email, groups : SUBSET Role]
  /\ Seeded \subseteq Account
  /\ SeedRoles \in [Seeded -> SUBSET Role]
  /\ SeedEmail \in [Seeded -> Email]
  /\ \A a, b \in Seeded : SeedEmail[a] = SeedEmail[b] => a = b
  /\ \E a \in Seeded : "admin" \in SeedRoles[a]
  /\ NoAccount \notin Account /\ NoAttempt \notin Attempt /\ NoEmail \notin Email
  /\ Dev \notin Person

VARIABLES
  account,     \* account[a]: its status, email and subject (ims_user_id)
  identity,    \* identity[p]: the account of subject p (ims_identity)
  roles,       \* roles[a]: its rows of user_role
  session,     \* session[s]: its status (over: expired or revoked) and user, and its login
  loginState,  \* loginState[t]: the key pkce:<state> in Redis
  redeemed,    \* the attempts whose code the provider has exchanged
  callback     \* callback[c]: where a callback is and what it has read

loginVars == <<loginState, redeemed, callback>>
peopleVars == <<account, identity, roles, session>>

AccountRow == [status : {"none", "active", "disabled"}, email : Email \cup {NoEmail},
               subject : Person \cup {Dev}]
SessionRow == [status : {"none", "live", "over"},
               user : Account \cup {NoAccount}, login : Attempt \cup {NoAttempt},
               person : Person \cup {Dev}]

NoAccountRow == [status |-> "none", email |-> NoEmail, subject |-> Dev]
NoSession == [status |-> "none", user |-> NoAccount, login |-> NoAttempt, person |-> Dev]

Exists(a) == account[a].status # "none"

\* The state of the database after scripts/seed_dev.py.
Seed(a) == IF a \in Seeded
           THEN [status |-> "active", email |-> SeedEmail[a], subject |-> Dev]
           ELSE NoAccountRow

LoginsInit ==
  /\ account = [a \in Account |-> Seed(a)]
  /\ identity = [p \in Person |-> NoAccount]
  /\ roles = [a \in Account |-> IF a \in Seeded THEN SeedRoles[a] ELSE {}]
  /\ session = [s \in Session |-> NoSession]
  /\ loginState = [t \in Attempt |-> "new"]
  /\ redeemed = {}
  /\ callback = [c \in Callback |-> [at |-> "idle"]]

-----------------------------------------------------------------------------
\* The organisation's switch can refuse this (module EmbedPolicy has the row).
StartLogin(t) ==
  /\ loginState[t] = "new"
  /\ loginState' = [loginState EXCEPT ![t] = "stored"]
  /\ UNCHANGED <<redeemed, callback, peopleVars>>

\* The key lives for _PKCE_TTL_SECONDS.
LapseState(t) ==
  /\ loginState[t] = "stored"
  /\ loginState' = [loginState EXCEPT ![t] = "gone"]
  /\ UNCHANGED <<redeemed, callback, peopleVars>>

Goes(c, next) ==
  /\ callback' = [callback EXCEPT ![c] = next]
  /\ UNCHANGED peopleVars

\* The browser comes back from the provider, or repeats its callback.
ReadState(c, t) ==
  /\ callback[c].at = "idle"
  /\ loginState[t] = "stored"
  /\ Goes(c, [at |-> "read", login |-> t])
  /\ UNCHANGED <<loginState, redeemed>>

\* Mutant: the state is left to lapse.
ConsumeNothing(c) ==
  /\ callback[c].at = "read"
  /\ Goes(c, [callback[c] EXCEPT !.at = "consumed"])
  /\ UNCHANGED <<loginState, redeemed>>

ConsumeState(c) ==
  /\ callback[c].at = "read"
  /\ loginState' = [loginState EXCEPT ![callback[c].login] = "gone"]
  /\ Goes(c, [callback[c] EXCEPT !.at = "consumed"])
  /\ UNCHANGED redeemed

\* The provider exchanges a code once.
Redeem(c, claims) ==
  /\ callback[c].at = "consumed"
  /\ callback[c].login \notin redeemed
  /\ redeemed' = redeemed \cup {callback[c].login}
  /\ Goes(c, [at |-> "verified", login |-> callback[c].login, claims |-> claims])
  /\ UNCHANGED loginState

\* First statement of the transaction: the identity of the subject.
FindIdentity(c) ==
  /\ callback[c].at = "verified"
  /\ Goes(c, [at |-> "searched", login |-> callback[c].login, claims |-> callback[c].claims,
              owner |-> identity[callback[c].claims.sub]])
  /\ UNCHANGED <<loginState, redeemed>>

WithEmail(e) == {a \in Account : Exists(a) /\ account[a].email = e}

\* Mutant: the address goes before the identity.
AccountByEmail(owner, e) ==
  IF WithEmail(e) # {} THEN WithEmail(e) ELSE {owner}

\* Without an identity the account is found by its address.
AccountFor(owner, e) ==
  IF owner # NoAccount THEN {owner}
  ELSE IF WithEmail(e) # {} THEN WithEmail(e) ELSE {NoAccount}

\* The account is read, with its status and its roles.
LoadAccount(c) ==
  /\ callback[c].at = "searched"
  /\ \E a \in AccountFor(callback[c].owner, callback[c].claims.email) :
       Goes(c, [at |-> "loaded", login |-> callback[c].login, claims |-> callback[c].claims,
                owner |-> callback[c].owner, user |-> a,
                active |-> IF a = NoAccount THEN TRUE ELSE account[a].status = "active",
                had |-> IF a = NoAccount THEN {} ELSE roles[a]])
  /\ UNCHANGED <<loginState, redeemed>>

\* Groups that no mapping names give the member role.
Target(groups) == IF groups = {} THEN {"member"} ELSE groups

\* Roles are only added.
Added(cb) == Target(cb.claims.groups) \ cb.had

\* uq_app_user_email and uq_app_user_ims_user_id.
Insertable(claims) ==
  \A a \in Account : Exists(a) => /\ account[a].email # claims.email
                                  /\ account[a].subject # claims.sub

\* _create_session, the token of which names the row.
CreateSession(s, a, t, p) ==
  /\ session[s].status = "none"
  /\ session' = [session EXCEPT ![s] = [status |-> "live", user |-> a, login |-> t, person |-> p]]

\* The commit of a callback that found no account.
CreateAccount(c, a, s) ==
  LET cb == callback[c] IN
  /\ cb.at = "loaded" /\ cb.user = NoAccount
  /\ ~Exists(a)
  /\ Insertable(cb.claims)
  /\ identity[cb.claims.sub] = NoAccount
  /\ account' = [account EXCEPT ![a] = [status |-> "active", email |-> cb.claims.email,
                                        subject |-> cb.claims.sub]]
  /\ identity' = [identity EXCEPT ![cb.claims.sub] = a]
  /\ roles' = [roles EXCEPT ![a] = Added(cb)]
  /\ CreateSession(s, a, cb.login, cb.claims.sub)
  /\ callback' = [callback EXCEPT ![c] = [at |-> "idle"]]
  /\ UNCHANGED <<loginState, redeemed>>

\* The identity is bound when the account was found by its address.
Bind(cb) ==
  IF cb.owner # NoAccount THEN identity ELSE [identity EXCEPT ![cb.claims.sub] = cb.user]

\* Mutant: without the unique constraint on the identity.
UnboundUntested(cb) == TRUE

\* uq_ims_identity_provider_subject refuses a second identity of the person.
Unbound(cb) == cb.owner = NoAccount => identity[cb.claims.sub] = NoAccount

\* Mutant: the roles become those of the groups.
RolesOfGroups(cb) == Target(cb.claims.groups)

RolesAfter(cb) == roles[cb.user] \cup Added(cb)

\* The commit of a callback that found an account, which had to be active.
EnterAccount(c, s) ==
  LET cb == callback[c] IN
  /\ cb.at = "loaded" /\ cb.user # NoAccount
  /\ cb.active
  /\ Unbound(cb)
  /\ Added(cb) \cap roles[cb.user] = {}  \* uq_user_role
  /\ identity' = Bind(cb)
  /\ roles' = [roles EXCEPT ![cb.user] = RolesAfter(cb)]
  /\ CreateSession(s, cb.user, cb.login, cb.claims.sub)
  /\ callback' = [callback EXCEPT ![c] = [at |-> "idle"]]
  /\ UNCHANGED <<account, loginState, redeemed>>

\* The provider refuses, the token is not valid, a claim is missing, the
\* account is disabled, a constraint fails or the process stops: the
\* transaction is rolled back, and what Redis and the provider did remains.
AbandonCallback(c) ==
  /\ callback[c].at # "idle"
  /\ Goes(c, [at |-> "idle"])
  /\ UNCHANGED <<loginState, redeemed>>

-----------------------------------------------------------------------------
\* dev_login, without the provider.
DevLogin(a, s) ==
  /\ account[a].status = "active"
  /\ CreateSession(s, a, NoAttempt, Dev)
  /\ UNCHANGED <<account, identity, roles, loginVars>>

\* Revoked by a logout, or expired: such a session is not valid again.
EndSession(s) == session' = [session EXCEPT ![s].status = "over"]

ExpireSession(s) ==
  /\ session[s].status = "live"
  /\ EndSession(s)
  /\ UNCHANGED <<account, identity, roles, loginVars>>

\* load_session: a request is served for the user of such a session.
Valid(s) ==
  /\ session[s].status = "live"
  /\ account[session[s].user].status = "active"

LoginsNext ==
  \/ \E t \in Attempt : StartLogin(t) \/ LapseState(t)
  \/ \E c \in Callback : \/ \E t \in Attempt : ReadState(c, t)
                         \/ ConsumeState(c)
                         \/ \E claims \in Claims : Redeem(c, claims)
                         \/ FindIdentity(c)
                         \/ LoadAccount(c)
                         \/ \E s \in Session : EnterAccount(c, s)
                         \/ \E a \in Account, s \in Session : CreateAccount(c, a, s)
                         \/ AbandonCallback(c)
  \/ \E a \in Account, s \in Session : DevLogin(a, s)
  \/ \E s \in Session : ExpireSession(s)

=============================================================================
