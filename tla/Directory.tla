------------------------------ MODULE Directory ------------------------------
(***************************************************************************)
(* The requests of signed-in users that change accounts: api/v1/admin      *)
(* users.py and teams.py with services/team_service.py, and the logout,    *)
(* beside the logins of module Logins.                                     *)
(*                                                                         *)
(* A request is authorised from the roles its user has when it begins      *)
(* (api/dependencies/auth.py), then reads what it is to change, and        *)
(* commits.  Nothing is locked between its steps, so the row it found may  *)
(* be gone, or hold another value, when it writes.                         *)
(***************************************************************************)
EXTENDS Logins

CONSTANTS
  Team,       \* rows of team
  Request,    \* requests being handled at one time
  Operations  \* the operations that are requested

AllOperations ==
  [op : {"grant", "revoke"}, user : Account, role : Role]
    \cup [op : {"setStatus"}, user : Account, status : {"active", "disabled"}]
    \cup [op : {"join"}, team : Team, user : Account, as : {"member", "manager"}]
    \cup [op : {"leave"}, team : Team, user : Account]
    \cup [op : {"createTeam", "deleteTeam"}, team : Team]
    \cup [op : {"logout"}]

ASSUME DirectoryAssumption == Operations \subseteq AllOperations

VARIABLES
  team,      \* team[t]: whether its row exists, or did
  member,    \* member[t][a]: the row of team_member of a in t
  request,   \* request[r]: where a request is, its operation and what it has seen
  contended  \* two revocations of an admin role have been under way at one time

vars == <<account, identity, roles, session, loginState, redeemed, callback,
          team, member, request, contended>>
teamVars == <<team, member>>

\* What the row to be changed was when it was read.  SQLAlchemy writes the
\* columns that differ from it, and by the key of that row.
Seen == {"absent", "same", "differs", "gone"}

Init ==
  /\ LoginsInit
  /\ team = [t \in Team |-> "new"]
  /\ member = [t \in Team |-> [a \in Account |-> "none"]]
  /\ request = [r \in Request |-> [at |-> "idle"]]
  /\ contended = FALSE

-----------------------------------------------------------------------------
\* require_admin, on every route of api/v1/admin.
Authorised(a, o) == o.op = "logout" \/ "admin" \in roles[a]

\* load_session and load_current_user.
Begin(r, s, o) ==
  /\ request[r].at = "idle"
  /\ Valid(s)
  /\ Authorised(session[s].user, o)
  /\ request' = [request EXCEPT ![r] = [at |-> "begun", session |-> s, op |-> o]]
  /\ UNCHANGED <<peopleVars, loginVars, teamVars, contended>>

\* Refused, not found, nothing to do, a failed statement or a lost client.
EndRequest(r) ==
  /\ request[r].at # "idle"
  /\ request' = [request EXCEPT ![r] = [at |-> "idle"]]
  /\ UNCHANGED <<peopleVars, loginVars, teamVars, contended>>

Asks(r, op) == request[r].at = "begun" /\ request[r].op.op = op
Writes(r, op) == request[r].at = "found" /\ request[r].op.op = op

Sees(r, what) ==
  /\ request' = [request EXCEPT ![r] = [at |-> "found", op |-> request[r].op, seen |-> what]]
  /\ UNCHANGED <<peopleVars, loginVars, teamVars>>

\* Request r has committed, and the other requests for the operations in lost,
\* if they found the row it deleted, will find it gone.
Commits(r, lost) ==
  request' = [q \in Request |->
    IF q = r THEN [at |-> "idle"]
    ELSE IF request[q].at = "found" /\ request[q].seen = "differs" /\ request[q].op \in lost
    THEN [request[q] EXCEPT !.seen = "gone"]
    ELSE request[q]]

-----------------------------------------------------------------------------
FindGrant(r) ==
  /\ Asks(r, "grant")
  /\ LET o == request[r].op IN Exists(o.user) /\ o.role \notin roles[o.user]
  /\ Sees(r, "absent")
  /\ UNCHANGED contended

Grant(r) ==
  /\ Writes(r, "grant")
  /\ LET o == request[r].op IN
       /\ o.role \notin roles[o.user]  \* uq_user_role
       /\ roles' = [roles EXCEPT ![o.user] = @ \cup {o.role}]
  /\ Commits(r, {})
  /\ UNCHANGED <<account, identity, session, loginVars, teamVars, contended>>

Admins == {a \in Account : "admin" \in roles[a]}

\* Mutant: an off-by-one in the test of the count.
AnyAdmin == Admins # {}

\* admin_count > 1, over all rows of user_role.
SeveralAdmins == \E a, b \in Admins : a # b

RevokesAdmin(r) == Writes(r, "revoke") /\ request[r].op.role = "admin"

FindRevoke(r) ==
  /\ Asks(r, "revoke")
  /\ LET o == request[r].op IN
       /\ o.role = "admin" => SeveralAdmins
       /\ o.role \in roles[o.user]
       /\ contended' = (contended \/ (o.role = "admin" /\ \E q \in Request : RevokesAdmin(q)))
  /\ Sees(r, "differs")

Revoke(r) ==
  /\ Writes(r, "revoke")
  /\ LET o == request[r].op
         lost == {p \in Operations : p.op = "revoke" /\ p.user = o.user /\ p.role = o.role} IN
       /\ \/ /\ request[r].seen = "differs"
             /\ roles' = [roles EXCEPT ![o.user] = @ \ {o.role}]
          \/ request[r].seen = "gone" /\ UNCHANGED roles
       /\ Commits(r, lost)
  /\ UNCHANGED <<account, identity, session, loginVars, teamVars, contended>>

FindStatus(r) ==
  /\ Asks(r, "setStatus")
  /\ LET o == request[r].op IN
       /\ Exists(o.user)
       /\ Sees(r, IF account[o.user].status = o.status THEN "same" ELSE "differs")
  /\ UNCHANGED contended

SetStatus(r) ==
  /\ Writes(r, "setStatus")
  /\ LET o == request[r].op IN
       account' = IF request[r].seen = "same" THEN account
                  ELSE [account EXCEPT ![o.user].status = o.status]
  /\ Commits(r, {})
  /\ UNCHANGED <<identity, roles, session, loginVars, teamVars, contended>>

-----------------------------------------------------------------------------
\* Names are unique among the teams there are, and each row is a new one.
CreateTeam(r) ==
  /\ Asks(r, "createTeam")
  /\ LET t == request[r].op.team IN
       /\ team[t] = "new"
       /\ team' = [team EXCEPT ![t] = "live"]
  /\ Commits(r, {})
  /\ UNCHANGED <<peopleVars, loginVars, member, contended>>

\* Mutant: the rows of the members lose their team instead.
DeleteTeamOnly(r) ==
  /\ Asks(r, "deleteTeam")
  /\ LET t == request[r].op.team IN
       /\ team[t] = "live"
       /\ team' = [team EXCEPT ![t] = "deleted"]
       /\ member' = [member EXCEPT ![t] = [a \in Account |-> "orphan"]]
       /\ Commits(r, {})
  /\ UNCHANGED <<peopleVars, loginVars, contended>>

\* The members go with the row (ON DELETE CASCADE).
DeleteTeam(r) ==
  /\ Asks(r, "deleteTeam")
  /\ LET t == request[r].op.team
         lost == {o \in Operations : o.op = "join" /\ o.team = t} IN
       /\ team[t] = "live"
       /\ team' = [team EXCEPT ![t] = "deleted"]
       /\ member' = [member EXCEPT ![t] = [a \in Account |-> "none"]]
       /\ Commits(r, lost)
  /\ UNCHANGED <<peopleVars, loginVars, contended>>

FindMember(r) ==
  /\ Asks(r, "join")
  /\ LET o == request[r].op
         was == member[o.team][o.user] IN
       /\ team[o.team] = "live"
       /\ Exists(o.user)
       /\ Sees(r, IF was = "none" THEN "absent" ELSE IF was = o.as THEN "same" ELSE "differs")
  /\ UNCHANGED contended

\* Mutant: without the foreign key on the team.
JoinableToAny(o, seen) ==
  CASE seen = "absent" -> member[o.team][o.user] = "none"
    [] seen = "gone" -> FALSE
    [] OTHER -> TRUE

\* The team and the row may have come or gone since they were read.
Joinable(o, seen) ==
  CASE seen = "absent" -> team[o.team] = "live" /\ member[o.team][o.user] = "none"
    [] seen = "gone" -> FALSE
    [] OTHER -> TRUE

Join(r) ==
  /\ Writes(r, "join")
  /\ LET o == request[r].op
         seen == request[r].seen IN
       /\ Joinable(o, seen)
       /\ member' = IF seen = "same" THEN member
                    ELSE [member EXCEPT ![o.team][o.user] = o.as]
  /\ Commits(r, {})
  /\ UNCHANGED <<peopleVars, loginVars, team, contended>>

Leave(r) ==
  /\ Asks(r, "leave")
  /\ LET l == request[r].op
         lost == {o \in Operations : o.op = "join" /\ o.team = l.team /\ o.user = l.user} IN
       /\ member[l.team][l.user] # "none"
       /\ member' = [member EXCEPT ![l.team][l.user] = "none"]
       /\ Commits(r, lost)
  /\ UNCHANGED <<peopleVars, loginVars, team, contended>>

-----------------------------------------------------------------------------
\* The session was valid when the request began, and is revoked whatever has
\* become of it: the copy that load_session read is the one tested.
Logout(r) ==
  /\ Asks(r, "logout")
  /\ EndSession(request[r].session)
  /\ Commits(r, {})
  /\ UNCHANGED <<account, identity, roles, loginVars, teamVars, contended>>

RequestsNext ==
  \E r \in Request :
    \/ \E s \in Session, o \in Operations : Begin(r, s, o)
    \/ FindGrant(r) \/ Grant(r) \/ FindRevoke(r) \/ Revoke(r)
    \/ FindStatus(r) \/ SetStatus(r)
    \/ CreateTeam(r) \/ DeleteTeam(r) \/ FindMember(r) \/ Join(r) \/ Leave(r)
    \/ Logout(r) \/ EndRequest(r)

Next ==
  \/ LoginsNext /\ UNCHANGED <<team, member, request, contended>>
  \/ RequestsNext

Spec == Init /\ [][Next]_vars
-----------------------------------------------------------------------------
\* The variables hold rows, keys and steps of their kinds.
CallbackRow ==
  [at : {"idle"}] \cup [at : {"read", "consumed"}, login : Attempt]
    \cup [at : {"verified"}, login : Attempt, claims : Claims]
    \cup [at : {"searched"}, login : Attempt, claims : Claims, owner : Account \cup {NoAccount}]
    \cup [at : {"loaded"}, login : Attempt, claims : Claims, owner : Account \cup {NoAccount},
          user : Account \cup {NoAccount}, active : BOOLEAN, had : SUBSET Role]

RequestRow ==
  [at : {"idle"}] \cup [at : {"begun"}, session : Session, op : Operations]
    \cup [at : {"found"}, op : Operations, seen : Seen]

\* Type invariant: rows, keys in Redis, callbacks and requests hold values of
\* their columns and steps.
TypeOK ==
  /\ account \in [Account -> AccountRow]
  /\ identity \in [Person -> Account \cup {NoAccount}]
  /\ roles \in [Account -> SUBSET Role]
  /\ session \in [Session -> SessionRow]
  /\ loginState \in [Attempt -> {"new", "stored", "gone"}]
  /\ redeemed \subseteq Attempt
  /\ callback \in [Callback -> CallbackRow]
  /\ team \in [Team -> {"new", "live", "deleted"}]
  /\ member \in [Team -> [Account -> {"none", "member", "manager"}]]
  /\ request \in [Request -> RequestRow]
  /\ contended \in BOOLEAN

\* However first logins of a person overlap, under one address or several,
\* there is one account for the person and one for the address, and the
\* account that carries a subject is the one its identity is bound to
\* (provision_from_ims).
OneAccountPerPerson ==
  /\ \A a, b \in Account : Exists(a) /\ Exists(b) /\ account[a].email = account[b].email => a = b
  /\ \A a \in Account : Exists(a) /\ account[a].subject # Dev => identity[account[a].subject] = a

\* A session opened through the provider belongs to the account its person is
\* bound to, then and ever after: no later login and no concurrent one binds
\* the person to another account (complete_oidc_login).
SessionOfPerson ==
  \A s \in Session : session[s].person # Dev => identity[session[s].person] = session[s].user

\* A login opens at most one session, and only after its state was removed,
\* though the state is read and deleted by two commands and a callback may be
\* repeated while the first is being handled (auth_service.py:334, "This
\* prevents replay of the same authorization callback").
LoginCompletesOnce ==
  \A s \in Session : session[s].login # NoAttempt =>
    /\ loginState[session[s].login] = "gone"
    /\ \A q \in Session : session[q].login = session[s].login => q = s

\* A role is lost through an administrator's revocation of it alone: a login adds
\* the roles that the groups name, whatever else was read or granted
\* meanwhile (ensure_user_roles).
RolesLostByRevocation ==
  [][\A a \in Account : \A p \in roles[a] \ roles'[a] :
       \E r \in Request : /\ Writes(r, "revoke")
                          /\ request[r].op.user = a /\ request[r].op.role = p]_vars

\* Unless two revocations of an admin role were under way at one time, an
\* account with the admin role remains (users.py:206, "Guard against locking
\* the last admin out of the org").  Overlapping revocations can leave none.
AdminRemains == ~contended => Admins # {}

\* A team that is gone has no members, though a request to add one had found
\* the team before it was deleted (add_member, delete_team).
NoMembersOfGoneTeam ==
  \A t \in Team : team[t] # "live" => \A a \in Account : member[t][a] = "none"

=============================================================================
