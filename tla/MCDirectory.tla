----------------------------- MODULE MCDirectory -----------------------------
EXTENDS Directory, TLC

CONSTANTS ada, bea, cy, e1, e2, e3, p1, p2, t1

\* The seed script has made two administrators.
Emails == ada :> e1 @@ bea :> e2
SeedAdmins == ada :> {"admin"} @@ bea :> {"admin"}

\* A new person under two addresses, one of them the address of a seeded
\* account, and a second person under the new address.
Tokens == {[sub |-> p1, email |-> e3, groups |-> {}],
           [sub |-> p1, email |-> e2, groups |-> {"admin"}],
           [sub |-> p2, email |-> e3, groups |-> {}]}

Requested ==
  {[op |-> "revoke", user |-> ada, role |-> "admin"],
   [op |-> "revoke", user |-> bea, role |-> "admin"],
   [op |-> "grant", user |-> bea, role |-> "admin"],
   [op |-> "setStatus", user |-> bea, status |-> "disabled"],
   [op |-> "join", team |-> t1, user |-> bea, as |-> "manager"],
   [op |-> "join", team |-> t1, user |-> bea, as |-> "member"],
   [op |-> "leave", team |-> t1, user |-> bea],
   [op |-> "createTeam", team |-> t1],
   [op |-> "deleteTeam", team |-> t1],
   [op |-> "logout"]}

\* At most two handlers at one time.
TwoHandlers ==
  Cardinality({c \in Callback : callback[c].at # "idle"})
    + Cardinality({r \in Request : request[r].at # "idle"}) <= 2

\* Teams change before the first code is redeemed.
TeamsFirst == (\E t \in Team : team[t] # "new") => redeemed = {}

\* Handlers, sessions and attempts are interchangeable.
Symmetry == Permutations(Callback) \cup Permutations(Request)
              \cup Permutations(Session) \cup Permutations(Attempt)

=============================================================================
