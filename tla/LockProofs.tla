------------------------------ MODULE LockProofs -------------------------------
(***************************************************************************)
(* What the locks of the backend do to the requests that wait for them:    *)
(* the asyncio.Lock of OidcCache, on which a callback waits for itself,    *)
(* and the locks in PostgreSQL of LockOrder, whose circular waits all have *)
(* one cause.                                                              *)
(***************************************************************************)
EXTENDS LockOrder, OidcCache, FiniteSetTheorems, TLAPS

(***************************************************************************)
(* The lock of the cache of the provider's keys.                           *)
(***************************************************************************)

Stops == {"over", "discovery", "fetch", "exchange", "keys", "inner discovery"}

\* No request gets past the discovery() that jwks() calls: it has the lock it
\* asks for, and nobody else fetches anything meanwhile.
KeysInv ==
  /\ request \in [Caller -> [call : Call, at : Stops, force : {FALSE}]]
  /\ queue \in Seq(Caller \X {"discovery", "jwks"})
  /\ keys = "none"
  /\ \A r \in Caller :
       /\ request[r].at = "fetch" => Has(r, "discovery")
       /\ request[r].at = "inner discovery" => Has(r, "jwks")

\* However many logins, callbacks and logouts there are, the key set of the
\* provider is never fetched (jwks() in core/oidc.py).
KeysNeverCached == keys = "none"

HeldOnto ==
  \A q \in Caller : request[q].at = "inner discovery" =>
    request'[q] = request[q] /\ Head(queue') = <<q, "jwks">>
\* A callback that has come to fetch the keys stays where it is, with the lock.
HolderStays == [][HeldOnto]_oidcVars

LEMMA AskKeepsHolder ==
  ASSUME KeysInv, NEW r \in Caller, NEW method \in {"discovery", "jwks"}, Ask(r, method)
  PROVE  /\ queue' \in Seq(Caller \X {"discovery", "jwks"})
         /\ queue # <<>> => queue' # <<>> /\ Head(queue') = Head(queue)
<1>. DEFINE A == Caller \X {"discovery", "jwks"}
<1>1. queue \in Seq(A) /\ <<r, method>> \in A /\ queue' = Append(queue, <<r, method>>)
  BY DEF KeysInv, Ask
<1>. HIDE DEF A
<1>2. queue' \in Seq(A) /\ (queue # <<>> => queue' # <<>> /\ Head(queue') = Head(queue))
  BY <1>1
<1>. QED  BY <1>2 DEF A

LEMMA GoMovesOne ==
  ASSUME KeysInv, NEW r \in Caller, NEW at \in Stops, Go(r, at)
  PROVE  /\ request' \in [Caller -> [call : Call, at : Stops, force : {FALSE}]]
         /\ request'[r].at = at
         /\ \A q \in Caller \ {r} : request'[q] = request[q]
<1>. PICK row \in [call : Call, at : Stops, force : {FALSE}] : row = request[r]
  BY DEF KeysInv
<1>1. request' = [request EXCEPT ![r] = [row EXCEPT !.at = at]]
  BY DEF Go, KeysInv
<1>. QED  BY <1>1 DEF KeysInv

LEMMA ReleaseKeepsType ==
  ASSUME KeysInv, NEW r \in Caller, NEW method, Has(r, method), Release
  PROVE  queue' \in Seq(Caller \X {"discovery", "jwks"})
<1>. DEFINE A == Caller \X {"discovery", "jwks"}
<1>1. queue \in Seq(A) /\ queue # <<>> /\ queue' = Tail(queue)
  BY DEF KeysInv, Has, Release
<1>. HIDE DEF A
<1>. QED  BY <1>1 DEF A

\* The lock is served to a caller of discovery(): nobody waits inside jwks().
LEMMA NobodyInside ==
  ASSUME KeysInv, NEW r \in Caller, Has(r, "discovery")
  PROVE  \A q \in Caller : request[q].at # "inner discovery" /\ (request[q].at = "fetch" => q = r)
<1>. TAKE q \in Caller
<1>1. Head(queue) = <<r, "discovery">>
  BY DEF Has
<1>2. <<r, "discovery">> # <<q, "jwks">> /\ (<<r, "discovery">> = <<q, "discovery">> => q = r)
  OBVIOUS
<1>3. /\ request[q].at = "fetch" => Head(queue) = <<q, "discovery">>
      /\ request[q].at = "inner discovery" => Head(queue) = <<q, "jwks">>
  BY DEF KeysInv, Has
<1>. QED  BY <1>1, <1>2, <1>3

LEMMA KeysStep ==
  ASSUME KeysInv, OidcNext
  PROVE  KeysInv' /\ HeldOnto
<1>1. CASE Lapse
  BY <1>1 DEF KeysInv, Lapse, Has, HeldOnto
<1>2. ASSUME NEW r \in Caller, BeginCall(r)
      PROVE  KeysInv' /\ HeldOnto
  <2>1. /\ request' \in [Caller -> [call : Call, at : Stops, force : {FALSE}]]
        /\ request'[r].at = "discovery"
        /\ \A q \in Caller \ {r} : request'[q] = request[q]
    <3>1. PICK c \in Call : request' = [request EXCEPT ![r] = [call |-> c, at |-> "discovery", force |-> FALSE]]
      BY <1>2 DEF BeginCall
    <3>2. [call |-> c, at |-> "discovery", force |-> FALSE] \in [call : Call, at : Stops, force : {FALSE}]
      BY DEF Stops
    <3>. QED  BY <3>1, <3>2 DEF KeysInv
  <2>2. /\ queue' \in Seq(Caller \X {"discovery", "jwks"})
        /\ queue # <<>> => queue' # <<>> /\ Head(queue') = Head(queue)
    BY <1>2, AskKeepsHolder DEF BeginCall
  <2>3. request[r].at = "over" /\ keys' = keys
    BY <1>2 DEF BeginCall
  <2>. QED  BY <2>1, <2>2, <2>3 DEF KeysInv, HeldOnto, Has
<1>3. ASSUME NEW r \in Caller, Step(r)
      PROVE  KeysInv' /\ HeldOnto
  <2>1. CASE Discover(r)
    <3>1. Has(r, "discovery") /\ request[r].at = "discovery" /\ keys' = keys
      BY <2>1, NobodyInside DEF Discover
    <3>2. \A q \in Caller : request[q].at # "inner discovery" /\ (request[q].at = "fetch" => q = r)
      BY <3>1, NobodyInside
    <3>3. CASE Go(r, Returned(r)) /\ Release
      <4>1. Returned(r) \in {"exchange", "over"}
        BY <3>1 DEF Returned
      <4>2. /\ request' \in [Caller -> [call : Call, at : Stops, force : {FALSE}]]
            /\ request'[r].at = Returned(r)
            /\ \A q \in Caller \ {r} : request'[q] = request[q]
        BY <3>3, <4>1, GoMovesOne DEF Stops
      <4>3. queue' \in Seq(Caller \X {"discovery", "jwks"})
        BY <3>1, <3>3, ReleaseKeepsType
      <4>. QED  BY <3>1, <3>2, <4>1, <4>2, <4>3 DEF KeysInv, HeldOnto
    <3>4. CASE Go(r, "fetch") /\ UNCHANGED queue
      <4>1. /\ request' \in [Caller -> [call : Call, at : Stops, force : {FALSE}]]
            /\ request'[r].at = "fetch"
            /\ \A q \in Caller \ {r} : request'[q] = request[q]
        BY <3>4, GoMovesOne DEF Stops
      <4>. QED  BY <3>1, <3>2, <3>4, <4>1 DEF KeysInv, HeldOnto, Has
    <3>. QED  BY <2>1, <3>1, <3>3, <3>4 DEF Discover
  <2>2. CASE FetchDiscovery(r)
    <3>1. Has(r, "discovery") /\ request[r].at = "fetch" /\ keys' = keys /\ Release
      BY <2>2 DEF FetchDiscovery, KeysInv, Stops
    <3>2. \A q \in Caller : request[q].at # "inner discovery" /\ (request[q].at = "fetch" => q = r)
      BY <3>1, NobodyInside
    <3>3. PICK at \in {"exchange", "over"} : Go(r, at)
      BY <2>2, <3>1 DEF FetchDiscovery, Returned
    <3>4. /\ request' \in [Caller -> [call : Call, at : Stops, force : {FALSE}]]
          /\ request'[r].at = at
          /\ \A q \in Caller \ {r} : request'[q] = request[q]
      BY <3>3, GoMovesOne DEF Stops
    <3>5. queue' \in Seq(Caller \X {"discovery", "jwks"})
      BY <3>1, ReleaseKeepsType
    <3>. QED  BY <3>1, <3>2, <3>3, <3>4, <3>5 DEF KeysInv, HeldOnto
  <2>3. CASE ExchangeCode(r)
    <3>1. request[r].at = "exchange" /\ keys' = keys
      BY <2>3 DEF ExchangeCode
    <3>2. PICK at \in {"keys", "over"} : Go(r, at)
      BY <2>3 DEF ExchangeCode
    <3>3. /\ request' \in [Caller -> [call : Call, at : Stops, force : {FALSE}]]
          /\ request'[r].at = at
          /\ \A q \in Caller \ {r} : request'[q] = request[q]
      BY <3>2, GoMovesOne DEF Stops
    <3>4. /\ queue' \in Seq(Caller \X {"discovery", "jwks"})
          /\ queue # <<>> => queue' # <<>> /\ Head(queue') = Head(queue)
      BY <2>3, AskKeepsHolder DEF ExchangeCode, KeysInv
    <3>. QED  BY <3>1, <3>2, <3>3, <3>4 DEF KeysInv, HeldOnto, Has
  <2>4. CASE Keys(r)
    <3>1. request[r].at = "keys" /\ Has(r, "jwks") /\ keys' = keys
          /\ Go(r, "inner discovery") /\ Ask(r, "discovery")
      BY <2>4 DEF Keys, KeysInv
    <3>2. /\ request' \in [Caller -> [call : Call, at : Stops, force : {FALSE}]]
          /\ request'[r].at = "inner discovery"
          /\ \A q \in Caller \ {r} : request'[q] = request[q]
      BY <3>1, GoMovesOne DEF Stops
    <3>3. /\ queue' \in Seq(Caller \X {"discovery", "jwks"})
          /\ queue # <<>> => queue' # <<>> /\ Head(queue') = Head(queue)
      BY <3>1, AskKeepsHolder
    <3>. QED  BY <3>1, <3>2, <3>3 DEF KeysInv, HeldOnto, Has
  <2>5. CASE FetchKeys(r)
    BY <2>5 DEF KeysInv, FetchKeys, Stops
  <2>6. CASE Retry(r)
    BY <2>6 DEF KeysInv, Retry, Stops
  <2>. QED  BY <1>3, <2>1, <2>2, <2>3, <2>4, <2>5, <2>6 DEF Step
<1>. QED  BY <1>1, <1>2, <1>3 DEF OidcNext

LEMMA KeysInvHolds ==
  /\ OidcInit => KeysInv
  /\ KeysInv /\ [OidcNext]_oidcVars => KeysInv'
<1>1. ASSUME OidcInit  PROVE KeysInv
  <2>1. \A r \in Caller : request[r].at = "over"
    BY <1>1 DEF OidcInit
  <2>2. request \in [Caller -> [call : Call, at : Stops, force : {FALSE}]]
    BY <1>1 DEF OidcInit, Call, Stops
  <2>3. queue \in Seq(Caller \X {"discovery", "jwks"})
    BY <1>1 DEF OidcInit
  <2>. QED  BY <1>1, <2>1, <2>2, <2>3 DEF OidcInit, KeysInv
<1>2. ASSUME KeysInv, UNCHANGED oidcVars  PROVE KeysInv'
  BY <1>2 DEF KeysInv, oidcVars, Has
<1>. QED  BY <1>1, <1>2, KeysStep

\* Whatever the requests and the answers of the provider, no key set is ever
\* cached: the in-process cache of the keys does not work.
THEOREM NoKeysEver == OidcSpec => []KeysNeverCached
<1>1. KeysInv => KeysNeverCached
  BY DEF KeysInv, KeysNeverCached
<1>. QED  BY <1>1, KeysInvHolds, PTL DEF OidcSpec

\* The callback that waits for itself never leaves, nor does the lock: no
\* timeout of a call, no answer and no other request brings it further.
THEOREM WaitsForItself == OidcSpec => HolderStays
<1>1. KeysInv /\ [OidcNext]_oidcVars => [HeldOnto]_oidcVars
  BY KeysStep
<1>. QED  BY <1>1, KeysInvHolds, PTL DEF OidcSpec, HolderStays

(***************************************************************************)
(* The locks in PostgreSQL.                                                *)
(***************************************************************************)

\* An entry is of one user, and there are finitely many users.
OwnEntries ==
  /\ IsFiniteSet(User)
  /\ \A u \in User : \A v \in User \ {u} : EntriesOf[u] \cap EntriesOf[v] = {}

\* The order in which most requests lock.
Rank(lock) ==
  CASE lock[1] = "attendance" -> 1
    [] lock[1] = "timesheet" -> 2
    [] lock[1] = "period" -> 3
    [] lock[1] = "entry" -> 4
    [] lock[1] = "session" -> 5
    [] OTHER -> 6
IsRow(lock) == Rank(lock) > 3

\* A request that waits for the lock of a user with rows of entries, sessions
\* or days in hand.
RowsBeforeUser(r) ==
  /\ \E row \in held[r] : IsRow(row)
  /\ \E lock \in Wants(r) : Rank(lock) = 1

\* Every circle of waiting requests has such a request in it.
CirclesNeedRows ==
  \A circle \in SUBSET Request :
    circle # {} /\ WaitsAround(circle) => \E r \in circle : RowsBeforeUser(r)

Lock ==
  ({"attendance", "timesheet", "period", "session", "day"} \X User)
    \cup {<<"entry", e>> : e \in UNION {EntriesOf[u] : u \in User}}

\* Two locks of one rank that one request has in hand are the rows of a query on
\* entries, after the lock of their week, or the days of a batch, each after the
\* lock of its user: nobody else who holds such a row waits for another.
Guarded(lock, before) ==
  \E u \in User : \/ lock \in EntryRows(u) /\ Timesheet(u) \subseteq before
                  \/ lock \in Day(u) /\ Attendance(u) \subseteq before
Alike(a, b, before) == Rank(a) = Rank(b) /\ Guarded(a, before) /\ Guarded(b, before)

\* With the locks h in hand and the plan p: those the request has before its
\* query i, and the order it keeps, save for the lock of a user after a row.
Before(p, h, i) == h \cup UNION {p[j] : j \in 1 .. i - 1}
InOrder(p, h) ==
  \A i \in 1 .. Len(p) : \A lock \in p[i] :
    /\ \A a \in Before(p, h, i) :
         \/ Rank(a) < Rank(lock) \/ Alike(a, lock, Before(p, h, i))
         \/ Rank(lock) = 1 /\ \E row \in Before(p, h, i) : IsRow(row)
    /\ \A a \in p[i] : a = lock \/ Alike(a, lock, Before(p, h, i))

LockInv ==
  /\ plan \in [Request -> Seq(SUBSET Lock)]
  /\ held \in [Request -> SUBSET Lock]
  /\ \A r \in Request : \A q \in Request \ {r} : held[r] \cap held[q] = {}
  /\ \A r \in Request : InOrder(plan[r], held[r])

LEMMA RankType ==
  ASSUME NEW lock
  PROVE  Rank(lock) \in 1 .. 6
BY DEF Rank

LEMMA Ranks ==
  ASSUME NEW u \in User
  PROVE  /\ \A l \in Attendance(u) : Rank(l) = 1
         /\ \A l \in Timesheet(u) : Rank(l) = 2
         /\ \A l \in Period(u) : Rank(l) = 3
         /\ \A l \in EntryRows(u) : Rank(l) = 4
         /\ \A l \in Session(u) : Rank(l) = 5
         /\ \A l \in Day(u) : Rank(l) = 6
<1>1. \A l \in Attendance(u) : l[1] = "attendance"
  BY DEF Attendance
<1>2. \A l \in Timesheet(u) : l[1] = "timesheet"
  BY DEF Timesheet
<1>3. \A l \in Period(u) : l[1] = "period"
  BY DEF Period
<1>4. \A l \in EntryRows(u) : l[1] = "entry"
  BY DEF EntryRows, EntryRow
<1>5. \A l \in Session(u) : l[1] = "session"
  BY DEF Session
<1>6. \A l \in Day(u) : l[1] = "day"
  BY DEF Day
<1>. QED  BY <1>1, <1>2, <1>3, <1>4, <1>5, <1>6 DEF Rank

LEMMA GuardedMore ==
  ASSUME NEW lock, NEW S, NEW T, S \subseteq T, Guarded(lock, S)
  PROVE  Guarded(lock, T)
BY DEF Guarded

LEMMA AlikeMore ==
  ASSUME NEW a, NEW b, NEW S, NEW T, S \subseteq T, Alike(a, b, S)
  PROVE  Alike(a, b, T)
BY GuardedMore DEF Alike

LEMMA TakeInOrder ==
  ASSUME NEW p \in Seq(SUBSET Lock), NEW h, InOrder(p, h), p # <<>>,
         NEW lock \in Head(p), NEW q, q = <<Head(p) \ {lock}>> \o Tail(p)
  PROVE  q \in Seq(SUBSET Lock) /\ InOrder(q, h \cup {lock})
<1>1. /\ q \in Seq(SUBSET Lock) /\ Len(q) = Len(p) /\ Len(p) \in Nat \ {0}
      /\ q[1] = p[1] \ {lock} /\ lock \in p[1] /\ \A i \in 2 .. Len(p) : q[i] = p[i]
  OBVIOUS
<1>. DEFINE g == h \cup {lock}
<1>2. Before(p, h, 1) = h /\ Before(q, g, 1) = g
  BY DEF Before
<1>3. ASSUME NEW i \in 2 .. Len(p)
      PROVE  Before(q, g, i) = Before(p, h, i)
  <2>1. \A T : T \in UNION {q[j] : j \in 1 .. i - 1} <=> \E j \in 1 .. i - 1 : T \in q[j]
    OBVIOUS
  <2>2. \A T : T \in UNION {p[j] : j \in 1 .. i - 1} <=> \E j \in 1 .. i - 1 : T \in p[j]
    OBVIOUS
  <2>3. 1 \in 1 .. i - 1 /\ \A j \in 1 .. i - 1 : j = 1 \/ j \in 2 .. Len(p)
    BY <1>1
  <2>. QED  BY <1>1, <2>1, <2>2, <2>3 DEF Before
<1>4. ASSUME NEW i \in 1 .. Len(q), NEW l \in q[i]
      PROVE  /\ \A a \in Before(q, g, i) :
                  \/ Rank(a) < Rank(l) \/ Alike(a, l, Before(q, g, i))
                  \/ Rank(l) = 1 /\ \E row \in Before(q, g, i) : IsRow(row)
             /\ \A a \in q[i] : a = l \/ Alike(a, l, Before(q, g, i))
  <2>1. CASE i = 1
    <3>1. l \in p[1] /\ l # lock /\ 1 \in 1 .. Len(p)
      BY <1>1, <2>1
    <3>2. /\ \A a \in h :
               \/ Rank(a) < Rank(l) \/ Alike(a, l, h)
               \/ Rank(l) = 1 /\ \E row \in h : IsRow(row)
          /\ \A a \in p[1] : a = l \/ Alike(a, l, h)
      BY <1>2, <3>1 DEF InOrder
    <3>3. \A a : Alike(a, l, h) => Alike(a, l, g)
      BY AlikeMore
    <3>4. Alike(lock, l, g)
      BY <1>1, <3>1, <3>2, <3>3
    <3>. QED  BY <1>1, <1>2, <2>1, <3>2, <3>3, <3>4
  <2>2. CASE i # 1
    <3>1. i \in 2 .. Len(p) /\ i \in 1 .. Len(p) /\ q[i] = p[i] /\ Before(q, g, i) = Before(p, h, i)
      <4>1. i \in 2 .. Len(p) /\ i \in 1 .. Len(p)
        BY <1>1, <2>2
      <4>. QED  BY <4>1, <1>1, <1>3
    <3>. QED  BY <3>1 DEF InOrder
  <2>. QED  BY <2>1, <2>2
<1>. QED  BY <1>1, <1>4 DEF InOrder

LEMMA NextInOrder ==
  ASSUME NEW p \in Seq(SUBSET Lock), NEW h, InOrder(p, h), p # <<>>, Head(p) = {}
  PROVE  Tail(p) \in Seq(SUBSET Lock) /\ InOrder(Tail(p), h)
<1>. DEFINE q == Tail(p)
<1>1. /\ q \in Seq(SUBSET Lock) /\ Len(q) = Len(p) - 1 /\ Len(p) \in Nat \ {0}
      /\ p[1] = {} /\ \A i \in 1 .. Len(q) : q[i] = p[i + 1] /\ i + 1 \in 1 .. Len(p)
  OBVIOUS
<1>. HIDE DEF q
<1>2. ASSUME NEW i \in 1 .. Len(q)
      PROVE  Before(q, h, i) = Before(p, h, i + 1)
  <2>1. \A T : T \in UNION {q[j] : j \in 1 .. i - 1} <=> \E j \in 1 .. i - 1 : T \in q[j]
    OBVIOUS
  <2>2. \A T : T \in UNION {p[j] : j \in 1 .. i + 1 - 1} <=> \E j \in 1 .. i : T \in p[j]
    OBVIOUS
  <2>3. ASSUME NEW T  PROVE (\E j \in 1 .. i - 1 : T \in q[j]) <=> (\E j \in 1 .. i : T \in p[j])
    <3>1. \A j \in 1 .. i - 1 : q[j] = p[j + 1] /\ j + 1 \in 1 .. i
      BY <1>1
    <3>2. \A j \in 1 .. i : T \in p[j] => j - 1 \in 1 .. i - 1 /\ q[j - 1] = p[j]
      BY <1>1
    <3>. QED  BY <3>1, <3>2
  <2>. QED  BY <2>1, <2>2, <2>3 DEF Before
<1>3. \A i \in 1 .. Len(q) : q[i] = p[i + 1] /\ i + 1 \in 1 .. Len(p) /\ Before(q, h, i) = Before(p, h, i + 1)
  BY <1>1, <1>2
<1>4. InOrder(q, h)
  BY <1>3 DEF InOrder
<1>. QED  BY <1>1, <1>4 DEF q

LEMMA LocksOf ==
  ASSUME NEW u \in User
  PROVE  /\ Attendance(u) \subseteq Lock /\ Timesheet(u) \subseteq Lock
         /\ Period(u) \subseteq Lock /\ EntryRows(u) \subseteq Lock
         /\ Session(u) \subseteq Lock /\ Day(u) \subseteq Lock
BY DEF Lock, Attendance, Timesheet, Period, EntryRows, EntryRow, Session, Day

\* Queries whose ranks rise, each for one lock or for rows that are guarded.
LEMMA RisingInOrder ==
  ASSUME NEW p \in Seq(SUBSET Lock), NEW h,
         \A i \in 1 .. Len(p) : \A lock \in p[i] :
           /\ \A a \in Before(p, h, i) : Rank(a) < Rank(lock)
           /\ \A a \in p[i] : a = lock \/ Alike(a, lock, Before(p, h, i))
  PROVE  InOrder(p, h)
BY DEF InOrder

LEMMA CreateInOrder ==
  ASSUME NEW u \in User
  PROVE  Recompute(u) \in Seq(SUBSET Lock) /\ InOrder(Recompute(u), {})
<1>. DEFINE p == <<Attendance(u), Day(u)>>
<1>1. /\ p \in Seq(SUBSET Lock) /\ Len(p) = 2 /\ p[1] = Attendance(u) /\ p[2] = Day(u)
      /\ p = Recompute(u)
  BY LocksOf DEF Recompute
<1>. HIDE DEF p
<1>2. Before(p, {}, 1) = {} /\ Before(p, {}, 2) = Attendance(u)
  BY <1>1 DEF Before
<1>3. \A i \in 1 .. 2 : \A lock \in p[i] : \A a \in Before(p, {}, i) : Rank(a) < Rank(lock)
  BY <1>1, <1>2, Ranks
<1>4. \A i \in 1 .. 2 : \A lock \in p[i] : \A a \in p[i] : a = lock
  BY <1>1 DEF Attendance, Day
<1>. QED  BY <1>1, <1>3, <1>4, RisingInOrder

LEMMA CheckInOrder ==
  ASSUME NEW u \in User
  PROVE  LET p == <<Attendance(u), Session(u), Day(u)>>
         IN  p \in Seq(SUBSET Lock) /\ InOrder(p, {})
<1>. DEFINE p == <<Attendance(u), Session(u), Day(u)>>
<1>1. /\ p \in Seq(SUBSET Lock) /\ Len(p) = 3
      /\ p[1] = Attendance(u) /\ p[2] = Session(u) /\ p[3] = Day(u)
  BY LocksOf
<1>. HIDE DEF p
<1>2. /\ Before(p, {}, 1) = {} /\ Before(p, {}, 2) = Attendance(u)
      /\ Before(p, {}, 3) = Attendance(u) \cup Session(u)
  BY <1>1 DEF Before
<1>3. \A i \in 1 .. 3 : \A lock \in p[i] : \A a \in Before(p, {}, i) : Rank(a) < Rank(lock)
  BY <1>1, <1>2, Ranks
<1>4. \A i \in 1 .. 3 : \A lock \in p[i] : \A a \in p[i] : a = lock
  BY <1>1 DEF Attendance, Session, Day
<1>5. InOrder(p, {})
  BY <1>1, <1>3, <1>4, RisingInOrder
<1>. QED  BY <1>1, <1>5 DEF p

LEMMA EditInOrder ==
  ASSUME NEW u \in User, NEW e \in EntriesOf[u]
  PROVE  LET p == <<EntryRow(e)>> \o Recompute(u)
         IN  p \in Seq(SUBSET Lock) /\ InOrder(p, {})
<1>. DEFINE p == <<EntryRow(e)>> \o Recompute(u)
<1>1. EntryRow(e) \subseteq EntryRows(u) /\ EntryRow(e) \subseteq Lock
  BY LocksOf DEF EntryRows
<1>2. /\ p \in Seq(SUBSET Lock) /\ Len(p) = 3
      /\ p[1] = EntryRow(e) /\ p[2] = Attendance(u) /\ p[3] = Day(u)
  BY <1>1, LocksOf DEF Recompute
<1>. HIDE DEF p
<1>3. /\ Before(p, {}, 1) = {} /\ Before(p, {}, 2) = EntryRow(e)
      /\ Before(p, {}, 3) = EntryRow(e) \cup Attendance(u)
  BY <1>2 DEF Before
<1>4. \A i \in {1, 3} : \A lock \in p[i] : \A a \in Before(p, {}, i) : Rank(a) < Rank(lock)
  BY <1>1, <1>2, <1>3, Ranks
<1>5. \A lock \in p[2] : Rank(lock) = 1 /\ \E row \in Before(p, {}, 2) : IsRow(row)
  BY <1>1, <1>2, <1>3, Ranks DEF IsRow, EntryRow
<1>6. \A i \in 1 .. 3 : \A lock \in p[i] : \A a \in p[i] : a = lock
  BY <1>2 DEF EntryRow, Attendance, Day
<1>7. InOrder(p, {})
  BY <1>2, <1>4, <1>5, <1>6 DEF InOrder
<1>. QED  BY <1>2, <1>7 DEF p

LEMMA TransitionInOrder ==
  ASSUME NEW u \in User, NEW e \in EntriesOf[u]
  PROVE  <<EntryRow(e)>> \in Seq(SUBSET Lock) /\ InOrder(<<EntryRow(e)>>, {})
<1>. DEFINE p == <<EntryRow(e)>>
<1>1. EntryRow(e) \subseteq Lock
  BY LocksOf DEF EntryRows
<1>2. p \in Seq(SUBSET Lock) /\ Len(p) = 1 /\ p[1] = EntryRow(e)
  BY <1>1
<1>. HIDE DEF p
<1>3. Before(p, {}, 1) = {}
  BY DEF Before
<1>4. \A i \in 1 .. 1 : \A lock \in p[i] : \A a \in p[i] : a = lock
  BY <1>2 DEF EntryRow
<1>5. InOrder(p, {})
  BY <1>2, <1>3, <1>4 DEF InOrder
<1>. QED  BY <1>2, <1>5 DEF p

\* The rows of the entries come after the lock of the week.
LEMMA DecideInOrder ==
  ASSUME NEW u \in User
  PROVE  WeekRows(u) \in Seq(SUBSET Lock) /\ InOrder(WeekRows(u), {})
<1>. DEFINE p == WeekRows(u)
<1>1. /\ p \in Seq(SUBSET Lock) /\ Len(p) = 4 /\ p[1] = Timesheet(u) /\ p[2] = Period(u)
      /\ p[3] = EntryRows(u) /\ p[4] = Day(u)
  BY LocksOf DEF WeekRows
<1>. HIDE DEF p
<1>2. /\ Before(p, {}, 1) = {} /\ Before(p, {}, 2) = Timesheet(u)
      /\ Before(p, {}, 3) = Timesheet(u) \cup Period(u)
      /\ Before(p, {}, 4) = Timesheet(u) \cup Period(u) \cup EntryRows(u)
  BY <1>1 DEF Before
<1>3. \A i \in 1 .. 4 : \A lock \in p[i] : \A a \in Before(p, {}, i) : Rank(a) < Rank(lock)
  BY <1>1, <1>2, Ranks
<1>4. \A i \in {1, 2, 4} : \A lock \in p[i] : \A a \in p[i] : a = lock
  BY <1>1 DEF Timesheet, Period, Day
<1>5. \A lock \in p[3] : \A a \in p[3] : Alike(a, lock, Before(p, {}, 3))
  BY <1>1, <1>2, Ranks DEF Alike, Guarded
<1>6. InOrder(p, {})
  BY <1>1, <1>3, <1>4, <1>5, RisingInOrder
<1>. QED  BY <1>1, <1>6 DEF p

LEMMA SubmitInOrder ==
  ASSUME NEW u \in User
  PROVE  LET p == <<Attendance(u)>> \o WeekRows(u)
         IN  p \in Seq(SUBSET Lock) /\ InOrder(p, {})
<1>. DEFINE p == <<Attendance(u)>> \o WeekRows(u)
<1>1. /\ p \in Seq(SUBSET Lock) /\ Len(p) = 5 /\ p[1] = Attendance(u) /\ p[2] = Timesheet(u)
      /\ p[3] = Period(u) /\ p[4] = EntryRows(u) /\ p[5] = Day(u)
  BY LocksOf DEF WeekRows
<1>. HIDE DEF p
<1>2. /\ Before(p, {}, 1) = {} /\ Before(p, {}, 2) = Attendance(u)
      /\ Before(p, {}, 3) = Attendance(u) \cup Timesheet(u)
      /\ Before(p, {}, 4) = Attendance(u) \cup Timesheet(u) \cup Period(u)
      /\ Before(p, {}, 5) = Attendance(u) \cup Timesheet(u) \cup Period(u) \cup EntryRows(u)
  BY <1>1 DEF Before
<1>3. \A i \in 1 .. 5 : \A lock \in p[i] : \A a \in Before(p, {}, i) : Rank(a) < Rank(lock)
  BY <1>1, <1>2, Ranks
<1>4. \A i \in {1, 2, 3, 5} : \A lock \in p[i] : \A a \in p[i] : a = lock
  BY <1>1 DEF Attendance, Timesheet, Period, Day
<1>5. \A lock \in p[4] : \A a \in p[4] : Alike(a, lock, Before(p, {}, 4))
  BY <1>1, <1>2, Ranks DEF Alike, Guarded
<1>6. InOrder(p, {})
  BY <1>1, <1>3, <1>4, <1>5, RisingInOrder
<1>. QED  BY <1>1, <1>6 DEF p

\* The batch of the timeout has the rows of its sessions in hand; each day
\* comes after the lock of its user.
LEMMA TimeoutInOrder ==
  ASSUME NEW order \in Seq(User), NEW h,
         \E row \in h : TRUE, \A row \in h : Rank(row) = 5
  PROVE  RecomputeAll(order) \in Seq(SUBSET Lock) /\ InOrder(RecomputeAll(order), h)
<1>. DEFINE p == RecomputeAll(order)
            n == Len(order)
            At(i) == order[(i + 1) \div 2]
<1>1. n \in Nat /\ \A k \in 1 .. n : order[k] \in User
  OBVIOUS
<1>2. ASSUME NEW i \in 1 .. 2 * n
      PROVE  (i + 1) \div 2 \in 1 .. n /\ i % 2 \in {0, 1}
  BY <1>1
<1>3. \A i \in 1 .. 2 * n : At(i) \in User
  BY <1>1, <1>2
<1>4. ASSUME NEW i \in 1 .. 2 * n
      PROVE  p[i] = IF i % 2 = 1 THEN Attendance(At(i)) ELSE Day(At(i))
  BY <1>2 DEF RecomputeAll, Recompute
<1>5. p = [i \in 1 .. 2 * n |-> p[i]]
  BY DEF RecomputeAll
<1>6. \A i \in 1 .. 2 * n : p[i] \in SUBSET Lock
  BY <1>3, <1>4, LocksOf
<1>7. p \in Seq(SUBSET Lock) /\ Len(p) = 2 * n
  <2>1. 2 * n \in Nat
    BY <1>1
  <2>. HIDE DEF p, n
  <2>. QED  BY <2>1, <1>5, <1>6
<1>8. ASSUME NEW i \in 1 .. 2 * n, i % 2 = 0
      PROVE  /\ p[i] = Day(At(i)) /\ Attendance(At(i)) \subseteq Before(p, h, i)
             /\ \A l \in p[i] : Rank(l) = 6 /\ l \in Day(At(i))
  <2>1. i - 1 \in 1 .. 2 * n /\ (i - 1) % 2 = 1 /\ (i - 1 + 1) \div 2 = (i + 1) \div 2
    BY <1>1, <1>8
  <2>2. p[i - 1] = Attendance(At(i)) /\ i - 1 \in 1 .. i - 1
    BY <2>1, <1>4
  <2>3. p[i] = Day(At(i))
    BY <1>4, <1>8
  <2>. HIDE DEF p, At
  <2>. QED  BY <2>2, <2>3, <1>3, Ranks DEF Before
<1>9. ASSUME NEW i \in 1 .. 2 * n, i % 2 = 1
      PROVE  \A l \in p[i] : Rank(l) = 1 /\ \A a \in p[i] : a = l
  <2>1. p[i] = Attendance(At(i)) /\ At(i) \in User
    BY <1>3, <1>4, <1>9
  <2>. HIDE DEF p, At
  <2>. QED  BY <2>1, Ranks DEF Attendance
<1>. HIDE DEF p, n, At
<1>10. ASSUME NEW i \in 1 .. 2 * n, NEW j \in 1 .. i, i % 2 = 0, NEW l \in p[i], NEW a \in p[j]
       PROVE  Rank(a) < Rank(l) \/ Alike(a, l, Before(p, h, i))
  <2>1. j \in 1 .. 2 * n /\ (j % 2 = 0 \/ j % 2 = 1)
    BY <1>1, <1>2
  <2>2. CASE j % 2 = 1
    BY <2>1, <2>2, <1>9, <1>8, <1>10
  <2>3. CASE j % 2 = 0
    <3>1. Before(p, h, j) \subseteq Before(p, h, i)
      <4>1. \A k \in 1 .. j - 1 : k \in 1 .. i - 1
        BY <1>1
      <4>. QED  BY <4>1 DEF Before
    <3>2. Guarded(a, Before(p, h, i))
      BY <2>1, <2>3, <3>1, <1>3, <1>8 DEF Guarded
    <3>3. Guarded(l, Before(p, h, i))
      BY <1>3, <1>8, <1>10 DEF Guarded
    <3>. QED  BY <2>1, <2>3, <3>2, <3>3, <1>8, <1>10 DEF Alike
  <2>. QED  BY <2>1, <2>2, <2>3
<1>11. ASSUME NEW i \in 1 .. 2 * n, NEW l \in p[i]
       PROVE  /\ \A a \in Before(p, h, i) :
                   \/ Rank(a) < Rank(l) \/ Alike(a, l, Before(p, h, i))
                   \/ Rank(l) = 1 /\ \E row \in Before(p, h, i) : IsRow(row)
              /\ \A a \in p[i] : a = l \/ Alike(a, l, Before(p, h, i))
  <2>1. CASE i % 2 = 1
    <3>1. \E row \in Before(p, h, i) : IsRow(row)
      BY DEF Before, IsRow
    <3>. QED  BY <2>1, <3>1, <1>9
  <2>2. CASE i % 2 = 0
    <3>1. Rank(l) = 6
      BY <2>2, <1>8
    <3>2. \A a \in Before(p, h, i) : a \in h \/ \E j \in 1 .. i : a \in p[j]
      <4>1. \A j \in 1 .. i - 1 : j \in 1 .. i
        BY <1>1
      <4>. QED  BY <4>1 DEF Before
    <3>3. i \in 1 .. i
      BY <1>1
    <3>4. \A a \in h : Rank(a) < Rank(l)
      BY <3>1
    <3>5. ASSUME NEW j \in 1 .. i, NEW a \in p[j]
          PROVE  Rank(a) < Rank(l) \/ Alike(a, l, Before(p, h, i))
      BY <2>2, <1>10
    <3>6. \A a \in Before(p, h, i) : Rank(a) < Rank(l) \/ Alike(a, l, Before(p, h, i))
      BY <3>2, <3>4, <3>5
    <3>7. \A a \in p[i] : Alike(a, l, Before(p, h, i))
      <4>1. \A a \in p[i] : Rank(a) = 6
        BY <2>2, <1>8
      <4>2. ASSUME NEW a \in p[i]
            PROVE  Rank(a) < Rank(l) \/ Alike(a, l, Before(p, h, i))
        BY <3>3, <3>5
      <4>. QED  BY <3>1, <4>1, <4>2
    <3>. QED  BY <3>6, <3>7
  <2>. QED  BY <1>2, <2>1, <2>2
<1>12. InOrder(p, h)
  BY <1>7, <1>11 DEF InOrder
<1>. QED  BY <1>7, <1>12 DEF p

LEMMA NothingPlanned ==
  ASSUME NEW h
  PROVE  <<>> \in Seq(SUBSET Lock) /\ InOrder(<<>>, h)
BY DEF InOrder

\* A step of one request that keeps its locks and plan in order.
LEMMA OneMoves ==
  ASSUME LockInv, NEW r \in Request, NEW p \in Seq(SUBSET Lock), NEW h \in SUBSET Lock,
         InOrder(p, h), \A q \in Request \ {r} : h \cap held[q] = {},
         plan' = [plan EXCEPT ![r] = p], held' = [held EXCEPT ![r] = h]
  PROVE  LockInv'
<1>1. /\ plan' \in [Request -> Seq(SUBSET Lock)] /\ held' \in [Request -> SUBSET Lock]
      /\ plan'[r] = p /\ held'[r] = h
      /\ \A q \in Request \ {r} : plan'[q] = plan[q] /\ held'[q] = held[q]
  BY DEF LockInv
<1>2. \A q \in Request : InOrder(plan'[q], held'[q])
  BY <1>1 DEF LockInv
<1>3. \A a \in Request : \A q \in Request \ {a} : held'[a] \cap held'[q] = {}
  BY <1>1 DEF LockInv
<1>. QED  BY <1>1, <1>2, <1>3 DEF LockInv

LEMMA BeginKeepsInv ==
  ASSUME LockInv, NEW r \in Request, NEW steps \in Seq(SUBSET Lock), InOrder(steps, {}),
         Begin(r, steps)
  PROVE  LockInv'
<1>1. held' = [held EXCEPT ![r] = {}] /\ plan' = [plan EXCEPT ![r] = steps]
  BY DEF Begin, Idle, LockInv
<1>. QED  BY <1>1, OneMoves

LEMMA LockStep ==
  ASSUME OwnEntries, LockInv, LockNext
  PROVE  LockInv'
<1>. PICK r \in Request :
       \/ Take(r) \/ NextQuery(r) \/ End(r) \/ TimeoutTick(r) \/ ReconcileTick(r)
       \/ \E u \in User :
            \/ CreateEntry(r, u) \/ EditEntry(r, u) \/ TransitionEntry(r, u)
            \/ SubmitWeek(r, u) \/ DecideWeek(r, u) \/ CheckInOut(r, u)
  BY DEF LockNext
<1>0. /\ plan[r] \in Seq(SUBSET Lock) /\ held[r] \in SUBSET Lock /\ InOrder(plan[r], held[r])
      /\ \A q \in Request \ {r} : held[r] \cap held[q] = {}
  BY DEF LockInv
<1>1. CASE Take(r)
  <2>1. PICK lock \in Wants(r) :
          /\ \A q \in Request \ {r} : lock \notin held[q]
          /\ held' = [held EXCEPT ![r] = held[r] \cup {lock}]
          /\ plan' = [plan EXCEPT ![r] = <<Wants(r) \ {lock}>> \o Tail(plan[r])]
    BY <1>1 DEF Take
  <2>2. plan[r] # <<>> /\ Wants(r) = Head(plan[r]) /\ lock \in Lock
    BY <1>0, <2>1 DEF Wants
  <2>3. PICK q : q = <<Head(plan[r]) \ {lock}>> \o Tail(plan[r])
    OBVIOUS
  <2>4. q \in Seq(SUBSET Lock) /\ InOrder(q, held[r] \cup {lock})
    BY <1>0, <2>1, <2>2, <2>3, TakeInOrder
  <2>5. plan' = [plan EXCEPT ![r] = q]
    BY <2>1, <2>2, <2>3
  <2>6. /\ held[r] \cup {lock} \in SUBSET Lock
        /\ \A s \in Request \ {r} : (held[r] \cup {lock}) \cap held[s] = {}
    BY <1>0, <2>1, <2>2
  <2>. QED  BY <2>1, <2>4, <2>5, <2>6, OneMoves
<1>2. CASE NextQuery(r)
  <2>1. /\ plan[r] # <<>> /\ Head(plan[r]) = {}
        /\ plan' = [plan EXCEPT ![r] = Tail(plan[r])] /\ held' = [held EXCEPT ![r] = held[r]]
    BY <1>2 DEF NextQuery, Wants, LockInv
  <2>2. Tail(plan[r]) \in Seq(SUBSET Lock) /\ InOrder(Tail(plan[r]), held[r])
    BY <1>0, <2>1, NextInOrder
  <2>. QED  BY <1>0, <2>1, <2>2, OneMoves
<1>3. CASE End(r)
  <2>1. plan' = [plan EXCEPT ![r] = <<>>] /\ held' = [held EXCEPT ![r] = {}]
    BY <1>3 DEF End
  <2>2. <<>> \in Seq(SUBSET Lock) /\ InOrder(<<>>, {})
    BY NothingPlanned
  <2>. QED  BY <2>1, <2>2, OneMoves
<1>4. CASE TimeoutTick(r)
  <2>0. PICK batch \in SUBSET User, idle \in SUBSET User : \E order \in SetToSeqs(idle) :
          /\ batch # {} /\ \A u \in batch : Session(u) \cap Taken = {}
          /\ held' = [held EXCEPT ![r] = UNION {Session(u) : u \in batch}]
          /\ plan' = [plan EXCEPT ![r] = RecomputeAll(order)]
    BY <1>4 DEF TimeoutTick
  <2>1. PICK order \in SetToSeqs(idle) :
          /\ batch # {} /\ \A u \in batch : Session(u) \cap Taken = {}
          /\ held' = [held EXCEPT ![r] = UNION {Session(u) : u \in batch}]
          /\ plan' = [plan EXCEPT ![r] = RecomputeAll(order)]
    BY <2>0
  <2>2. order \in Seq(User)
    <3>1. Cardinality(idle) \in Nat
      BY FS_Subset, FS_CardinalityType DEF OwnEntries
    <3>2. order \in [1 .. Cardinality(idle) -> idle]
      BY DEF SetToSeqs
    <3>. QED  BY <3>1, <3>2
  <2>. DEFINE h == UNION {Session(u) : u \in batch}
  <2>3. h \in SUBSET Lock /\ (\E row \in h : TRUE) /\ \A row \in h : Rank(row) = 5
    <3>1. \A u \in batch : u \in User
      OBVIOUS
    <3>2. h \in SUBSET Lock
      BY <3>1, LocksOf
    <3>3. \A row \in h : Rank(row) = 5
      BY <3>1, Ranks
    <3>4. PICK u \in batch : TRUE
      BY <2>1
    <3>5. <<"session", u>> \in Session(u)
      BY DEF Session
    <3>6. \E row \in h : TRUE
      BY <3>5
    <3>. QED  BY <3>2, <3>3, <3>6
  <2>4. \A q \in Request \ {r} : h \cap held[q] = {}
    BY <2>1 DEF Taken
  <2>. HIDE DEF h
  <2>5. RecomputeAll(order) \in Seq(SUBSET Lock) /\ InOrder(RecomputeAll(order), h)
    BY <2>2, <2>3, TimeoutInOrder
  <2>6. held' = [held EXCEPT ![r] = h] /\ plan' = [plan EXCEPT ![r] = RecomputeAll(order)]
    BY <2>1 DEF h
  <2>. QED  BY <2>3, <2>4, <2>5, <2>6, OneMoves
<1>5. CASE ReconcileTick(r)
  <2>. DEFINE h == UNION {Day(u) : u \in {v \in User : Day(v) \cap Taken = {}}}
  <2>1. h \in SUBSET Lock
    BY LocksOf
  <2>2. \A q \in Request \ {r} : h \cap held[q] = {}
    BY DEF Taken
  <2>3. held' = [held EXCEPT ![r] = h]
    BY <1>5 DEF ReconcileTick
  <2>. HIDE DEF h
  <2>4. plan' = [plan EXCEPT ![r] = <<>>]
    BY <1>5 DEF ReconcileTick, Idle, LockInv
  <2>. QED  BY <2>1, <2>2, <2>3, <2>4, NothingPlanned, OneMoves
<1>6. ASSUME NEW u \in User,
             \/ CreateEntry(r, u) \/ EditEntry(r, u) \/ TransitionEntry(r, u)
             \/ SubmitWeek(r, u) \/ DecideWeek(r, u) \/ CheckInOut(r, u)
      PROVE  LockInv'
  <2>1. CASE CreateEntry(r, u)
    BY <2>1, CreateInOrder, BeginKeepsInv DEF CreateEntry
  <2>2. CASE EditEntry(r, u)
    BY <2>2, EditInOrder, BeginKeepsInv DEF EditEntry
  <2>3. CASE TransitionEntry(r, u)
    BY <2>3, TransitionInOrder, BeginKeepsInv DEF TransitionEntry
  <2>4. CASE SubmitWeek(r, u)
    BY <2>4, SubmitInOrder, BeginKeepsInv DEF SubmitWeek
  <2>5. CASE DecideWeek(r, u)
    BY <2>5, DecideInOrder, BeginKeepsInv DEF DecideWeek
  <2>6. CASE CheckInOut(r, u)
    BY <2>6, CheckInOrder, BeginKeepsInv DEF CheckInOut
  <2>. QED  BY <1>6, <2>1, <2>2, <2>3, <2>4, <2>5, <2>6
<1>. QED  BY <1>1, <1>2, <1>3, <1>4, <1>5, <1>6

\* Of the locks that a circle waits for take one of the greatest rank: who holds
\* it waits for one of no lower rank, a guarded row, and who holds that row, too.
\* Both would have the lock that guards it.
LEMMA InvBreaksCircles ==
  ASSUME OwnEntries, LockInv
  PROVE  CirclesNeedRows
<1>. SUFFICES ASSUME NEW circle \in SUBSET Request, circle # {}, WaitsAround(circle),
                     \A r \in circle : ~RowsBeforeUser(r)
              PROVE  FALSE
  BY DEF CirclesNeedRows
<1>1. ASSUME NEW r \in circle, NEW lock \in Wants(r), NEW a \in held[r]
      PROVE  Rank(a) < Rank(lock) \/ Alike(a, lock, held[r])
  <2>1. plan[r] \in Seq(SUBSET Lock) /\ plan[r] # <<>> /\ lock \in plan[r][1] /\ 1 \in 1 .. Len(plan[r])
    BY DEF Wants, LockInv
  <2>2. Before(plan[r], held[r], 1) = held[r]
    BY DEF Before
  <2>3. \/ Rank(a) < Rank(lock) \/ Alike(a, lock, held[r])
        \/ Rank(lock) = 1 /\ \E row \in held[r] : IsRow(row)
    BY <2>1, <2>2 DEF LockInv, InOrder
  <2>. QED  BY <2>3 DEF RowsBeforeUser
<1>2. ASSUME NEW r \in circle, NEW lock \in Wants(r)
      PROVE  \E q \in circle \ {r} : lock \in held[q]
  BY DEF WaitsAround
<1>3. PICK r \in circle : \E lock \in Wants(r) :
        \A q \in circle : \A m \in Wants(q) : ~(Rank(lock) < Rank(m))
  <2>. SUFFICES ASSUME \A p \in circle : \A lock \in Wants(p) :
                         \E q \in circle : \E m \in Wants(q) : Rank(lock) < Rank(m)
                PROVE  FALSE
    OBVIOUS
  <2>. DEFINE Reaches(k) == \E p \in circle : \E lock \in Wants(p) : Rank(lock) >= k
  <2>1. Reaches(1)
    BY RankType DEF WaitsAround
  <2>2. ASSUME NEW k \in 1 .. 6, Reaches(k)  PROVE Reaches(k + 1)
    BY <2>2, RankType
  <2>3. ~Reaches(7)
    BY RankType
  <2>. HIDE DEF Reaches
  <2>. QED  BY <2>1, <2>2, <2>3
<1>. PICK lock \in Wants(r) : \A q \in circle : \A m \in Wants(q) : ~(Rank(lock) < Rank(m))
  BY <1>3
<1>4. PICK q \in circle \ {r} : lock \in held[q]
  BY <1>2
<1>5. PICK m \in Wants(q) : TRUE
  BY DEF WaitsAround
<1>6. Rank(m) = Rank(lock) /\ Guarded(m, held[q])
  BY <1>1, <1>4, <1>5 DEF Alike
<1>7. PICK s \in circle \ {q} : m \in held[s]
  BY <1>2, <1>4, <1>5
<1>8. PICK l \in Wants(s) : TRUE
  BY DEF WaitsAround
<1>9. Guarded(m, held[s])
  BY <1>1, <1>6, <1>7, <1>8 DEF Alike
<1>10. PICK u \in User : \/ m \in EntryRows(u) /\ Timesheet(u) \subseteq held[q]
                         \/ m \in Day(u) /\ Attendance(u) \subseteq held[q]
  BY <1>6 DEF Guarded
<1>11. PICK v \in User : \/ m \in EntryRows(v) /\ Timesheet(v) \subseteq held[s]
                         \/ m \in Day(v) /\ Attendance(v) \subseteq held[s]
  BY <1>9 DEF Guarded
<1>12. held[q] \cap held[s] = {}
  BY <1>4, <1>7 DEF LockInv
<1>13. CASE m \in EntryRows(u) /\ m \in EntryRows(v)
  <2>1. u = v
    BY <1>13 DEF EntryRows, EntryRow, OwnEntries
  <2>2. m \notin Day(u)
    BY <1>13, Ranks
  <2>. QED  BY <1>10, <1>11, <1>12, <2>1, <2>2 DEF Timesheet
<1>14. CASE m \in Day(u) /\ m \in Day(v)
  <2>1. u = v
    BY <1>14 DEF Day
  <2>2. m \notin EntryRows(u)
    BY <1>14, Ranks
  <2>. QED  BY <1>10, <1>11, <1>12, <2>1, <2>2 DEF Attendance
<1>. QED  BY <1>10, <1>11, <1>13, <1>14, Ranks

LEMMA LockInvHolds ==
  ASSUME OwnEntries
  PROVE  /\ LockInit => LockInv
         /\ LockInv /\ [LockNext]_lockVars => LockInv'
<1>1. LockInit => LockInv
  BY NothingPlanned DEF LockInit, LockInv
<1>2. LockInv /\ UNCHANGED lockVars => LockInv'
  BY DEF LockInv, lockVars
<1>. QED  BY <1>1, <1>2, LockStep

\* Whatever the requests, users and entries: when requests wait for each other in
\* a circle, one of them holds rows of entries, sessions or days and waits for the
\* lock of a user, as edits of entries and the timeout worker do.
THEOREM CirclesHaveOneCause == OwnEntries => (LockSpec => []CirclesNeedRows)
<1>. SUFFICES ASSUME OwnEntries  PROVE LockSpec => []CirclesNeedRows
  OBVIOUS
<1>1. LockInv => CirclesNeedRows
  BY InvBreaksCircles
<1>. QED  BY <1>1, LockInvHolds, PTL DEF LockSpec

(***************************************************************************)
(* The system without the two handlers that lock a row before the user:    *)
(* what the order of the others is worth.                                  *)
(***************************************************************************)
OthersNext ==
  \E r \in Request :
    \/ Take(r) \/ NextQuery(r) \/ End(r) \/ ReconcileTick(r)
    \/ \E u \in User :
         \/ CreateEntry(r, u) \/ TransitionEntry(r, u)
         \/ SubmitWeek(r, u) \/ DecideWeek(r, u) \/ CheckInOut(r, u)

OthersSpec == LockInit /\ [][OthersNext]_lockVars

\* The lock of a user is the first that a request takes.
UserFirst(p, h) == \A i \in 1 .. Len(p) : \A lock \in p[i] : Rank(lock) = 1 => i = 1 /\ h = {}

UsersFirst == LockInv /\ \A r \in Request : UserFirst(plan[r], held[r])

LEMMA OneUserLock ==
  ASSUME NEW lock, NEW S, Guarded(lock, S)
  PROVE  Rank(lock) # 1
BY Ranks DEF Guarded

LEMMA PlansUserFirst ==
  ASSUME NEW u \in User
  PROVE  /\ UserFirst(<<>>, {}) /\ UserFirst(Recompute(u), {}) /\ UserFirst(WeekRows(u), {})
         /\ UserFirst(<<Attendance(u)>> \o WeekRows(u), {})
         /\ UserFirst(<<Attendance(u), Session(u), Day(u)>>, {})
         /\ \A e \in EntriesOf[u] : UserFirst(<<EntryRow(e)>>, {})
<1>1. UserFirst(<<>>, {})
  BY DEF UserFirst
<1>2. UserFirst(Recompute(u), {})
  BY Ranks DEF UserFirst, Recompute
<1>3. UserFirst(WeekRows(u), {})
  BY Ranks DEF UserFirst, WeekRows
<1>4. UserFirst(<<Attendance(u)>> \o WeekRows(u), {})
  <2>. DEFINE p == <<Attendance(u)>> \o WeekRows(u)
  <2>1. /\ Len(p) = 5 /\ p[2] = Timesheet(u) /\ p[3] = Period(u)
        /\ p[4] = EntryRows(u) /\ p[5] = Day(u)
    BY DEF WeekRows
  <2>. HIDE DEF p
  <2>2. UserFirst(p, {})
    BY <2>1, Ranks DEF UserFirst
  <2>. QED  BY <2>2 DEF p
<1>5. UserFirst(<<Attendance(u), Session(u), Day(u)>>, {})
  BY Ranks DEF UserFirst
<1>6. ASSUME NEW e \in EntriesOf[u]  PROVE UserFirst(<<EntryRow(e)>>, {})
  BY DEF UserFirst
<1>. QED  BY <1>1, <1>2, <1>3, <1>4, <1>5, <1>6

LEMMA OneMovesUserFirst ==
  ASSUME UsersFirst, LockInv', NEW r \in Request, UserFirst(plan'[r], held'[r]),
         \A q \in Request \ {r} : plan'[q] = plan[q] /\ held'[q] = held[q]
  PROVE  UsersFirst'
<1>1. ASSUME NEW q \in Request \ {r}  PROVE UserFirst(plan'[q], held'[q])
  BY DEF UsersFirst
<1>. QED  BY <1>1 DEF UsersFirst

LEMMA OthersStep ==
  ASSUME OwnEntries, UsersFirst, OthersNext
  PROVE  UsersFirst'
<1>1. LockInv'
  BY LockStep DEF UsersFirst, OthersNext, LockNext
<1>. PICK r \in Request :
       \/ Take(r) \/ NextQuery(r) \/ End(r) \/ ReconcileTick(r)
       \/ \E u \in User :
            \/ CreateEntry(r, u) \/ TransitionEntry(r, u)
            \/ SubmitWeek(r, u) \/ DecideWeek(r, u) \/ CheckInOut(r, u)
  BY DEF OthersNext
<1>2. /\ plan \in [Request -> Seq(SUBSET Lock)] /\ held \in [Request -> SUBSET Lock]
      /\ UserFirst(plan[r], held[r]) /\ InOrder(plan[r], held[r])
  BY DEF UsersFirst, LockInv
<1>3. CASE Take(r)
  <2>1. PICK lock \in Wants(r) :
          /\ held' = [held EXCEPT ![r] = held[r] \cup {lock}]
          /\ plan' = [plan EXCEPT ![r] = <<Wants(r) \ {lock}>> \o Tail(plan[r])]
    BY <1>3 DEF Take
  <2>2. /\ plan[r] # <<>> /\ Wants(r) = Head(plan[r]) /\ lock \in plan[r][1]
        /\ 1 \in 1 .. Len(plan[r])
    BY <1>2, <2>1 DEF Wants
  <2>. DEFINE q == <<Head(plan[r]) \ {lock}>> \o Tail(plan[r])
  <2>3. /\ Len(q) = Len(plan[r]) /\ q[1] = plan[r][1] \ {lock}
        /\ \A i \in 2 .. Len(plan[r]) : q[i] = plan[r][i]
    BY <1>2, <2>2
  <2>4. plan'[r] = q /\ \A s \in Request \ {r} : plan'[s] = plan[s] /\ held'[s] = held[s]
    BY <1>2, <2>1, <2>2
  <2>. HIDE DEF q
  <2>5. \A l \in q[1] : Rank(l) # 1
    <3>1. ASSUME NEW l \in q[1], Rank(l) = 1  PROVE FALSE
      <4>1. l \in plan[r][1] /\ l # lock
        BY <2>3
      <4>2. Alike(lock, l, Before(plan[r], held[r], 1))
        BY <1>2, <2>2, <4>1 DEF InOrder
      <4>. QED  BY <3>1, <4>2, OneUserLock DEF Alike
    <3>. QED  BY <3>1
  <2>6. \A i \in 2 .. Len(plan[r]) : \A l \in q[i] : Rank(l) # 1
    <3>1. \A i \in 2 .. Len(plan[r]) : i \in 1 .. Len(plan[r]) /\ i # 1
      BY <1>2
    <3>. QED  BY <1>2, <2>3, <3>1 DEF UserFirst
  <2>7. \A i \in 1 .. Len(q) : i = 1 \/ i \in 2 .. Len(plan[r])
    BY <2>3
  <2>8. UserFirst(plan'[r], held'[r])
    BY <2>4, <2>5, <2>6, <2>7 DEF UserFirst
  <2>. QED  BY <1>1, <2>4, <2>8, OneMovesUserFirst
<1>4. CASE NextQuery(r)
  <2>1. /\ plan[r] # <<>> /\ plan'[r] = Tail(plan[r]) /\ held' = held
        /\ \A s \in Request \ {r} : plan'[s] = plan[s]
    BY <1>2, <1>4 DEF NextQuery
  <2>2. \A i \in 1 .. Len(Tail(plan[r])) :
          i + 1 \in 1 .. Len(plan[r]) /\ i + 1 # 1 /\ Tail(plan[r])[i] = plan[r][i + 1]
    BY <1>2, <2>1
  <2>3. UserFirst(plan'[r], held'[r])
    BY <1>2, <2>1, <2>2 DEF UserFirst
  <2>. QED  BY <1>1, <2>1, <2>3, OneMovesUserFirst
<1>5. CASE End(r) \/ ReconcileTick(r)
  <2>1. plan'[r] = <<>> /\ \A s \in Request \ {r} : plan'[s] = plan[s] /\ held'[s] = held[s]
    BY <1>2, <1>5 DEF End, ReconcileTick, Idle
  <2>2. UserFirst(plan'[r], held'[r])
    BY <2>1 DEF UserFirst
  <2>. QED  BY <1>1, <2>1, <2>2, OneMovesUserFirst
<1>6. ASSUME NEW u \in User,
             \/ CreateEntry(r, u) \/ TransitionEntry(r, u)
             \/ SubmitWeek(r, u) \/ DecideWeek(r, u) \/ CheckInOut(r, u)
      PROVE  UsersFirst'
  <2>1. PICK steps : Begin(r, steps) /\ UserFirst(steps, {})
    BY <1>6, PlansUserFirst DEF CreateEntry, TransitionEntry, SubmitWeek, DecideWeek, CheckInOut
  <2>2. /\ plan'[r] = steps /\ held'[r] = {}
        /\ \A s \in Request \ {r} : plan'[s] = plan[s] /\ held'[s] = held[s]
    BY <1>2, <2>1 DEF Begin, Idle
  <2>. QED  BY <1>1, <2>1, <2>2, OneMovesUserFirst
<1>. QED  BY <1>3, <1>4, <1>5, <1>6

\* Without edits of entries and the timeout worker the order of acquisition is
\* what core/locks.py says: no requests ever wait for each other.
THEOREM OthersNeverCircle == OwnEntries => (OthersSpec => []NoCircularWait)
<1>. SUFFICES ASSUME OwnEntries  PROVE OthersSpec => []NoCircularWait
  OBVIOUS
<1>1. LockInit => UsersFirst
  BY LockInvHolds DEF LockInit, UsersFirst, UserFirst
<1>2. UsersFirst /\ [OthersNext]_lockVars => UsersFirst'
  <2>1. UsersFirst /\ UNCHANGED lockVars => UsersFirst'
    BY DEF UsersFirst, LockInv, lockVars
  <2>. QED  BY <2>1, OthersStep
<1>3. UsersFirst => NoCircularWait
  <2>. SUFFICES ASSUME UsersFirst  PROVE NoCircularWait
    OBVIOUS
  <2>1. CirclesNeedRows
    BY InvBreaksCircles DEF UsersFirst
  <2>2. ASSUME NEW r \in Request, RowsBeforeUser(r)  PROVE FALSE
    <3>1. PICK lock \in Wants(r) : Rank(lock) = 1
      BY <2>2 DEF RowsBeforeUser
    <3>2. plan[r] \in Seq(SUBSET Lock) /\ lock \in plan[r][1] /\ 1 \in 1 .. Len(plan[r])
      BY DEF UsersFirst, LockInv, Wants
    <3>3. held[r] = {}
      BY <3>1, <3>2 DEF UsersFirst, UserFirst
    <3>. QED  BY <2>2, <3>3 DEF RowsBeforeUser
  <2>. QED  BY <2>1, <2>2 DEF CirclesNeedRows, NoCircularWait
<1>. QED  BY <1>1, <1>2, <1>3, PTL DEF OthersSpec
===============================================================================
