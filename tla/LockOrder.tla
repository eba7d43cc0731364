------------------------------ MODULE LockOrder -------------------------------
(***************************************************************************)
(* The locks that the services and workers of entries, weeks and           *)
(* attendance hold to the end of their transactions: the advisory locks of *)
(* core/locks.py, every one of which is asked for alone, and the rows read *)
(* FOR UPDATE.                                                             *)
(*                                                                         *)
(* A request is the list of what it has still to lock; what it does with   *)
(* the rows is in the modules TimeEntries, Timesheets and Attendance.  A   *)
(* query that locks several rows takes them one by one in any order.  A    *)
(* user has one week with one day, and one active session.                 *)
(***************************************************************************)
EXTENDS Integers, Sequences, SequencesExt

CONSTANTS
  Request,
  User,
  EntriesOf  \* EntriesOf[u]: the entries of the user's week

VARIABLES
  plan,  \* plan[r]: the sets of locks that the request has still to take, in their order
  held   \* held[r]: the locks it holds

lockVars == <<plan, held>>

Attendance(u) == {<<"attendance", u>>}   \* advisory, by user
Timesheet(u) == {<<"timesheet", u>>}     \* advisory, by week
Period(u) == {<<"period", u>>}
Day(u) == {<<"day", u>>}
Session(u) == {<<"session", u>>}
EntryRow(e) == {<<"entry", e>>}
EntryRows(u) == UNION {EntryRow(e) : e \in EntriesOf[u]}

LockInit == plan = [r \in Request |-> <<>>] /\ held = [r \in Request |-> {}]

Idle(r) == plan[r] = <<>> /\ held[r] = {}
Taken == UNION {held[r] : r \in Request}
Begin(r, steps) ==
  Idle(r) /\ plan' = [plan EXCEPT ![r] = steps] /\ UNCHANGED held

\* recompute_day, at the end of every change of an entry: the user, then the day.
Recompute(u) == <<Attendance(u), Day(u)>>

CreateEntry(r, u) == Begin(r, Recompute(u))
EditEntry(r, u) == \E e \in EntriesOf[u] : Begin(r, <<EntryRow(e)>> \o Recompute(u))
TransitionEntry(r, u) == \E e \in EntriesOf[u] : Begin(r, <<EntryRow(e)>>)

\* A decision on the week locks it, its row and the rows it moves; the owner's
\* submission has locked out attendance before.
WeekRows(u) == <<Timesheet(u), Period(u), EntryRows(u), Day(u)>>
SubmitWeek(r, u) == Begin(r, <<Attendance(u)>> \o WeekRows(u))
DecideWeek(r, u) == Begin(r, WeekRows(u))

\* check_in and check_out.
CheckInOut(r, u) == Begin(r, <<Attendance(u), Session(u), Day(u)>>)

\* The workers take the free rows of their query (SKIP LOCKED), and the timeout
\* recomputes a day for each session of its batch that it finds idle.
RecomputeAll(order) ==
  [i \in 1 .. 2 * Len(order) |-> Recompute(order[(i + 1) \div 2])[IF i % 2 = 1 THEN 1 ELSE 2]]
TimeoutTick(r) ==
  /\ Idle(r)
  /\ \E batch \in SUBSET User, idle \in SUBSET User : \E order \in SetToSeqs(idle) :
       /\ batch # {} /\ idle \subseteq batch /\ \A u \in batch : Session(u) \cap Taken = {}
       /\ held' = [held EXCEPT ![r] = UNION {Session(u) : u \in batch}]
       /\ plan' = [plan EXCEPT ![r] = RecomputeAll(order)]

ReconcileTick(r) ==
  /\ Idle(r)
  /\ held' = [held EXCEPT ![r] = UNION {Day(u) : u \in {v \in User : Day(v) \cap Taken = {}}}]
  /\ UNCHANGED plan

\* One more lock of the query at hand, when no other request holds it; a query
\* with nothing left to lock, or that found no row, is over.
Wants(r) == IF plan[r] = <<>> THEN {} ELSE Head(plan[r])
Take(r) ==
  \E lock \in Wants(r) :
    /\ \A q \in Request \ {r} : lock \notin held[q]
    /\ held' = [held EXCEPT ![r] = @ \cup {lock}]
    /\ plan' = [plan EXCEPT ![r] = <<Wants(r) \ {lock}>> \o Tail(@)]
NextQuery(r) ==
  plan[r] # <<>> /\ Wants(r) = {} /\ plan' = [plan EXCEPT ![r] = Tail(@)] /\ UNCHANGED held

\* The commit, or the rollback of a request that was refused on its way.
End(r) ==
  /\ ~Idle(r)
  /\ plan' = [plan EXCEPT ![r] = <<>>] /\ held' = [held EXCEPT ![r] = {}]

LockNext ==
  \E r \in Request :
    \/ Take(r) \/ NextQuery(r) \/ End(r) \/ TimeoutTick(r) \/ ReconcileTick(r)
    \/ \E u \in User :
         \/ CreateEntry(r, u) \/ EditEntry(r, u) \/ TransitionEntry(r, u)
         \/ SubmitWeek(r, u) \/ DecideWeek(r, u) \/ CheckInOut(r, u)

LockSpec == LockInit /\ [][LockNext]_lockVars

\* The requests of the circle wait for locks that only they themselves hold.
WaitsAround(circle) ==
  \A r \in circle : Wants(r) # {} /\ Wants(r) \subseteq UNION {held[q] : q \in circle \ {r}}

\* No requests wait for each other: of its order of acquisition core/locks.py
\* says that it "prevents deadlocks between callers".
NoCircularWait == \A circle \in SUBSET Request : circle # {} => ~WaitsAround(circle)
===============================================================================
