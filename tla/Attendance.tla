----------------------------- MODULE Attendance ------------------------------
(***************************************************************************)
(* services/attendance_service.py and session_service.py: check-in and     *)
(* check-out, with workers/session_timeout_worker.py and                   *)
(* workers/attendance_reconcile_worker.py.                                 *)
(*                                                                         *)
(* check_in and check_out hold the advisory lock attendance:<user> from    *)
(* before their first read of a session or day to the commit, and          *)
(* recompute_day takes it before it reads, so each is one step.  The clock *)
(* is read before the lock is granted: a check-in that waited may still    *)
(* work with an earlier date.                                              *)
(***************************************************************************)
EXTENDS Records

CONSTANT Lag   \* bound: dates that may pass while a request waits for the lock
ASSUME LagAssumption == Lag \in Nat

RequestDates == {d \in Dates : today - Lag <= d /\ d <= today}

\* _create_attendance_day
OpenDay == [NoDay EXCEPT !.status = "open"]

\* The sessions after close_session gave s the duration secs.
SessionClosed(s, secs) ==
  [session EXCEPT ![s] = [@ EXCEPT !.state = "closed", !.secs = secs]]

\* The days D after the open day (u, d) was closed, any other being left alone.
DayClosed(D, u, d) ==
  IF D[u][d].status = "open" THEN [D EXCEPT ![u][d] = [@ EXCEPT !.status = "closed"]] ELSE D

\* Mutant: a day that was checked out takes another login.
MayLoginAgain(u, d) == day[u][d].status \notin {"approved", "rejected"}

\* Mutant: only a check-out ends a day.
MayLoginUnlessOut(u, d) == day[u][d] # NoDay => ~day[u][d].completed

\* check_in's test that the day can take a login, before and after the insert.
\* A submitted day passes it.
MayLogin(u, d) ==
  day[u][d] # NoDay =>
    ~day[u][d].completed /\ day[u][d].status \notin {"approved", "rejected"}

\* Mutant: whatever the status of the day, it opens.
DayReopened(D, S, u, d) ==
  Recomputed([D EXCEPT ![u][d] = IF D[u][d].status = "none" THEN OpenDay
                                 ELSE [@ EXCEPT !.status = "open"]], entry, S, u, d)

\* The days after a login on (u, d): a missing day is created open, a closed
\* one reopens, and the totals are recomputed.
DayEntered(D, S, u, d) ==
  LET entered == CASE D[u][d].status = "none"   -> [D EXCEPT ![u][d] = OpenDay]
                   [] D[u][d].status = "closed" -> [D EXCEPT ![u][d] = [@ EXCEPT !.status = "open"]]
                   [] OTHER -> D
  IN Recomputed(entered, entry, S, u, d)

Login(S, s, u, d) ==
  [S EXCEPT ![s] = [state |-> "active", user |-> u, date |-> d, secs |-> 0]]

\* Mutant: the active session is not looked for.
CheckInAnyway(u, d, s) ==
  /\ d \in RequestDates
  /\ session[s] = NoSession
  /\ MayLogin(u, d)
  /\ session' = Login(session, s, u, d)
  /\ day' = DayEntered(day, session', u, d)
  /\ UNCHANGED <<entry, request, period, today>>

\* No session is active.
CheckIn(u, d, s) ==
  /\ d \in RequestDates
  /\ session[s] = NoSession
  /\ ActiveSessions(u) = {}
  /\ MayLogin(u, d)
  /\ session' = Login(session, s, u, d)
  /\ day' = DayEntered(day, session', u, d)
  /\ UNCHANGED <<entry, request, period, today>>

\* Mutant: the day that is tested is the one that is left.
CheckInTestsOldDay(u, d, s, stale, secs) ==
  LET sd == session[stale].date
      forced == SessionClosed(stale, secs)
      left == DayClosed(Recomputed(day, entry, forced, u, sd), u, sd)
  IN
  /\ d \in RequestDates
  /\ session[s] = NoSession
  /\ stale \in ActiveSessions(u)
  /\ sd # d
  /\ sd > d => secs = 0
  /\ MayLogin(u, sd)
  /\ session' = Login(forced, s, u, d)
  /\ day' = DayEntered(left, session', u, d)
  /\ UNCHANGED <<entry, request, period, today>>

\* The active session is of another date: it is closed as forced, its day is
\* recomputed and closed, and the login goes on in the same transaction.  A
\* refused login rolls the whole of it back.
CheckInAfterStale(u, d, s, stale, secs) ==
  LET sd == session[stale].date
      forced == SessionClosed(stale, secs)
      left == DayClosed(Recomputed(day, entry, forced, u, sd), u, sd)
  IN
  /\ d \in RequestDates
  /\ session[s] = NoSession
  /\ stale \in ActiveSessions(u)
  /\ sd # d
  /\ sd > d => secs = 0
  /\ MayLogin(u, d)
  /\ session' = Login(forced, s, u, d)
  /\ day' = DayEntered(left, session', u, d)
  /\ UNCHANGED <<entry, request, period, today>>

\* The day is that of the login.  It is completed and closed whatever happened
\* to it in between; a submitted or reviewed day keeps its status.
CheckOut(u, s, secs) ==
  LET d == session[s].date
      counted == Recomputed(day, entry, session', u, d)
  IN
  /\ s \in ActiveSessions(u)
  /\ session' = SessionClosed(s, secs)
  /\ day' = DayClosed([counted EXCEPT ![u][d] = [@ EXCEPT !.completed = TRUE]], u, d)
  /\ UNCHANGED <<entry, request, period, today>>

\* Mutant: the totals of the day are left as they were.
TimeoutUncounted(s, secs) ==
  /\ session[s].state = "active"
  /\ session' = SessionClosed(s, secs)
  /\ UNCHANGED <<entry, request, period, day, today>>

\* Mutant: the session is booked on the date on which it is found idle.
TimeoutToday(s, secs) ==
  /\ session[s].state = "active"
  /\ session' = [SessionClosed(s, secs) EXCEPT ![s].date = today]
  /\ day' = Recomputed(day, entry, session', session[s].user, today)
  /\ UNCHANGED <<entry, request, period, today>>

\* session_timeout_worker: an idle session is closed at its last activity and
\* its day recomputed, but neither completed nor closed.
TimeoutSession(s, secs) ==
  /\ session[s].state = "active"
  /\ session' = SessionClosed(s, secs)
  /\ day' = Recomputed(day, entry, session', session[s].user, session[s].date)
  /\ UNCHANGED <<entry, request, period, today>>

\* Mutant: a day with an active session is skipped.
ReconcileIdleDay(u, d) ==
  /\ d < today
  /\ day[u][d].status = "open"
  /\ \A s \in ActiveSessions(u) : session[s].date # d
  /\ day' = DayClosed(day, u, d)
  /\ UNCHANGED <<entry, request, period, session, today>>

\* attendance_reconcile_worker: days of the past that are still open, with or
\* without an active session, are closed.
ReconcileDay(u, d) ==
  /\ d < today
  /\ day[u][d].status = "open"
  /\ day' = DayClosed(day, u, d)
  /\ UNCHANGED <<entry, request, period, session, today>>

\* The work date advances.
NextDate ==
  /\ today < LastDate
  /\ today' = today + 1
  /\ UNCHANGED <<entry, request, period, day, session>>

AttendanceNext ==
  \/ \E u \in Users, s \in Sessions :
       \/ \E d \in Dates : CheckIn(u, d, s)
       \/ \E d \in Dates, stale \in Sessions, secs \in Seconds :
            CheckInAfterStale(u, d, s, stale, secs)
       \/ \E secs \in Seconds : CheckOut(u, s, secs)
  \/ \E s \in Sessions, secs \in Seconds : TimeoutSession(s, secs)
  \/ \E u \in Users, d \in Dates : ReconcileDay(u, d)
  \/ NextDate

=============================================================================
