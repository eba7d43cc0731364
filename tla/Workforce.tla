------------------------------ MODULE Workforce ------------------------------
(***************************************************************************)
(* The time-keeping backend: single entries, weeks and attendance act on   *)
(* the same rows, each service with its own locks.                         *)
(***************************************************************************)
EXTENDS TimeEntries, Timesheets, Attendance

Next == TimeEntriesNext \/ TimesheetsNext \/ AttendanceNext

Spec == Init /\ [][Next]_vars

\* The reconcile worker runs for ever, once per tick, and skips only rows that
\* are locked at that moment: it is the one actor with fairness.
WorkerFairness == \A u \in Users, d \in Dates : WF_vars(ReconcileDay(u, d))

FairSpec == Spec /\ WorkerFairness

-----------------------------------------------------------------------------
(* Sessions and days *)

\* A user never has two active sessions: check_in closes or reuses the one it
\* finds (attendance_service.py check_in).
OneActiveSession ==
  \A u \in Users : \A s, t \in ActiveSessions(u) : s = t

\* total_session_seconds always sums exactly the closed sessions of the date,
\* whoever closed them: check-out, the next check-in or the timeout worker.
TotalAccurate ==
  \A u \in Users, d \in Dates :
    day[u][d].status # "none" => day[u][d].total = SessionSeconds(session, u, d)

\* logged_seconds always sums exactly the entries of the date, in whatever order
\* creates, moves, deletes and the creation of the day commit.
LoggedAccurate ==
  \A u \in Users, d \in Dates :
    day[u][d].status # "none" => day[u][d].logged = LoggedSeconds(entry, u, d)

\* A day that was checked out has no active session, even when a check-in of
\* that date waited for the lock until after the check-out.
CompletedDayIdle ==
  \A s \in Sessions : session[s].state = "active" =>
    LET x == day[session[s].user][session[s].date] IN x.status # "none" /\ ~x.completed

\* The worked time of a day is final once the user checked out: no later
\* check-in, timeout or edit of an entry changes it.
CompletedTotalFinal ==
  [][\A u \in Users, d \in Dates :
       day[u][d].completed => day'[u][d].completed /\ day'[u][d].total = day[u][d].total]_vars

RunningOn(u) == {session[s].date : s \in ActiveSessions(u)}
WorkedOn(u, d) == IF day[u][d].status = "none" THEN {} ELSE day[u][d].total
CheckedOut(u) == {d \in Dates : day[u][d].completed}

\* An approved day on which nobody is at work is final: whichever login, check-out,
\* forced close, timeout or worker comes later, nobody is at work on it again and
\* its row keeps its worked total, check-out and status (attendance_service.py
\* check_in, check_out, session_timeout_worker.py).  The session that ran on it
\* when its week was approved still ends and counts, which is why the condition
\* is there; logged_seconds is left out, because entries still enter the week
\* (LockedWeekClosedToEntries).
ApprovedDayFinal ==
  [][\A u \in Users, d \in Dates :
       day[u][d].status = "approved" /\ d \notin RunningOn(u)
         => /\ d \notin RunningOn(u)'
            /\ day'[u][d] = [day[u][d] EXCEPT !.logged = day'[u][d].logged]]_vars

Clock == INSTANCE PunchClock WITH
  Person <- Users, Date <- Dates, Stretch <- Sessions \X Seconds,
  running <- [u \in Users |-> RunningOn(u)],
  worked <- [u \in Users |-> [d \in Dates |-> WorkedOn(u, d)]],
  done <- [u \in Users |-> CheckedOut(u)]

\* Sessions, totals and check-outs are those of one punch clock per user: every
\* stretch counts once, on its date, and no entry, week or worker adds, drops or
\* moves one (attendance_service.py, session_service.py and both workers).
KeepsPunchClock == Clock!ClockSpec

\* A day that is past does not stay open for ever, although check-ins that read
\* the clock earlier may still reopen it (workers/attendance_reconcile_worker.py).
PastDayCloses ==
  \A u \in Users, d \in Dates :
    (day[u][d].status = "open" /\ d + Lag < today) ~> day[u][d].status # "open"

-----------------------------------------------------------------------------
(* Entries and weeks *)

\* A day is submitted, approved or rejected only together with its week, so a
\* day of a week that is absent or draft is open or closed.
DayFollowsPeriod ==
  \A u \in Users, d \in Dates :
    day[u][d].status \in {"submitted", "approved", "rejected"}
      => period[u][WeekOf(d)].status = day[u][d].status

\* Every change of a day's status is in ATTENDANCE_DAY_TRANSITIONS, submit_week
\* alone taking the steps open, closed, submitted at once.
DayStatusLegal ==
  [][\A u \in Users, d \in Dates :
       day[u][d].status \notin {"none", day'[u][d].status}
         => <<day[u][d].status, day'[u][d].status>> \in DayTable \cup {<<"open", "submitted">>}]_vars

\* Retries of a create with one client key, however they interleave, leave one
\* entry (time_entry_service.py create_entry).
OneEntryPerKey ==
  \A e, x \in Entries :
    /\ Live(e) /\ Live(x)
    /\ entry[e].user = entry[x].user
    /\ entry[e].key = entry[x].key
    /\ entry[e].key # NoKey
    => e = x

Content(e) == [user |-> entry[e].user, date |-> entry[e].date, mins |-> entry[e].mins,
               slot |-> entry[e].slot, key |-> entry[e].key]

\* What an entry of a submitted or approved week says cannot change, nor can it
\* be deleted, whatever its own status is.
LockedWeekFrozen ==
  [][\A e \in Entries :
       Live(e) /\ WeekLocked(entry[e].user, entry[e].date)
         => Live(e)' /\ Content(e)' = Content(e)]_vars

\* approved is terminal ("approved -> terminal"): an approved entry and an approved
\* week never change again, and an approved day keeps its status (what else of its
\* row may change is ApprovedDayFinal's question).
ApprovedIsTerminal ==
  [][/\ \A e \in Entries : entry[e].status = "approved" => entry'[e] = entry[e]
     /\ \A u \in Users, w \in Weeks :
          period[u][w].status = "approved" => period'[u][w] = period[u][w]
     /\ \A u \in Users, d \in Dates :
          day[u][d].status = "approved" => day'[u][d].status = "approved"]_vars

\* Every write of an entry or week that survives advances its version by one:
\* what lets a stale expected_version be refused.
VersionCountsWrites ==
  [][/\ \A e \in Entries : Live(e) /\ Live(e)' /\ entry'[e] # entry[e]
          => entry'[e].version = entry[e].version + 1
     /\ \A u \in Users, w \in Weeks : period'[u][w] # period[u][w]
          => period'[u][w].version = period[u][w].version + 1]_vars

\* When a week becomes submitted nothing in it is left behind: every entry and
\* every day of it that exists is submitted in the same step.
SubmitSweepsWeek ==
  [][\A u \in Users, w \in Weeks :
       period[u][w].status # "submitted" /\ period'[u][w].status = "submitted"
         => /\ \A e \in Entries : InWeek(e, u, w)' => entry'[e].status = "submitted"
            /\ \A d \in Dates : WeekOf(d) = w /\ day'[u][d].status # "none"
                 => day'[u][d].status = "submitted"]_vars

-----------------------------------------------------------------------------
(* What the documentation says and the code does not do; see README *)

\* "Refuse changes when the user's timesheet for that week is locked": no entry
\* enters a submitted or approved week.
LockedWeekClosedToEntries ==
  [][\A e \in Entries : Live(e)' /\ (Live(e) => entry'[e].date # entry[e].date)
       => ~WeekLocked(entry'[e].user, entry'[e].date)]_vars

=============================================================================
