----------------------------- MODULE Timesheets ------------------------------
(***************************************************************************)
(* services/timesheet_service.py: a week is created, submitted, reviewed   *)
(* and reopened, and its entries and attendance days follow.               *)
(*                                                                         *)
(* Each operation locks the period, then the rows of the week's entries    *)
(* and days, and commits: one step.  A caller whose expected_version is    *)
(* not the row's is refused without a change.                              *)
(***************************************************************************)
EXTENDS Records

\* get_or_create_for_week.  The caller that loses the race for the unique
\* (user, start, end) fails on its flush and changes nothing.
CreatePeriod(u, w) ==
  /\ period[u][w] = NoPeriod
  /\ period' = [period EXCEPT ![u][w] = [status |-> "draft", version |-> 1]]
  /\ UNCHANGED <<entry, request, day, session, today>>

MayMovePeriod(u, w, target) ==
  /\ <<period[u][w].status, target>> \in TimesheetTable
  /\ period[u][w].version < MaxVersion
  /\ \A e \in Entries : InWeek(e, u, w) => entry[e].version < MaxVersion

\* Mutant: the version of the week stays.
PeriodMovedUnversioned(u, w, target) == [period EXCEPT ![u][w] = [@ EXCEPT !.status = target]]

PeriodMoved(u, w, target) ==
  [period EXCEPT ![u][w] = [status |-> target, version |-> @.version + 1]]

\* Mutant: every entry of the week moves, whatever its status.
EntriesMovedAll(u, w, from, target) ==
  [e \in Entries |->
     IF InWeek(e, u, w)
     THEN [entry[e] EXCEPT !.status = target, !.version = @ + 1]
     ELSE entry[e]]

\* _transition_entries: the entries of the week in status `from' move to
\* `target', the others are skipped.
EntriesMoved(u, w, from, target) ==
  [e \in Entries |->
     IF InWeek(e, u, w) /\ entry[e].status = from
     THEN [entry[e] EXCEPT !.status = target, !.version = @ + 1]
     ELSE entry[e]]

\* Mutant: the days of every week move.
DaysMovedAnyWeek(u, w, from, target) ==
  [day EXCEPT ![u] = [d \in Dates |->
     IF day[u][d].status \in from
     THEN [day[u][d] EXCEPT !.status = target]
     ELSE day[u][d]]]

\* _transition_days
DaysMoved(u, w, from, target) ==
  [day EXCEPT ![u] = [d \in Dates |->
     IF WeekOf(d) = w /\ day[u][d].status \in from
     THEN [day[u][d] EXCEPT !.status = target]
     ELSE day[u][d]]]

\* Mutant: a day still open is not closed first, and is left behind.
SubmitWeekClosedDays(u, w) ==
  /\ MayMovePeriod(u, w, "submitted")
  /\ \E e \in Entries : InWeek(e, u, w)
  /\ \A e \in Entries : InWeek(e, u, w) => entry[e].status = "draft"
  /\ \A s \in ActiveSessions(u) : WeekOf(session[s].date) # w
  /\ entry' = EntriesMoved(u, w, "draft", "submitted")
  /\ day' = DaysMoved(u, w, {"closed"}, "submitted")
  /\ period' = PeriodMoved(u, w, "submitted")
  /\ UNCHANGED <<request, session, today>>

\* The week has entries, all of them drafts, and no session that is active.
\* A day still open without a session is closed first, so open and closed
\* days both end as submitted.
SubmitWeek(u, w) ==
  /\ MayMovePeriod(u, w, "submitted")
  /\ \E e \in Entries : InWeek(e, u, w)
  /\ \A e \in Entries : InWeek(e, u, w) => entry[e].status = "draft"
  /\ \A s \in ActiveSessions(u) : WeekOf(session[s].date) # w
  /\ entry' = EntriesMoved(u, w, "draft", "submitted")
  /\ day' = DaysMoved(u, w, {"open", "closed"}, "submitted")
  /\ period' = PeriodMoved(u, w, "submitted")
  /\ UNCHANGED <<request, session, today>>

\* require_manager, then _assert_manager_can_review
MayReview(r, u) == r \in Managers /\ (r \in Admins \/ r = u \/ <<r, u>> \in Manages)

ReviewWeek(r, u, w, target) ==
  /\ target \in {"approved", "rejected"}
  /\ MayReview(r, u)
  /\ MayMovePeriod(u, w, target)
  /\ entry' = EntriesMoved(u, w, "submitted", target)
  /\ day' = DaysMoved(u, w, {"submitted"}, target)
  /\ period' = PeriodMoved(u, w, target)
  /\ UNCHANGED <<request, session, today>>

\* Mutant: the days take the status of the week.
ReopenWeekDraftDays(u, w) ==
  /\ MayMovePeriod(u, w, "draft")
  /\ entry' = EntriesMoved(u, w, "rejected", "draft")
  /\ day' = DaysMoved(u, w, {"rejected"}, "draft")
  /\ period' = PeriodMoved(u, w, "draft")
  /\ UNCHANGED <<request, session, today>>

\* reopen_week: the owner takes a rejected week back.
ReopenWeek(u, w) ==
  /\ MayMovePeriod(u, w, "draft")
  /\ entry' = EntriesMoved(u, w, "rejected", "draft")
  /\ day' = DaysMoved(u, w, {"rejected"}, "closed")
  /\ period' = PeriodMoved(u, w, "draft")
  /\ UNCHANGED <<request, session, today>>

TimesheetsNext ==
  \E u \in Users, w \in Weeks :
    \/ CreatePeriod(u, w)
    \/ SubmitWeek(u, w)
    \/ \E r \in Users, target \in PeriodStatus : ReviewWeek(r, u, w, target)
    \/ ReopenWeek(u, w)

=============================================================================
