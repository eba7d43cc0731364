------------------------------- MODULE Records -------------------------------
(***************************************************************************)
(* The rows that the time-keeping services share: time entries, weekly     *)
(* timesheet periods, attendance days and work sessions, with the status   *)
(* tables of core/state_machines.py and the derived totals of a day.       *)
(*                                                                         *)
(* Every transaction of the backend is one action of TimeEntries,          *)
(* Timesheets or Attendance, taken when it commits; only a read that the   *)
(* code makes before it holds any lock is an action of its own.            *)
(***************************************************************************)
EXTENDS Integers, FiniteSets

CONSTANTS
  Users,        \* members of one organisation
  Admins,       \* users with the admin role
  Managers,     \* users whose roles make is_manager true (managers and admins)
  Manages,      \* <<m, u>>: u is on a team that m manages
  Entries,      \* identities of time_entry rows, and of the requests that make them
  Sessions,     \* identities of work_session rows
  Slots,        \* precise intervals; two entries overlap when they name the same one
  NoSlot,       \* an entry that gives a duration only
  Keys,         \* client_idempotency_key values
  NoKey,        \* a create request without a key
  Minutes,      \* durations of an entry
  Seconds,      \* durations of a session
  LastDate,     \* work dates are numbered 1..LastDate, date 1 being a Monday
  DaysPerWeek,  \* days of a timesheet period (7 in the code)
  MaxVersion    \* bound: rows with this version are not written again

ASSUME PeopleAssumption ==
  /\ Admins \subseteq Managers
  /\ Managers \subseteq Users
  /\ Manages \subseteq Users \X Users
ASSUME SentinelAssumption == NoSlot \notin Slots /\ NoKey \notin Keys
ASSUME MeasureAssumption == Minutes \subseteq 1..1440 /\ Seconds \subseteq Nat /\ 0 \in Seconds
ASSUME CalendarAssumption == LastDate \in Nat \ {0} /\ DaysPerWeek \in Nat \ {0}
ASSUME VersionAssumption == MaxVersion \in Nat \ {0}

VARIABLES
  entry,    \* entry[e]: a row of time_entry
  request,  \* request[e]: the create request that passed its checks and has not committed
  period,   \* period[u][w]: a row of timesheet_period
  day,      \* day[u][d]: a row of attendance_day
  session,  \* session[s]: a row of work_session
  today     \* the current work date

vars == <<entry, request, period, day, session, today>>

-----------------------------------------------------------------------------
(* Dates, weeks and the status tables *)

Dates == 1..LastDate
WeekOf(d) == (d - 1) \div DaysPerWeek
Weeks == {WeekOf(d) : d \in Dates}

EntryStatus == {"draft", "submitted", "approved", "rejected"}
PeriodStatus == EntryStatus
DayStatus == {"open", "closed", "submitted", "approved", "rejected"}

\* TIME_ENTRY_TRANSITIONS and TIMESHEET_PERIOD_TRANSITIONS are the same table.
TimesheetTable == {<<"draft", "submitted">>, <<"submitted", "approved">>,
                   <<"submitted", "rejected">>, <<"rejected", "draft">>}

\* ATTENDANCE_DAY_TRANSITIONS
DayTable == {<<"open", "closed">>, <<"closed", "open">>, <<"closed", "submitted">>,
             <<"submitted", "approved">>, <<"submitted", "rejected">>,
             <<"rejected", "closed">>}

-----------------------------------------------------------------------------
(* Rows.  A status "none" stands for a row that does not exist, "deleted"  *)
(* for one that was deleted.                                               *)

EntryFields == [user : Users, date : Dates, mins : Minutes,
                slot : Slots \cup {NoSlot}, key : Keys \cup {NoKey}]

NoEntry == [status |-> "none"]
DeletedEntry == [status |-> "deleted"]
EntryRow == [status : EntryStatus, version : 1..MaxVersion,
             user : Users, date : Dates, mins : Minutes,
             slot : Slots \cup {NoSlot}, key : Keys \cup {NoKey}]

NoRequest == [pending |-> FALSE]
RequestRow == [pending : {TRUE}, fields : EntryFields]

PeriodRow == [status : PeriodStatus \cup {"none"}, version : 0..MaxVersion]
NoPeriod == [status |-> "none", version |-> 0]

\* completed: last_logout_at is set.
DayRow == [status : DayStatus \cup {"none"}, completed : BOOLEAN,
           total : SUBSET (Sessions \X Seconds), logged : SUBSET (Entries \X Minutes)]
NoDay == [status |-> "none", completed |-> FALSE, total |-> {}, logged |-> {}]

NoSession == [state |-> "none"]
SessionRow == [state : {"active", "closed"}, user : Users, date : Dates, secs : Seconds]

Live(e) == entry[e].status \in EntryStatus
EntriesOf(u) == {e \in Entries : Live(e) /\ entry[e].user = u}
InWeek(e, u, w) == Live(e) /\ entry[e].user = u /\ WeekOf(entry[e].date) = w
ActiveSessions(u) ==
  {s \in Sessions : session[s].state = "active" /\ session[s].user = u}

\* _assert_week_is_editable
WeekLocked(u, d) == period[u][WeekOf(d)].status \in {"submitted", "approved"}

-----------------------------------------------------------------------------
(* Derived totals of a day: _recompute_totals reads the entries E and the  *)
(* sessions S as the transaction sees them and overwrites both totals.  A  *)
(* total is kept as the set of rows it sums, each with its duration: the   *)
(* column total_session_seconds is the sum over `total', logged_seconds is *)
(* 60 times the sum over `logged'.                                         *)

LoggedSeconds(E, u, d) ==
  {<<e, E[e].mins>> : e \in {x \in Entries : /\ E[x].status \in EntryStatus
                                           /\ E[x].user = u
                                           /\ E[x].date = d}}

SessionSeconds(S, u, d) ==
  {<<s, S[s].secs>> : s \in {x \in Sessions : /\ S[x].state = "closed"
                                            /\ S[x].user = u
                                            /\ S[x].date = d}}

\* recompute_day: the days D after it; a day that has no row is left alone.
Recomputed(D, E, S, u, d) ==
  IF D[u][d].status = "none" THEN D
  ELSE [D EXCEPT ![u][d] = [@ EXCEPT !.total = SessionSeconds(S, u, d),
                                     !.logged = LoggedSeconds(E, u, d)]]

-----------------------------------------------------------------------------

Init ==
  /\ entry = [e \in Entries |-> NoEntry]
  /\ request = [e \in Entries |-> NoRequest]
  /\ period = [u \in Users |-> [w \in Weeks |-> NoPeriod]]
  /\ day = [u \in Users |-> [d \in Dates |-> NoDay]]
  /\ session = [s \in Sessions |-> NoSession]
  /\ today = 1

TypeOK ==
  /\ entry \in [Entries -> EntryRow \cup {NoEntry, DeletedEntry}]
  /\ request \in [Entries -> RequestRow \cup {NoRequest}]
  /\ period \in [Users -> [Weeks -> PeriodRow]]
  /\ day \in [Users -> [Dates -> DayRow]]
  /\ session \in [Sessions -> SessionRow \cup {NoSession}]
  /\ today \in Dates

=============================================================================
