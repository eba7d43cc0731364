----------------------------- MODULE WeekSafety ------------------------------
(***************************************************************************)
(* The safety properties of entries and weeks for every value of the       *)
(* constants: what may happen to an entry, and to the status of a day.     *)
(***************************************************************************)
EXTENDS WorkforceSafety

\* A create request waits for a row that does not exist yet.
RequestsFresh == \A e \in Entries : request[e].pending => entry[e] = NoEntry

SameContent(r, q) ==
  /\ r.user = q.user /\ r.date = q.date /\ r.mins = q.mins
  /\ r.slot = q.slot /\ r.key = q.key

\* e is left alone, inserted, edited or deleted while it may be, or moved along
\* the table by itself or with its week.
Inserted(e) ==
  /\ request[e].pending /\ ~request'[e].pending /\ ~KeyTaken(request[e].fields)
  /\ entry'[e].user = request[e].fields.user /\ entry'[e].key = request[e].fields.key
  /\ \A x \in Entries \ {e} : entry'[x] = entry[x]

Edited(e) ==
  /\ \E actor \in Users : MayEdit(e, actor)
  /\ \/ entry'[e] = DeletedEntry
     \/ /\ entry'[e].status = entry[e].status
        /\ entry'[e].version = entry[e].version + 1
        /\ entry'[e].user = entry[e].user /\ entry'[e].key = entry[e].key

Moved(e) ==
  /\ Live(e)
  /\ entry'[e].version = entry[e].version + 1
  /\ SameContent(entry'[e], entry[e])
  /\ <<entry[e].status, entry'[e].status>> \in TimesheetTable
  /\ entry'[e].status \in EntryStatus

\* A live row with another status and version.
LEMMA MovedRow ==
  ASSUME TypeOK, NEW e \in Entries, Live(e), NEW target \in EntryStatus,
         <<entry[e].status, target>> \in TimesheetTable,
         entry'[e] = [entry[e] EXCEPT !.status = target, !.version = @ + 1]
  PROVE  Moved(e)
<1>1. entry[e] \in EntryRow
  BY LiveRow
<1> DEFINE next == entry[e].version + 1
<1>2. entry'[e] = [entry[e] EXCEPT !.status = target, !.version = next]
  OBVIOUS
<1> HIDE DEF next
<1>3. /\ entry'[e].status = target /\ entry'[e].version = next
      /\ SameContent(entry'[e], entry[e])
  BY <1>1, <1>2 DEF EntryRow, SameContent
<1>4. QED
  BY <1>3 DEF Moved, next

\* The status changes of an entry, by itself and with its week.
LEMMA StatusFate ==
  ASSUME TypeOK, NEW e \in Entries,
         \/ TimesheetsNext
         \/ \E x \in Entries, actor \in Users, target \in EntryStatus :
              TransitionEntry(x, actor, target)
  PROVE  entry'[e] = entry[e] \/ Moved(e)
<1>0. entry \in EntryTable
  BY DEF TypeOK, EntryTable
<1>1. ASSUME NEW x \in Entries, NEW actor \in Users, NEW target \in EntryStatus,
             TransitionEntry(x, actor, target)
      PROVE  entry'[e] = entry[e] \/ Moved(e)
  <2>1. CASE x = e
    <3>1. entry'[e] = [entry[e] EXCEPT !.status = target, !.version = @ + 1]
      BY <1>0, <1>1, <2>1 DEF TransitionEntry, EntryTable
    <3>2. QED
      BY <1>1, <2>1, <3>1, MovedRow DEF TransitionEntry
  <2>2. CASE x # e
    BY <1>0, <1>1, <2>2 DEF TransitionEntry, EntryTable
  <2>3. QED
    BY <2>1, <2>2
<1>2. ASSUME NEW u \in Users, NEW w \in Weeks, NEW from, NEW target \in EntryStatus,
             <<from, target>> \in TimesheetTable, entry' = EntriesMoved(u, w, from, target)
      PROVE  entry'[e] = entry[e] \/ Moved(e)
  <2>1. CASE InWeek(e, u, w) /\ entry[e].status = from
    <3>1. entry'[e] = [entry[e] EXCEPT !.status = target, !.version = @ + 1]
      BY <1>2, <2>1 DEF EntriesMoved
    <3>2. QED
      BY <1>2, <2>1, <3>1, MovedRow DEF InWeek
  <2>2. CASE ~(InWeek(e, u, w) /\ entry[e].status = from)
    BY <1>2, <2>2 DEF EntriesMoved
  <2>3. QED
    BY <2>1, <2>2
<1>3. ASSUME NEW u \in Users, NEW w \in Weeks, SubmitWeek(u, w)
      PROVE  entry'[e] = entry[e] \/ Moved(e)
  BY <1>2, <1>3 DEF SubmitWeek, TimesheetTable, EntryStatus
<1>4. ASSUME NEW u \in Users, NEW w \in Weeks, NEW r \in Users, NEW target \in PeriodStatus,
             ReviewWeek(r, u, w, target)
      PROVE  entry'[e] = entry[e] \/ Moved(e)
  BY <1>2, <1>4 DEF ReviewWeek, TimesheetTable, EntryStatus
<1>5. ASSUME NEW u \in Users, NEW w \in Weeks, ReopenWeek(u, w)
      PROVE  entry'[e] = entry[e] \/ Moved(e)
  BY <1>2, <1>5 DEF ReopenWeek, TimesheetTable, EntryStatus
<1>6. CASE TimesheetsNext
  BY <1>3, <1>4, <1>5, <1>6 DEF TimesheetsNext, CreatePeriod
<1>7. QED
  BY <1>1, <1>6

LEMMA EntryFate ==
  ASSUME TypeOK, Next, NEW e \in Entries
  PROVE  entry'[e] = entry[e] \/ Inserted(e) \/ Edited(e) \/ Moved(e)
<1>0. entry \in EntryTable
  BY DEF TypeOK, EntryTable
<1>1. ASSUME NEW x \in Entries, NEW f \in EntryFields, CheckCreate(x, f)
      PROVE  entry' = entry
  BY <1>1 DEF CheckCreate
<1>2. ASSUME NEW x \in Entries, InsertEntry(x)
      PROVE  entry'[e] = entry[e] \/ Inserted(e)
  BY <1>0, <1>2 DEF InsertEntry, Inserted, EntryTable, TypeOK, NoRequest
<1>3. ASSUME NEW x \in Entries, ReplayCreate(x) \/ AbortCreate(x)
      PROVE  entry' = entry
  BY <1>3 DEF ReplayCreate, AbortCreate
<1>4. ASSUME NEW x \in Entries, NEW actor \in Users, NEW date \in Dates,
             NEW slot \in Slots \cup {NoSlot}, NEW mins \in Minutes,
             UpdateEntry(x, actor, date, slot, mins)
      PROVE  entry'[e] = entry[e] \/ Edited(e)
  <2> DEFINE next == entry[x].version + 1
             row == [entry[x] EXCEPT !.date = date, !.slot = slot, !.mins = mins,
                                     !.version = next]
  <2>1. MayEdit(x, actor) /\ entry' = [entry EXCEPT ![x] = row]
    BY <1>4 DEF UpdateEntry
  <2>2. entry[x] \in EntryRow
    BY <2>1, LiveRow DEF MayEdit
  <2> HIDE DEF next
  <2>3. /\ row.status = entry[x].status /\ row.version = next
        /\ row.user = entry[x].user /\ row.key = entry[x].key
    BY <2>2 DEF EntryRow
  <2> HIDE DEF row
  <2>4. QED
    BY <1>0, <2>1, <2>3 DEF Edited, EntryTable, next
<1>5. ASSUME NEW x \in Entries, NEW actor \in Users, DeleteEntry(x, actor)
      PROVE  entry'[e] = entry[e] \/ Edited(e)
  BY <1>0, <1>5 DEF DeleteEntry, Edited, EntryTable
<1>6. ASSUME TimesheetsNext \/ \E x \in Entries, actor \in Users, target \in EntryStatus :
                                  TransitionEntry(x, actor, target)
      PROVE  entry'[e] = entry[e] \/ Moved(e)
  BY <1>6, StatusFate
<1>7. CASE TimeEntriesNext
  BY <1>1, <1>2, <1>3, <1>4, <1>5, <1>6, <1>7 DEF TimeEntriesNext
<1>8. CASE TimesheetsNext
  BY <1>6, <1>8
<1>9. CASE AttendanceNext
  BY <1>9, AttendanceFrame
<1>10. QED
  BY <1>7, <1>8, <1>9 DEF Next

LEMMA FreshStep == TypeOK /\ RequestsFresh /\ [Next]_vars => RequestsFresh'
<1> SUFFICES ASSUME TypeOK, RequestsFresh, [Next]_vars, NEW e \in Entries, request'[e].pending
             PROVE  entry'[e] = NoEntry
  BY DEF RequestsFresh
<1>1. CASE UNCHANGED vars
  BY <1>1 DEF RequestsFresh, vars
<1>2. CASE Next
  <2>0. request \in [Entries -> RequestRow \cup {NoRequest}] /\ ~NoRequest.pending
    BY DEF TypeOK, NoRequest
  <2>1. request[e].pending \/ (entry[e] = NoEntry /\ entry' = entry)
    <3>1. ASSUME NEW x \in Entries, NEW f \in EntryFields, CheckCreate(x, f)
          PROVE  request[e].pending \/ (entry[e] = NoEntry /\ entry' = entry)
      BY <2>0, <3>1 DEF CheckCreate
    <3>2. ASSUME NEW x \in Entries, InsertEntry(x) \/ ReplayCreate(x) \/ AbortCreate(x)
          PROVE  request[e].pending
      BY <2>0, <3>2 DEF InsertEntry, ReplayCreate, AbortCreate
    <3>3. ASSUME request' = request PROVE request[e].pending
      BY <3>3
    <3>4. CASE TimeEntriesNext
      <4>1. ASSUME NEW x \in Entries, NEW actor \in Users, NEW date \in Dates,
                   NEW slot \in Slots \cup {NoSlot}, NEW mins \in Minutes,
                   UpdateEntry(x, actor, date, slot, mins)
            PROVE  request' = request
        BY <4>1 DEF UpdateEntry
      <4>2. ASSUME NEW x \in Entries, NEW actor \in Users, DeleteEntry(x, actor)
            PROVE  request' = request
        BY <4>2 DEF DeleteEntry
      <4>3. ASSUME NEW x \in Entries, NEW actor \in Users, NEW target \in EntryStatus,
                   TransitionEntry(x, actor, target)
            PROVE  request' = request
        BY <4>3 DEF TransitionEntry
      <4>4. QED
        BY <3>1, <3>2, <3>3, <3>4, <4>1, <4>2, <4>3 DEF TimeEntriesNext
    <3>5. CASE TimesheetsNext
      BY <3>3, <3>5 DEF TimesheetsNext, CreatePeriod, SubmitWeek, ReviewWeek, ReopenWeek
    <3>6. CASE AttendanceNext
      BY <3>3, <3>6, AttendanceFrame
    <3>7. QED
      BY <1>2, <3>4, <3>5, <3>6 DEF Next
  <2>2. CASE request[e].pending
    <3>1. entry[e] = NoEntry /\ ~Live(e)
      BY <2>2 DEF RequestsFresh, Live, NoEntry, EntryStatus
    <3>2. ~Inserted(e) /\ ~Edited(e) /\ ~Moved(e)
      BY <3>1 DEF Inserted, Edited, Moved, MayEdit
    <3>3. QED
      BY <1>2, <3>1, <3>2, EntryFate
  <2>3. QED
    BY <2>1, <2>2
<1>3. QED
  BY <1>1, <1>2

LEMMA FreshHolds == Spec => [](TypeOK /\ RequestsFresh)
<1>1. Init => RequestsFresh
  BY DEF Init, RequestsFresh, NoRequest
<1>2. QED
  BY <1>1, FreshStep, TypeCorrect, PTL DEF Spec

-----------------------------------------------------------------------------
(* Keys *)

\* A live entry was live before with its user and key, or was just inserted.
LEMMA KeyKept ==
  ASSUME TypeOK, RequestsFresh, [Next]_vars, NEW e \in Entries, entry'[e].status \in EntryStatus
  PROVE  \/ Inserted(e)
         \/ Live(e) /\ entry'[e].user = entry[e].user /\ entry'[e].key = entry[e].key
<1>1. CASE entry'[e] = entry[e]
  BY <1>1 DEF Live
<1>2. CASE Edited(e)
  BY <1>2 DEF Edited, MayEdit, DeletedEntry, EntryStatus
<1>3. CASE Moved(e)
  BY <1>3 DEF Moved, SameContent
<1>4. QED
  BY <1>1, <1>2, <1>3, EntryFate DEF vars

LEMMA KeyStep == TypeOK /\ RequestsFresh /\ OneEntryPerKey /\ [Next]_vars => OneEntryPerKey'
<1> SUFFICES ASSUME TypeOK, RequestsFresh, OneEntryPerKey, [Next]_vars,
                    NEW e \in Entries, NEW x \in Entries,
                    entry'[e].status \in EntryStatus, entry'[x].status \in EntryStatus,
                    entry'[e].user = entry'[x].user, entry'[e].key = entry'[x].key,
                    entry'[e].key # NoKey, e # x
             PROVE  FALSE
  BY DEF OneEntryPerKey, Live
<1>1. ASSUME NEW a \in Entries, NEW b \in Entries, a # b, Inserted(a),
             entry'[b].status \in EntryStatus,
             entry'[a].user = entry'[b].user, entry'[a].key = entry'[b].key,
             entry'[a].key # NoKey
      PROVE  FALSE
  <2>1. entry'[b] = entry[b] /\ Live(b)
    BY <1>1 DEF Inserted, Live
  <2>2. KeyTaken(request[a].fields)
    BY <1>1, <2>1 DEF Inserted, KeyTaken, EntriesOf
  <2>3. QED
    BY <1>1, <2>2 DEF Inserted
<1>2. ~Inserted(e) /\ ~Inserted(x)
  BY <1>1
<1>3. /\ Live(e) /\ entry'[e].user = entry[e].user /\ entry'[e].key = entry[e].key
      /\ Live(x) /\ entry'[x].user = entry[x].user /\ entry'[x].key = entry[x].key
  BY <1>2, KeyKept
<1>4. QED
  BY <1>3 DEF OneEntryPerKey

\* However many requests with one client key are under way, aborted, replayed or
\* repeated after a deletion, at most one entry has the key.
THEOREM KeysUnique == Spec => []OneEntryPerKey
<1>1. Init => OneEntryPerKey
  BY DEF Init, OneEntryPerKey, Live, NoEntry, EntryStatus
<1>2. QED
  BY <1>1, KeyStep, FreshHolds, PTL DEF Spec

-----------------------------------------------------------------------------
(* Locked weeks *)

\* No interleaving of edits, deletes and week decisions changes what an entry of
\* a submitted or approved week says.
THEOREM LockedEntriesFrozen == Spec => LockedWeekFrozen
<1>1. ASSUME TypeOK, RequestsFresh, [Next]_vars, NEW e \in Entries,
             Live(e), WeekLocked(entry[e].user, entry[e].date)
      PROVE  Live(e)' /\ Content(e)' = Content(e)
  <2>1. ~Inserted(e)
    BY <1>1 DEF Inserted, RequestsFresh, Live, NoEntry, EntryStatus
  <2>2. ~Edited(e)
    BY <1>1 DEF Edited, MayEdit
  <2>3. entry'[e] = entry[e] \/ Moved(e)
    BY <1>1, <2>1, <2>2, EntryFate DEF vars
  <2>4. QED
    BY <1>1, <2>3 DEF Moved, SameContent, Live, Content
<1>2. TypeOK /\ RequestsFresh /\ [Next]_vars =>
        \A e \in Entries : Live(e) /\ WeekLocked(entry[e].user, entry[e].date)
          => Live(e)' /\ Content(e)' = Content(e)
  BY <1>1
<1>3. QED
  BY <1>2, FreshHolds, PTL DEF Spec, LockedWeekFrozen

-----------------------------------------------------------------------------
(* The days of a week *)

Reviewed == {"submitted", "approved", "rejected"}

\* A week moves to `to' and its days in `from' to `target': they agree afterwards
\* if the days that followed the week are all in `from'.
LEMMA WeekTakesDays ==
  ASSUME TypeOK, DayFollowsPeriod, NEW u \in Users, NEW w \in Weeks, NEW to, NEW from, NEW target,
         target \in Reviewed => target = to,
         period[u][w].status \in Reviewed => period[u][w].status \in from,
         day' = DaysMoved(u, w, from, target),
         period' = PeriodMoved(u, w, to)
  PROVE  DayFollowsPeriod'
<1> SUFFICES ASSUME NEW v \in Users, NEW x \in Dates, day'[v][x].status \in Reviewed
             PROVE  period'[v][WeekOf(x)].status = day'[v][x].status
  BY DEF DayFollowsPeriod, Reviewed
<1>1. /\ day \in [Users -> [Dates -> DayRow]] /\ period \in [Users -> [Weeks -> PeriodRow]]
      /\ WeekOf(x) \in Weeks
  BY DEF TypeOK, Weeks
<1>2. day[v][x].status \in Reviewed => period[v][WeekOf(x)].status = day[v][x].status
  BY DEF DayFollowsPeriod, Reviewed
<1>3. CASE v = u /\ WeekOf(x) = w
  <2>1. period'[v][WeekOf(x)].status = to
    BY <1>1, <1>3 DEF PeriodMoved
  <2>2. CASE day[v][x].status \in from
    <3>1. day'[v][x].status = target
      <4>1. day'[v][x] = [day[v][x] EXCEPT !.status = target]
        BY <1>1, <1>3, <2>2 DEF DaysMoved
      <4>2. day[v][x] \in DayRow
        BY <1>1
      <4>3. QED
        BY <4>1, <4>2 DEF DayRow
    <3>2. QED
      BY <2>1, <3>1
  <2>3. CASE day[v][x].status \notin from
    <3>1. day'[v][x] = day[v][x]
      BY <1>1, <1>3, <2>3 DEF DaysMoved
    <3>2. QED
      BY <1>2, <1>3, <2>3, <3>1
  <2>4. QED
    BY <2>2, <2>3
<1>4. CASE ~(v = u /\ WeekOf(x) = w)
  <2>1. period'[v][WeekOf(x)] = period[v][WeekOf(x)]
    BY <1>1, <1>4 DEF PeriodMoved
  <2>2. day'[v][x] = day[v][x]
    BY <1>1, <1>4 DEF DaysMoved
  <2>3. QED
    BY <1>2, <2>1, <2>2
<1>5. QED
  BY <1>3, <1>4

LEMMA DayFollowsStep ==
  TypeOK /\ TypeOK' /\ DayFollowsPeriod /\ [Next]_vars => DayFollowsPeriod'
<1> SUFFICES ASSUME TypeOK, TypeOK', DayFollowsPeriod, [Next]_vars PROVE DayFollowsPeriod'
  OBVIOUS
<1>1. CASE UNCHANGED vars
  BY <1>1 DEF vars, DayFollowsPeriod
<1>2. CASE TimeEntriesNext
  BY <1>2, EntryStepDays DEF DayFollowsPeriod
<1>3. CASE AttendanceNext
  BY <1>3, AttendanceStatus DEF DayFollowsPeriod, Drift
<1>4. ASSUME NEW u \in Users, NEW w \in Weeks, CreatePeriod(u, w)
      PROVE  DayFollowsPeriod'
  <2>1. SUFFICES ASSUME NEW v \in Users, NEW x \in Dates, day[v][x].status \in Reviewed
                 PROVE  period'[v][WeekOf(x)] = period[v][WeekOf(x)]
    BY <1>4 DEF DayFollowsPeriod, CreatePeriod, Reviewed
  <2>2. period[v][WeekOf(x)] # NoPeriod
    BY <2>1 DEF DayFollowsPeriod, NoPeriod, Reviewed
  <2>3. QED
    BY <1>4, <2>2 DEF CreatePeriod, TypeOK
<1>5. ASSUME NEW u \in Users, NEW w \in Weeks, SubmitWeek(u, w)
      PROVE  DayFollowsPeriod'
  <2>1. period[u][w].status \notin Reviewed
    BY <1>5 DEF SubmitWeek, MayMovePeriod, TimesheetTable, Reviewed
  <2>2. QED
    BY <1>5, <2>1, WeekTakesDays DEF SubmitWeek
<1>6. ASSUME NEW u \in Users, NEW w \in Weeks, NEW r \in Users, NEW target \in PeriodStatus,
             ReviewWeek(r, u, w, target)
      PROVE  DayFollowsPeriod'
  <2>1. period[u][w].status = "submitted"
    BY <1>6 DEF ReviewWeek, MayMovePeriod, TimesheetTable
  <2>2. QED
    BY <1>6, <2>1, WeekTakesDays DEF ReviewWeek
<1>7. ASSUME NEW u \in Users, NEW w \in Weeks, ReopenWeek(u, w)
      PROVE  DayFollowsPeriod'
  <2>1. period[u][w].status = "rejected"
    BY <1>7 DEF ReopenWeek, MayMovePeriod, TimesheetTable
  <2>2. QED
    BY <1>7, <2>1, WeekTakesDays DEF ReopenWeek, Reviewed
<1>8. QED
  BY <1>1, <1>2, <1>3, <1>4, <1>5, <1>6, <1>7 DEF Next, TimesheetsNext

\* Whatever check-ins, check-outs and workers do to a day, it is submitted or
\* reviewed exactly as long as its week is.
THEOREM DaysFollowWeeks == Spec => []DayFollowsPeriod
<1>1. Init => DayFollowsPeriod
  BY DEF Init, DayFollowsPeriod, NoDay
<1>2. QED
  BY <1>1, DayFollowsStep, TypeCorrect, PTL DEF Spec

-----------------------------------------------------------------------------
(* Approval *)

\* A week is created, or moves along the table with its version.
LEMMA PeriodFate ==
  ASSUME TypeOK, TypeOK', [Next]_vars, NEW u \in Users, NEW w \in Weeks
  PROVE  \/ period'[u][w] = period[u][w]
         \/ /\ period'[u][w].version = period[u][w].version + 1
            /\ \/ period[u][w] = NoPeriod
               \/ <<period[u][w].status, period'[u][w].status>> \in TimesheetTable
<1> DEFINE Fate == \/ period'[u][w] = period[u][w]
                   \/ /\ period'[u][w].version = period[u][w].version + 1
                      /\ \/ period[u][w] = NoPeriod
                         \/ <<period[u][w].status, period'[u][w].status>> \in TimesheetTable
<1> SUFFICES Fate
  OBVIOUS
<1>1. period \in [Users -> [Weeks -> PeriodRow]]
  BY DEF TypeOK
<1>2. ASSUME NEW v \in Users, NEW x \in Weeks, NEW to, MayMovePeriod(v, x, to),
             period' = PeriodMoved(v, x, to)
      PROVE  Fate
  BY <1>1, <1>2 DEF PeriodMoved, MayMovePeriod
<1>3. ASSUME NEW v \in Users, NEW x \in Weeks, CreatePeriod(v, x)
      PROVE  Fate
  BY <1>1, <1>3 DEF CreatePeriod, NoPeriod
<1> HIDE DEF Fate
<1>4. CASE TimesheetsNext
  BY <1>2, <1>3, <1>4 DEF TimesheetsNext, SubmitWeek, ReviewWeek, ReopenWeek
<1>5. CASE period' = period
  BY <1>5 DEF Fate
<1>6. QED
  BY <1>4, <1>5, EntryStepDays, AttendanceStatus DEF Next, vars

\* Days open and close by attendance and follow the decisions on their week.
LEMMA DayFate ==
  ASSUME TypeOK, TypeOK', [Next]_vars, NEW u \in Users, NEW d \in Dates
  PROVE  \/ day'[u][d].status = day[u][d].status
         \/ day[u][d].status = "none"
         \/ <<day[u][d].status, day'[u][d].status>> \in DayTable \cup {<<"open", "submitted">>}
<1> DEFINE Fate == \/ day'[u][d].status = day[u][d].status
                   \/ day[u][d].status = "none"
                   \/ <<day[u][d].status, day'[u][d].status>> \in DayTable \cup {<<"open", "submitted">>}
<1> SUFFICES Fate
  OBVIOUS
<1>1. day \in [Users -> [Dates -> DayRow]]
  BY DEF TypeOK
<1>2. ASSUME NEW v \in Users, NEW w \in Weeks, NEW from, NEW target,
             \A x \in from : <<x, target>> \in DayTable \cup {<<"open", "submitted">>},
             day' = DaysMoved(v, w, from, target)
      PROVE  Fate
  <2>1. CASE v = u /\ WeekOf(d) = w /\ day[u][d].status \in from
    <3>1. day'[u][d] = [day[u][d] EXCEPT !.status = target]
      BY <1>1, <1>2, <2>1 DEF DaysMoved
    <3>2. day'[u][d].status = target
      BY <1>1, <3>1 DEF DayRow
    <3>3. QED
      BY <1>2, <2>1, <3>2
  <2>2. CASE ~(v = u /\ WeekOf(d) = w /\ day[u][d].status \in from)
    BY <1>1, <1>2, <2>2 DEF DaysMoved
  <2>3. QED
    BY <2>1, <2>2
<1>3. ASSUME day' = day PROVE Fate
  BY <1>3
<1>4. CASE AttendanceNext
  BY <1>4, AttendanceStatus DEF Drift, DayTable
<1>5. CASE TimeEntriesNext
  BY <1>5, EntryStepDays
<1> HIDE DEF Fate
<1>6. CASE TimesheetsNext
  <2>1. ASSUME NEW v \in Users, NEW w \in Weeks, CreatePeriod(v, w) PROVE Fate
    BY <1>3, <2>1 DEF CreatePeriod
  <2>2. ASSUME NEW v \in Users, NEW w \in Weeks, SubmitWeek(v, w) PROVE Fate
    BY <1>2, <2>2 DEF SubmitWeek, DayTable
  <2>3. ASSUME NEW v \in Users, NEW w \in Weeks, NEW r \in Users, NEW target \in PeriodStatus,
               ReviewWeek(r, v, w, target)
        PROVE  Fate
    BY <1>2, <2>3 DEF ReviewWeek, DayTable
  <2>4. ASSUME NEW v \in Users, NEW w \in Weeks, ReopenWeek(v, w) PROVE Fate
    BY <1>2, <2>4 DEF ReopenWeek, DayTable
  <2>5. QED
    BY <1>6, <2>1, <2>2, <2>3, <2>4 DEF TimesheetsNext
<1>7. QED
  BY <1>3, <1>4, <1>5, <1>6 DEF Next, vars

\* "approved -> terminal": no operation of any service changes an approved entry or
\* week, nor the status of an approved day.
THEOREM ApprovalIsTerminal == Spec => ApprovedIsTerminal
<1>1. ASSUME TypeOK, RequestsFresh, [Next]_vars, NEW e \in Entries, entry[e].status = "approved"
      PROVE  entry'[e] = entry[e]
  <2>1. ~Inserted(e) /\ ~Edited(e) /\ ~Moved(e)
    BY <1>1 DEF Inserted, RequestsFresh, NoEntry, Edited, MayEdit, Moved, TimesheetTable
  <2>2. QED
    BY <1>1, <2>1, EntryFate DEF vars
<1>2. ASSUME TypeOK, TypeOK', [Next]_vars, NEW u \in Users, NEW w \in Weeks,
             period[u][w].status = "approved"
      PROVE  period'[u][w] = period[u][w]
  BY <1>2, PeriodFate DEF NoPeriod, TimesheetTable
<1>3. ASSUME TypeOK, TypeOK', [Next]_vars, NEW u \in Users, NEW d \in Dates,
             day[u][d].status = "approved"
      PROVE  day'[u][d].status = "approved"
  BY <1>3, DayFate DEF DayTable
<1>4. TypeOK /\ TypeOK' /\ RequestsFresh /\ [Next]_vars =>
        /\ \A e \in Entries : entry[e].status = "approved" => entry'[e] = entry[e]
        /\ \A u \in Users, w \in Weeks :
             period[u][w].status = "approved" => period'[u][w] = period[u][w]
        /\ \A u \in Users, d \in Dates :
             day[u][d].status = "approved" => day'[u][d].status = "approved"
  BY <1>1, <1>2, <1>3
<1>5. QED
  BY <1>4, FreshHolds, TypeCorrect, PTL DEF Spec, ApprovedIsTerminal

\* Where nobody of the user is at work on a date, no step ends a session there, so
\* the sessions closed on it stay as they are; a login starts only where MayLogin holds.
LEMMA IdleDateStep ==
  ASSUME TypeOK, TypeOK', DayInv, [Next]_vars, NEW u \in Users, NEW d \in Dates,
         d \notin RunsOn(session, u), day[u][d].status = "approved"
  PROVE  /\ d \notin RunsOn(session', u)
         /\ SessionSeconds(session', u, d) = SessionSeconds(session, u, d)
         /\ day'[u][d].completed = day[u][d].completed
<1> DEFINE Kept == /\ d \notin RunsOn(session', u)
                   /\ SessionSeconds(session', u, d) = SessionSeconds(session, u, d)
                   /\ day'[u][d].completed = day[u][d].completed
<1> SUFFICES Kept
  OBVIOUS
<1>t. session \in SessionTable /\ session' \in SessionTable
  BY DEF TypeOK, SessionTable
<1>s. Solitary(session)
  BY SoundFacts DEF Sound
<1>1. ~MayLogin(u, d)
  BY DEF MayLogin, NoDay
<1>2. ASSUME NEW T \in SessionTable, NEW s \in Sessions, ClosedIn(session, T, s)
      PROVE  /\ d \notin RunsOn(T, u)
             /\ SessionSeconds(T, u, d) = SessionSeconds(session, u, d)
             /\ ~(u = session[s].user /\ d = session[s].date)
  <2>1. ~(u = session[s].user /\ d = session[s].date)
    BY <1>2 DEF ClosedIn, RunsOn
  <2>2. d \notin RunsOn(T, u)
    BY <1>s, <1>2, ClosedRuns
  <2>3. SessionSeconds(T, u, d) = SessionSeconds(session, u, d)
    BY <1>2, <2>1 DEF SessionSeconds, ClosedIn
  <2>4. QED
    BY <2>1, <2>2, <2>3
<1>3. CASE Quiet
  BY <1>3 DEF Quiet, SameDone
<1>4. ASSUME NEW v \in Users, NEW x \in Dates, NEW s \in Sessions, Arrives(v, x, s)
      PROVE  Kept
  <2>1. /\ session[s] = NoSession /\ session' = Login(session, s, v, x) /\ MayLogin(v, x)
        /\ RunsOn(session, v) = {} /\ SameDone
    BY <1>4 DEF Arrives, Entered, RunsOn, ActiveSessions
  <2>2. /\ RunsOn(session', u) = IF u = v THEN {x} ELSE RunsOn(session, u)
        /\ SessionSeconds(session', u, d) = SessionSeconds(session, u, d)
    BY <1>t, <2>1, LoginRuns
  <2>3. QED
    BY <1>1, <2>1, <2>2 DEF SameDone
<1>5. ASSUME NEW v \in Users, NEW x \in Dates, NEW s \in Sessions, NEW stale \in Sessions,
             NEW T \in SessionTable, Changes(v, x, s, stale, T)
      PROVE  Kept
  <2>1. /\ ClosedIn(session, T, stale) /\ session[stale].user = v
        /\ T[s] = NoSession /\ session' = Login(T, s, v, x) /\ MayLogin(v, x) /\ SameDone
    BY <1>5 DEF Changes, Entered
  <2>2. RunsOn(T, v) = {}
    BY <1>s, <2>1, ClosedRuns
  <2>3. /\ RunsOn(session', u) = IF u = v THEN {x} ELSE RunsOn(T, u)
        /\ SessionSeconds(session', u, d) = SessionSeconds(T, u, d)
    BY <2>1, <2>2, LoginRuns
  <2>4. QED
    BY <1>1, <1>2, <2>1, <2>3 DEF SameDone
<1>6. ASSUME NEW s \in Sessions, Leaves(s)
      PROVE  Kept
  <2>1. day[u][d].completed \in BOOLEAN
    BY DEF TypeOK, DayRow
  <2>2. ClosedIn(session, session', s)
    BY <1>6 DEF Leaves
  <2>3. day'[u][d].completed = day[u][d].completed
    BY <1>t, <1>2, <1>6, <2>1, <2>2 DEF Leaves, SameDone
  <2>4. QED
    BY <1>t, <1>2, <2>2, <2>3
<1>7. QED
  BY <1>3, <1>4, <1>5, <1>6, SessionMoves

\* An approved day on which nobody is at work keeps its worked total, its check-out
\* and its status for ever, whoever acts later: the total is what the closed
\* sessions of the date say, before and after, and no step ends a session there.
THEOREM ApprovedDaysAreFinal == Spec => ApprovedDayFinal
<1>1. ASSUME TypeOK, TypeOK', DayInv, DayInv', [Next]_vars, NEW u \in Users, NEW d \in Dates,
             day[u][d].status = "approved", d \notin RunningOn(u)
      PROVE  /\ d \notin RunningOn(u)'
             /\ day'[u][d] = [day[u][d] EXCEPT !.logged = day'[u][d].logged]
  <2>1. d \notin RunsOn(session, u)
    BY <1>1 DEF RunningOn, RunsOn, ActiveSessions
  <2>2. /\ d \notin RunsOn(session', u)
        /\ SessionSeconds(session', u, d) = SessionSeconds(session, u, d)
        /\ day'[u][d].completed = day[u][d].completed
    BY <1>1, <2>1, IdleDateStep
  <2>3. day'[u][d].status = "approved"
    BY <1>1, DayFate DEF DayTable
  <2>4. day'[u][d].total = day[u][d].total
    BY <1>1, <2>2, <2>3 DEF DayInv, TotalAccurate
  <2>5. day[u][d] \in DayRow /\ day'[u][d] \in DayRow
    BY <1>1 DEF TypeOK
  <2>6. day'[u][d] = [day[u][d] EXCEPT !.logged = day'[u][d].logged]
    BY <1>1, <2>2, <2>3, <2>4, <2>5 DEF DayRow
  <2>7. d \notin RunningOn(u)'
    BY <2>2 DEF RunningOn, RunsOn, ActiveSessions
  <2>8. QED
    BY <2>6, <2>7
<1>2. TypeOK /\ TypeOK' /\ DayInv /\ DayInv' /\ [Next]_vars =>
        [\A u \in Users, d \in Dates :
           day[u][d].status = "approved" /\ d \notin RunningOn(u)
             => /\ d \notin RunningOn(u)'
                /\ day'[u][d] = [day[u][d] EXCEPT !.logged = day'[u][d].logged]]_vars
  BY <1>1
<1>3. QED
  BY <1>2, TypeCorrect, DayInvCorrect, PTL DEF Spec, ApprovedDayFinal

-----------------------------------------------------------------------------
(* Versions, statuses and the submission of a week *)

\* Whichever service writes an entry or a week, alone or with its week, the
\* version goes up by exactly one: no write can be taken for another.
THEOREM VersionsCount == Spec => VersionCountsWrites
<1>1. ASSUME TypeOK, RequestsFresh, [Next]_vars, NEW e \in Entries,
             Live(e), Live(e)', entry'[e] # entry[e]
      PROVE  entry'[e].version = entry[e].version + 1
  <2>1. ~Inserted(e)
    BY <1>1 DEF Inserted, RequestsFresh, Live, NoEntry, EntryStatus
  <2>2. entry'[e] # DeletedEntry
    BY <1>1 DEF Live, DeletedEntry, EntryStatus
  <2>3. QED
    BY <1>1, <2>1, <2>2, EntryFate DEF Edited, Moved, vars
<1>2. TypeOK /\ TypeOK' /\ RequestsFresh /\ [Next]_vars =>
        /\ \A e \in Entries : Live(e) /\ Live(e)' /\ entry'[e] # entry[e]
              => entry'[e].version = entry[e].version + 1
        /\ \A u \in Users, w \in Weeks : period'[u][w] # period[u][w]
              => period'[u][w].version = period[u][w].version + 1
  BY <1>1, PeriodFate
<1>3. QED
  BY <1>2, FreshHolds, TypeCorrect, PTL DEF Spec, VersionCountsWrites

\* Whoever moves a day, attendance, a worker or its week, the move is in the
\* table of core/state_machines.py, or is that of an open day that is submitted.
THEOREM DayStatusesLegal == Spec => DayStatusLegal
<1>1. TypeOK /\ TypeOK' /\ [Next]_vars =>
        [\A u \in Users, d \in Dates : day[u][d].status \notin {"none", day'[u][d].status}
           => <<day[u][d].status, day'[u][d].status>> \in DayTable \cup {<<"open", "submitted">>}]_vars
  BY DayFate
<1>2. QED
  BY <1>1, TypeCorrect, PTL DEF Spec, DayStatusLegal

\* Only submit_week makes a week submitted.
LEMMA SubmittedBy ==
  ASSUME TypeOK, TypeOK', Next, NEW u \in Users, NEW w \in Weeks,
         period[u][w].status # "submitted", period'[u][w].status = "submitted"
  PROVE  SubmitWeek(u, w)
<1>1. period \in [Users -> [Weeks -> PeriodRow]]
  BY DEF TypeOK
<1>2. ASSUME NEW v \in Users, NEW x \in Weeks, NEW to, period' = PeriodMoved(v, x, to)
      PROVE  v = u /\ x = w /\ to = "submitted"
  BY <1>1, <1>2 DEF PeriodMoved
<1>3. TimesheetsNext
  BY EntryStepDays, AttendanceFrame DEF Next
<1>4. ASSUME NEW v \in Users, NEW x \in Weeks, CreatePeriod(v, x)
      PROVE  FALSE
  BY <1>1, <1>4 DEF CreatePeriod, NoPeriod
<1>5. ASSUME NEW v \in Users, NEW x \in Weeks, SubmitWeek(v, x)
      PROVE  SubmitWeek(u, w)
  <2>1. v = u /\ x = w
    BY <1>2, <1>5 DEF SubmitWeek
  <2>2. QED
    BY <1>5, <2>1
<1>6. ASSUME NEW v \in Users, NEW x \in Weeks, NEW r \in Users, NEW to \in PeriodStatus,
             ReviewWeek(r, v, x, to) \/ ReopenWeek(v, x)
      PROVE  FALSE
  BY <1>2, <1>6 DEF ReviewWeek, ReopenWeek
<1>7. QED
  BY <1>3, <1>4, <1>5, <1>6 DEF TimesheetsNext, PeriodStatus, EntryStatus

\* A week that becomes submitted leaves no entry and no day of it behind, also
\* when attendance reopened a day or a single entry was moved ahead of the week.
THEOREM SubmissionSweeps == Spec => SubmitSweepsWeek
<1>1. ASSUME TypeOK, TypeOK', DayFollowsPeriod, Next, NEW u \in Users, NEW w \in Weeks,
             period[u][w].status # "submitted", period'[u][w].status = "submitted"
      PROVE  /\ \A e \in Entries : InWeek(e, u, w)' => entry'[e].status = "submitted"
             /\ \A d \in Dates : WeekOf(d) = w /\ day'[u][d].status # "none"
                  => day'[u][d].status = "submitted"
  <2>1. SubmitWeek(u, w)
    BY <1>1, SubmittedBy
  <2>2. ASSUME NEW e \in Entries, InWeek(e, u, w)'
        PROVE  entry'[e].status = "submitted"
    <3>1. CASE InWeek(e, u, w)
      <4>1. entry[e] \in EntryRow /\ entry[e].status = "draft"
        BY <1>1, <2>1, <3>1, LiveRow DEF SubmitWeek, InWeek
      <4> DEFINE next == entry[e].version + 1
      <4>2. entry'[e] = [entry[e] EXCEPT !.status = "submitted", !.version = next]
        BY <2>1, <3>1, <4>1 DEF SubmitWeek, EntriesMoved
      <4> HIDE DEF next
      <4>3. QED
        BY <4>1, <4>2 DEF EntryRow
    <3>2. CASE ~InWeek(e, u, w)
      <4>1. entry'[e] = entry[e]
        BY <2>1, <3>2 DEF SubmitWeek, EntriesMoved
      <4>2. QED
        BY <2>2, <3>2, <4>1 DEF InWeek, Live
    <3>3. QED
      BY <3>1, <3>2
  <2>3. ASSUME NEW d \in Dates, WeekOf(d) = w, day'[u][d].status # "none"
        PROVE  day'[u][d].status = "submitted"
    <3>0. day \in [Users -> [Dates -> DayRow]] /\ day[u][d] \in DayRow
      BY <1>1 DEF TypeOK
    <3>1. period[u][w].status \notin {"submitted", "approved", "rejected"}
      BY <2>1 DEF SubmitWeek, MayMovePeriod, TimesheetTable
    <3>2. day[u][d].status \notin {"submitted", "approved", "rejected"}
      BY <1>1, <2>3, <3>1 DEF DayFollowsPeriod
    <3>3. CASE day[u][d].status \in {"open", "closed"}
      <4>1. day'[u][d] = [day[u][d] EXCEPT !.status = "submitted"]
        BY <2>1, <2>3, <3>0, <3>3 DEF SubmitWeek, DaysMoved
      <4>2. QED
        BY <3>0, <4>1 DEF DayRow
    <3>4. CASE day[u][d].status = "none"
      BY <2>1, <2>3, <3>0, <3>4 DEF SubmitWeek, DaysMoved
    <3>5. QED
      BY <3>0, <3>2, <3>3, <3>4 DEF DayRow, DayStatus
  <2>4. QED
    BY <2>2, <2>3
<1>2. TypeOK /\ TypeOK' /\ DayFollowsPeriod /\ [Next]_vars =>
        [\A u \in Users, w \in Weeks :
           period[u][w].status # "submitted" /\ period'[u][w].status = "submitted"
             => /\ \A e \in Entries : InWeek(e, u, w)' => entry'[e].status = "submitted"
                /\ \A d \in Dates : WeekOf(d) = w /\ day'[u][d].status # "none"
                     => day'[u][d].status = "submitted"]_vars
  BY <1>1
<1>3. QED
  BY <1>2, TypeCorrect, DaysFollowWeeks, PTL DEF Spec, SubmitSweepsWeek

-----------------------------------------------------------------------------
(* Logged time.  An operation writes entries first and recomputes the days *)
(* it knows of afterwards; in between, those days are wrong.               *)

\* The days D sum the entries E, those in X excepted.
RightBut(E, D, X) ==
  \A v \in Users, x \in Dates :
    <<v, x>> \in X \/ D[v][x].status = "none" \/ D[v][x].logged = LoggedSeconds(E, v, x)

\* The sum of a date depends on the live entries of that date only.
LEMMA SameLogged ==
  ASSUME NEW E, NEW F, NEW v \in Users, NEW x \in Dates,
         \A e \in Entries :
           /\ (E[e].status \in EntryStatus /\ E[e].user = v /\ E[e].date = x)
                <=> (F[e].status \in EntryStatus /\ F[e].user = v /\ F[e].date = x)
           /\ E[e].status \in EntryStatus /\ F[e].status \in EntryStatus
                /\ E[e].user = v /\ E[e].date = x => E[e].mins = F[e].mins
  PROVE  LoggedSeconds(E, v, x) = LoggedSeconds(F, v, x)
BY DEF LoggedSeconds

\* A recompute rights its day.
LEMMA Righted ==
  ASSUME NEW D \in DayGrid, NEW E \in EntryTable, NEW S \in SessionTable,
         NEW u \in Users, NEW d \in Dates, NEW X, NEW Y,
         RightBut(E, D, X), \A p \in X : p \in Y \/ p = <<u, d>>
  PROVE  Recomputed(D, E, S, u, d) \in DayGrid /\ RightBut(E, Recomputed(D, E, S, u, d), Y)
<1> DEFINE R == Recomputed(D, E, S, u, d)
<1>1. R \in DayGrid
  BY RecomputedFacts
<1>2. \A v \in Users, x \in Dates :
        R[v][x].status = D[v][x].status /\ (<<v, x>> # <<u, d>> => R[v][x] = D[v][x])
  BY RecomputedFacts
<1>3. D[u][d].status # "none" => R[u][d].logged = LoggedSeconds(E, u, d)
  BY RecomputedFacts
<1> HIDE DEF R
<1>4. ASSUME NEW v \in Users, NEW x \in Dates
      PROVE  <<v, x>> \in Y \/ R[v][x].status = "none" \/ R[v][x].logged = LoggedSeconds(E, v, x)
  <2>1. CASE v = u /\ x = d
    BY <1>2, <1>3, <2>1
  <2>2. CASE <<v, x>> # <<u, d>>
    BY <1>2, <2>2 DEF RightBut
  <2>3. QED
    BY <2>1, <2>2
<1>5. RightBut(E, R, Y)
  BY <1>4 DEF RightBut
<1>6. QED
  BY <1>1, <1>5 DEF R

\* One entry is written: the days it was and is booked on may be wrong.
LEMMA OneWritten ==
  ASSUME NEW E, NEW e \in Entries, NEW X, LoggedAccurate,
         \A x \in Entries \ {e} : E[x] = entry[x],
         Live(e) => <<entry[e].user, entry[e].date>> \in X,
         E[e].status \in EntryStatus => <<E[e].user, E[e].date>> \in X
  PROVE  RightBut(E, day, X)
<1> SUFFICES ASSUME NEW v \in Users, NEW x \in Dates, <<v, x>> \notin X
             PROVE  LoggedSeconds(E, v, x) = LoggedSeconds(entry, v, x)
  BY DEF RightBut, LoggedAccurate
<1>1. /\ ~(E[e].status \in EntryStatus /\ E[e].user = v /\ E[e].date = x)
      /\ ~(entry[e].status \in EntryStatus /\ entry[e].user = v /\ entry[e].date = x)
  BY DEF Live
<1>2. ASSUME NEW f \in Entries
      PROVE  /\ (E[f].status \in EntryStatus /\ E[f].user = v /\ E[f].date = x)
                  <=> (entry[f].status \in EntryStatus /\ entry[f].user = v /\ entry[f].date = x)
             /\ E[f].status \in EntryStatus /\ entry[f].status \in EntryStatus
                  /\ E[f].user = v /\ E[f].date = x => E[f].mins = entry[f].mins
  <2>1. CASE f = e
    BY <1>1, <2>1
  <2>2. CASE f # e
    <3>1. E[f] = entry[f]
      BY <2>2
    <3>2. QED
      BY <3>1
  <2>3. QED
    BY <2>1, <2>2
<1>3. QED
  BY <1>2, SameLogged

\* Entries that only change status are summed as before.
LEMMA MovedLogged ==
  ASSUME \A e \in Entries : entry'[e] = entry[e] \/ Moved(e), NEW v \in Users, NEW x \in Dates
  PROVE  LoggedSeconds(entry', v, x) = LoggedSeconds(entry, v, x)
<1>1. ASSUME NEW e \in Entries
      PROVE  /\ entry'[e].status \in EntryStatus <=> entry[e].status \in EntryStatus
             /\ entry[e].status \in EntryStatus =>
                  /\ entry'[e].user = entry[e].user
                  /\ entry'[e].date = entry[e].date
                  /\ entry'[e].mins = entry[e].mins
  BY DEF Moved, SameContent, Live
<1> DEFINE F == entry'
<1>2. \A e \in Entries :
        /\ F[e].status \in EntryStatus <=> entry[e].status \in EntryStatus
        /\ entry[e].status \in EntryStatus =>
             F[e].user = entry[e].user /\ F[e].date = entry[e].date /\ F[e].mins = entry[e].mins
  BY <1>1
<1> HIDE DEF F
<1>p. ASSUME NEW e \in Entries
      PROVE  /\ (F[e].status \in EntryStatus /\ F[e].user = v /\ F[e].date = x)
                  <=> (entry[e].status \in EntryStatus /\ entry[e].user = v /\ entry[e].date = x)
             /\ F[e].status \in EntryStatus /\ entry[e].status \in EntryStatus
                  /\ F[e].user = v /\ F[e].date = x => F[e].mins = entry[e].mins
  BY <1>2
<1>3. LoggedSeconds(F, v, x) = LoggedSeconds(entry, v, x)
  BY <1>p, SameLogged
<1>4. QED
  BY <1>3 DEF F

\* A deletion has the effect of one by the owner of the entry.
DeletedAsOwner ==
  \A e \in Entries, actor \in Users : DeleteEntry(e, actor) => DeleteEntry(e, entry[e].user)

LEMMA LoggedTimeEntries ==
  ASSUME TypeOK, TypeOK', RequestsFresh, DeletedAsOwner, LoggedAccurate, TimeEntriesNext
  PROVE  RightBut(entry', day', {})
<1>e. entry \in EntryTable /\ entry' \in EntryTable
  BY DEF TypeOK, EntryTable
<1>t. session \in SessionTable /\ day \in DayGrid
  BY DEF TypeOK, SessionTable, DayGrid
<1>1. ASSUME NEW e \in Entries, InsertEntry(e)
      PROVE  RightBut(entry', day', {})
  <2> DEFINE u == request[e].fields.user
             d == request[e].fields.date
  <2>r. request[e] \in RequestRow
    BY <1>1 DEF InsertEntry, TypeOK, NoRequest
  <2>1. u \in Users /\ d \in Dates
    BY <2>r DEF RequestRow, EntryFields
  <2>2. entry'[e].user = u /\ entry'[e].date = d /\ ~Live(e)
    BY <1>e, <1>1 DEF InsertEntry, RequestsFresh, EntryTable, Live, NoEntry, EntryStatus
  <2>3. \A x \in Entries \ {e} : entry'[x] = entry[x]
    BY <1>e, <1>1 DEF InsertEntry, EntryTable
  <2>4. day' = Recomputed(day, entry', session, u, d)
    BY <1>1 DEF InsertEntry
  <2> HIDE DEF u, d
  <2>5. RightBut(entry', day, {<<u, d>>})
    BY <2>2, <2>3, OneWritten
  <2>6. QED
    BY <1>e, <1>t, <2>1, <2>4, <2>5, Righted
<1>2. ASSUME NEW e \in Entries, NEW actor \in Users, NEW date \in Dates,
             NEW slot \in Slots \cup {NoSlot}, NEW mins \in Minutes,
             UpdateEntry(e, actor, date, slot, mins)
      PROVE  RightBut(entry', day', {})
  <2> DEFINE u == entry[e].user
             old == entry[e].date
             next == entry[e].version + 1
             row == [entry[e] EXCEPT !.date = date, !.slot = slot, !.mins = mins,
                                     !.version = next]
             moved == Recomputed(day, entry', session, u, date)
  <2>1. /\ MayEdit(e, actor) /\ entry' = [entry EXCEPT ![e] = row]
        /\ day' = IF old = date THEN moved ELSE Recomputed(moved, entry', session, u, old)
    BY <1>2 DEF UpdateEntry
  <2>2. entry[e] \in EntryRow
    BY <2>1, LiveRow DEF MayEdit
  <2> HIDE DEF next
  <2>3. row.user = u /\ row.date = date /\ u \in Users /\ old \in Dates
    BY <2>2 DEF EntryRow
  <2> HIDE DEF row
  <2>4. entry'[e] = row /\ \A x \in Entries \ {e} : entry'[x] = entry[x]
    BY <1>e, <2>1 DEF EntryTable
  <2>5. RightBut(entry', day, {<<u, old>>, <<u, date>>})
    BY <2>3, <2>4, OneWritten
  <2> HIDE DEF u, old
  <2>6. moved \in DayGrid /\ RightBut(entry', moved, {<<u, old>>} \ {<<u, date>>})
    BY <1>e, <1>t, <2>3, <2>5, Righted
  <2> HIDE DEF moved
  <2>7. CASE old = date
    BY <2>1, <2>6, <2>7 DEF RightBut
  <2>8. CASE old # date
    <3>1. RightBut(entry', Recomputed(moved, entry', session, u, old), {})
      BY <1>e, <1>t, <2>3, <2>6, Righted
    <3>2. QED
      BY <2>1, <2>8, <3>1
  <2>9. QED
    BY <2>7, <2>8
<1>3. ASSUME NEW e \in Entries, NEW actor \in Users, DeleteEntry(e, actor)
      PROVE  RightBut(entry', day', {})
  <2> DEFINE u == entry[e].user
             d == entry[e].date
  <2>1. Live(e) /\ DeleteEntry(e, u)
    BY <1>3 DEF DeletedAsOwner, DeleteEntry, MayEdit
  <2>2. u \in Users /\ d \in Dates
    BY <2>1, LiveRow DEF EntryRow
  <2>3. entry'[e] = DeletedEntry /\ \A x \in Entries \ {e} : entry'[x] = entry[x]
    BY <1>e, <1>3 DEF DeleteEntry, EntryTable
  <2>n. DeletedEntry.status \notin EntryStatus
    BY DEF DeletedEntry, EntryStatus
  <2>4. RightBut(entry', day, {<<u, d>>})
    BY <2>1, <2>3, <2>n, OneWritten
  <2>5. day' = Recomputed(day, entry', session, u, d)
    BY <2>1 DEF DeleteEntry
  <2> HIDE DEF u, d
  <2>6. QED
    BY <1>e, <1>t, <2>2, <2>4, <2>5, Righted
<1>4. ASSUME entry' = entry, day' = day PROVE RightBut(entry', day', {})
  BY <1>4 DEF RightBut, LoggedAccurate
<1>5. ASSUME NEW e \in Entries, NEW actor \in Users, NEW target \in EntryStatus,
             TransitionEntry(e, actor, target)
      PROVE  RightBut(entry', day', {})
  <2>1. \A x \in Entries : entry'[x] = entry[x] \/ Moved(x)
    BY <1>5, StatusFate
  <2>2. day' = day
    BY <1>5 DEF TransitionEntry
  <2>3. QED
    BY <2>1, <2>2, MovedLogged DEF RightBut, LoggedAccurate
<1>6. ASSUME NEW e \in Entries,
             ReplayCreate(e) \/ AbortCreate(e) \/ \E f \in EntryFields : CheckCreate(e, f)
      PROVE  entry' = entry /\ day' = day
  BY <1>6 DEF ReplayCreate, AbortCreate, CheckCreate
<1>7. QED
  BY <1>1, <1>2, <1>3, <1>4, <1>5, <1>6 DEF TimeEntriesNext

LEMMA LoggedTimesheets ==
  ASSUME TypeOK, LoggedAccurate, TimesheetsNext
  PROVE  RightBut(entry', day', {})
<1>1. \A x \in Entries : entry'[x] = entry[x] \/ Moved(x)
  BY StatusFate
<1>2. ASSUME NEW v \in Users, NEW x \in Dates
      PROVE  LoggedSeconds(entry', v, x) = LoggedSeconds(entry, v, x)
  BY <1>1, MovedLogged
<1>3. \A v \in Users, x \in Dates :
        /\ day'[v][x].logged = day[v][x].logged
        /\ day'[v][x].status = "none" <=> day[v][x].status = "none"
  BY WeekStepDays
<1>4. QED
  BY <1>2, <1>3 DEF RightBut, LoggedAccurate

LEMMA LoggedAttendance ==
  ASSUME TypeOK, TypeOK', LoggedAccurate, AttendanceNext
  PROVE  RightBut(entry', day', {})
<1>e. entry \in EntryTable
  BY DEF TypeOK, EntryTable
<1>t. session \in SessionTable /\ session' \in SessionTable /\ day \in DayGrid
  BY DEF TypeOK, SessionTable, DayGrid
<1>0. entry' = entry
  BY AttendanceStatus
<1>1. ASSUME NEW D \in DayGrid, RightBut(entry, D, {}), NEW S \in SessionTable,
             NEW u \in Users, NEW d \in Dates
      PROVE  /\ Recomputed(D, entry, S, u, d) \in DayGrid
             /\ RightBut(entry, Recomputed(D, entry, S, u, d), {})
  BY <1>e, <1>1, Righted
<1>2. ASSUME NEW D \in DayGrid, RightBut(entry, D, {}), NEW u \in Users, NEW d \in Dates
      PROVE  DayClosed(D, u, d) \in DayGrid /\ RightBut(entry, DayClosed(D, u, d), {})
  <2> DEFINE R == DayClosed(D, u, d)
  <2>1. /\ R \in DayGrid
        /\ \A v \in Users, x \in Dates :
             /\ R[v][x].logged = D[v][x].logged
             /\ R[v][x].status = D[v][x].status \/ D[v][x].status = "open"
    BY DayClosedFacts
  <2> HIDE DEF R
  <2>2. R \in DayGrid /\ RightBut(entry, R, {})
    BY <1>2, <2>1 DEF RightBut
  <2>3. QED
    BY <2>2 DEF R
<1>3. ASSUME NEW D \in DayGrid, RightBut(entry, D, {}), NEW S \in SessionTable,
             NEW u \in Users, NEW d \in Dates
      PROVE  RightBut(entry, DayEntered(D, S, u, d), {})
  <2> DEFINE R == DayEntered(D, S, u, d)
  <2>1. \A v \in Users, x \in Dates : <<v, x>> # <<u, d>> => R[v][x] = D[v][x]
    BY <1>e, DayEnteredFacts
  <2>2. R[u][d].logged = LoggedSeconds(entry, u, d)
    BY <1>e, DayEnteredFacts
  <2> HIDE DEF R
  <2>3. RightBut(entry, R, {})
    BY <1>3, <2>1, <2>2 DEF RightBut
  <2>4. QED
    BY <2>3 DEF R
<1>4. RightBut(entry, day, {})
  BY DEF RightBut, LoggedAccurate
<1>5. ASSUME NEW u \in Users, NEW s \in Sessions, NEW d \in Dates, CheckIn(u, d, s)
      PROVE  RightBut(entry, day', {})
  BY <1>t, <1>3, <1>4, <1>5 DEF CheckIn
<1>6. ASSUME NEW u \in Users, NEW s \in Sessions, NEW d \in Dates,
             NEW stale \in Sessions, NEW secs \in Seconds,
             CheckInAfterStale(u, d, s, stale, secs)
      PROVE  RightBut(entry, day', {})
  <2> DEFINE sd == session[stale].date
             forced == SessionClosed(stale, secs)
             counted == Recomputed(day, entry, forced, u, sd)
             left == DayClosed(counted, u, sd)
  <2>1. session[stale].state = "active" /\ day' = DayEntered(left, session', u, d)
    BY <1>6 DEF CheckInAfterStale, ActiveSessions
  <2>2. sd \in Dates /\ forced \in SessionTable
    BY <2>1, SessionFacts
  <2> HIDE DEF sd, forced
  <2>3. counted \in DayGrid /\ RightBut(entry, counted, {})
    BY <1>t, <1>1, <1>4, <2>2
  <2> HIDE DEF counted
  <2>4. left \in DayGrid /\ RightBut(entry, left, {})
    BY <1>2, <2>2, <2>3
  <2> HIDE DEF left
  <2>5. QED
    BY <1>t, <1>3, <2>1, <2>4
<1>7. ASSUME NEW u \in Users, NEW s \in Sessions, NEW secs \in Seconds, CheckOut(u, s, secs)
      PROVE  RightBut(entry, day', {})
  <2> DEFINE d == session[s].date
             counted == Recomputed(day, entry, session', u, d)
             done == [counted EXCEPT ![u][d] = [@ EXCEPT !.completed = TRUE]]
  <2>1. session[s].state = "active" /\ day' = DayClosed(done, u, d)
    BY <1>7 DEF CheckOut, ActiveSessions
  <2>2. d \in Dates
    BY <2>1, SessionFacts
  <2> HIDE DEF d
  <2>3. counted \in DayGrid /\ RightBut(entry, counted, {})
    BY <1>t, <1>1, <1>4, <2>2
  <2> HIDE DEF counted
  <2>4. done \in DayGrid
    BY <2>2, <2>3, CompletedFacts
  <2>5. \A v \in Users, x \in Dates : done[v][x].status = counted[v][x].status
    BY <2>2, <2>3, CompletedFacts
  <2>6. \A v \in Users, x \in Dates : done[v][x].logged = counted[v][x].logged
    BY <2>2, <2>3, CompletedFacts
  <2> HIDE DEF done
  <2>7. RightBut(entry, done, {})
    BY <2>3, <2>5, <2>6 DEF RightBut
  <2>8. QED
    BY <1>2, <2>1, <2>2, <2>4, <2>7
<1>8. ASSUME NEW s \in Sessions, NEW secs \in Seconds, TimeoutSession(s, secs)
      PROVE  RightBut(entry, day', {})
  <2>1. session[s].user \in Users /\ session[s].date \in Dates
    BY <1>8, SessionFacts DEF TimeoutSession
  <2>2. QED
    BY <1>t, <1>1, <1>4, <1>8, <2>1 DEF TimeoutSession
<1>9. ASSUME NEW u \in Users, NEW d \in Dates, ReconcileDay(u, d)
      PROVE  RightBut(entry, day', {})
  BY <1>t, <1>2, <1>4, <1>9 DEF ReconcileDay
<1>10. CASE NextDate
  BY <1>0, <1>4, <1>10 DEF NextDate
<1>11. QED
  BY <1>0, <1>5, <1>6, <1>7, <1>8, <1>9, <1>10 DEF AttendanceNext

\* Whatever interleaves, logged_seconds sums the entries of its date after every
\* step, unless an admin has deleted the entry of somebody else: delete_entry then
\* recomputes the day of the admin, and that deletion alone is excluded here.
THEOREM OnlyForeignDeletesMislead == Spec /\ [][DeletedAsOwner]_vars => []LoggedAccurate
<1>1. Init => LoggedAccurate
  BY DEF Init, LoggedAccurate, NoDay
<1>2. TypeOK /\ TypeOK' /\ RequestsFresh /\ LoggedAccurate /\ [Next]_vars /\ [DeletedAsOwner]_vars
        => LoggedAccurate'
  <2> SUFFICES ASSUME TypeOK, TypeOK', RequestsFresh, LoggedAccurate,
                      [Next]_vars, [DeletedAsOwner]_vars
               PROVE  LoggedAccurate'
    OBVIOUS
  <2>1. CASE UNCHANGED vars
    BY <2>1 DEF vars, LoggedAccurate
  <2>2. CASE Next /\ DeletedAsOwner
    <3>1. RightBut(entry', day', {})
      BY <2>2, LoggedTimeEntries, LoggedTimesheets, LoggedAttendance DEF Next
    <3>2. QED
      BY <3>1 DEF RightBut, LoggedAccurate
  <2>3. QED
    BY <2>1, <2>2
<1>3. QED
  BY <1>1, <1>2, FreshHolds, TypeCorrect, PTL DEF Spec

\* Without an admin nobody can delete the entry of somebody else.
THEOREM LoggedTotalsAccurate ==
  ASSUME Admins = {}
  PROVE  Spec => []LoggedAccurate
<1>1. [Next]_vars => [DeletedAsOwner]_vars
  BY DEF DeletedAsOwner, DeleteEntry, MayEdit
<1>2. QED
  BY <1>1, OnlyForeignDeletesMislead, PTL DEF Spec

=============================================================================
