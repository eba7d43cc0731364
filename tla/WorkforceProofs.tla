--------------------------- MODULE WorkforceProofs ---------------------------
(***************************************************************************)
(* Theorems about Workforce for every value of its constants.              *)
(***************************************************************************)
EXTENDS Workforce, TLAPS

-----------------------------------------------------------------------------
(* Lemmas about the operators on days *)

DayGrid == [Users -> [Dates -> DayRow]]
EntryTable == [Entries -> EntryRow \cup {NoEntry, DeletedEntry}]
SessionTable == [Sessions -> SessionRow \cup {NoSession}]

\* A recompute keeps the table well typed and touches the totals of one day.
LEMMA RecomputedFacts ==
  ASSUME NEW D \in DayGrid, NEW E \in EntryTable, NEW S \in SessionTable,
         NEW u \in Users, NEW d \in Dates
  PROVE  /\ Recomputed(D, E, S, u, d) \in DayGrid
         /\ \A v \in Users, x \in Dates :
              /\ Recomputed(D, E, S, u, d)[v][x].status = D[v][x].status
              /\ Recomputed(D, E, S, u, d)[v][x].completed = D[v][x].completed
              /\ <<v, x>> # <<u, d>> => Recomputed(D, E, S, u, d)[v][x] = D[v][x]
         /\ D[u][d].status = "none" => Recomputed(D, E, S, u, d) = D
         /\ D[u][d].status # "none" =>
              /\ Recomputed(D, E, S, u, d)[u][d].total = SessionSeconds(S, u, d)
              /\ Recomputed(D, E, S, u, d)[u][d].logged = LoggedSeconds(E, u, d)
<1>1. SessionSeconds(S, u, d) \in SUBSET (Sessions \X Seconds)
  BY DEF SessionSeconds, SessionTable, SessionRow, NoSession
<1>2. LoggedSeconds(E, u, d) \in SUBSET (Entries \X Minutes)
  BY DEF LoggedSeconds, EntryTable, EntryRow, NoEntry, DeletedEntry, EntryStatus
<1>3. CASE D[u][d].status = "none"
  BY <1>3 DEF Recomputed
<1>4. CASE D[u][d].status # "none"
  <2> DEFINE row == [D[u][d] EXCEPT !.total = SessionSeconds(S, u, d),
                                    !.logged = LoggedSeconds(E, u, d)]
  <2>0. D[u][d] \in DayRow
    BY DEF DayGrid
  <2>1. row \in DayRow
    BY <1>1, <1>2, <2>0 DEF DayRow
  <2>2. /\ row.status = D[u][d].status /\ row.completed = D[u][d].completed
        /\ row.total = SessionSeconds(S, u, d) /\ row.logged = LoggedSeconds(E, u, d)
    BY <2>0 DEF DayRow
  <2>3. Recomputed(D, E, S, u, d) = [D EXCEPT ![u][d] = row]
    BY <1>4 DEF Recomputed
  <2> HIDE DEF row
  <2>4. [D EXCEPT ![u][d] = row] \in DayGrid
    BY <2>1 DEF DayGrid
  <2>5. \A v \in Users, x \in Dates :
          [D EXCEPT ![u][d] = row][v][x] = IF v = u /\ x = d THEN row ELSE D[v][x]
    BY DEF DayGrid
  <2>6. QED
    BY <1>4, <2>2, <2>3, <2>4, <2>5
<1>5. QED
  BY <1>3, <1>4

\* Closing a day keeps the table well typed and changes at most that day's status.
LEMMA DayClosedFacts ==
  ASSUME NEW D \in DayGrid, NEW u \in Users, NEW d \in Dates
  PROVE  /\ DayClosed(D, u, d) \in DayGrid
         /\ \A v \in Users, x \in Dates :
              /\ DayClosed(D, u, d)[v][x].completed = D[v][x].completed
              /\ DayClosed(D, u, d)[v][x].total = D[v][x].total
              /\ DayClosed(D, u, d)[v][x].logged = D[v][x].logged
              /\ \/ DayClosed(D, u, d)[v][x].status = D[v][x].status
                 \/ D[v][x].status = "open" /\ DayClosed(D, u, d)[v][x].status = "closed"
<1>1. CASE D[u][d].status # "open"
  BY <1>1 DEF DayClosed
<1>2. CASE D[u][d].status = "open"
  <2> DEFINE row == [D[u][d] EXCEPT !.status = "closed"]
  <2>0. D[u][d] \in DayRow
    BY DEF DayGrid
  <2>1. row \in DayRow
    BY <2>0 DEF DayRow, DayStatus
  <2>2. /\ row.status = "closed" /\ row.completed = D[u][d].completed
        /\ row.total = D[u][d].total /\ row.logged = D[u][d].logged
    BY <2>0 DEF DayRow
  <2>3. DayClosed(D, u, d) = [D EXCEPT ![u][d] = row]
    BY <1>2 DEF DayClosed
  <2> HIDE DEF row
  <2>4. [D EXCEPT ![u][d] = row] \in DayGrid
    BY <2>1 DEF DayGrid
  <2>5. \A v \in Users, x \in Dates :
          [D EXCEPT ![u][d] = row][v][x] = IF v = u /\ x = d THEN row ELSE D[v][x]
    BY DEF DayGrid
  <2>6. QED
    BY <1>2, <2>2, <2>3, <2>4, <2>5
<1>3. QED
  BY <1>1, <1>2

\* Completing a day changes nothing else of it.
LEMMA CompletedFacts ==
  ASSUME NEW D \in DayGrid, NEW u \in Users, NEW d \in Dates
  PROVE  LET C == [D EXCEPT ![u][d] = [@ EXCEPT !.completed = TRUE]] IN
         /\ C \in DayGrid
         /\ C[u][d].completed
         /\ \A v \in Users, x \in Dates :
              /\ C[v][x].status = D[v][x].status
              /\ C[v][x].total = D[v][x].total
              /\ C[v][x].logged = D[v][x].logged
              /\ <<v, x>> # <<u, d>> => C[v][x] = D[v][x]
<1> DEFINE row == [D[u][d] EXCEPT !.completed = TRUE]
           C == [D EXCEPT ![u][d] = row]
<1>1. D[u][d] \in DayRow
  BY DEF DayGrid
<1>2. /\ row \in DayRow /\ row.completed = TRUE /\ row.status = D[u][d].status
      /\ row.total = D[u][d].total /\ row.logged = D[u][d].logged
  BY <1>1 DEF DayRow
<1>3. C = [D EXCEPT ![u][d] = [@ EXCEPT !.completed = TRUE]]
  OBVIOUS
<1> HIDE DEF row
<1>4. C \in DayGrid
  BY <1>2 DEF DayGrid
<1>5. \A v \in Users, x \in Dates : C[v][x] = IF v = u /\ x = d THEN row ELSE D[v][x]
  BY DEF DayGrid
<1> HIDE DEF C
<1>6. QED
  BY <1>2, <1>3, <1>4, <1>5

-----------------------------------------------------------------------------
(* Type correctness *)

LEMMA TypeFacts ==
  TypeOK <=> /\ entry \in EntryTable
             /\ request \in [Entries -> RequestRow \cup {NoRequest}]
             /\ period \in [Users -> [Weeks -> PeriodRow]]
             /\ day \in DayGrid
             /\ session \in SessionTable
             /\ today \in Dates
BY DEF TypeOK, EntryTable, DayGrid, SessionTable

LEMMA TypeInit == Init => TypeOK
<1> SUFFICES ASSUME Init PROVE TypeOK
  OBVIOUS
<1>1. NoPeriod \in PeriodRow /\ NoDay \in DayRow
  BY VersionAssumption DEF NoPeriod, PeriodRow, NoDay, DayRow
<1>2. 1 \in Dates
  BY CalendarAssumption DEF Dates
<1>3. QED
  BY <1>1, <1>2 DEF Init, TypeOK

\* Whatever a live entry is, its fields have the types of the columns.
LEMMA LiveRow ==
  ASSUME TypeOK, NEW e \in Entries, Live(e)
  PROVE  entry[e] \in EntryRow
BY DEF TypeOK, Live, NoEntry, DeletedEntry, EntryStatus

LEMMA KnownSession ==
  ASSUME TypeOK, NEW s \in Sessions, session[s].state \in {"active", "closed"}
  PROVE  session[s] \in SessionRow
BY DEF TypeOK, NoSession

LEMMA TimeEntriesType == TypeOK /\ TimeEntriesNext => TypeOK'
<1> SUFFICES ASSUME TypeOK, TimeEntriesNext PROVE TypeOK'
  OBVIOUS
<1> USE TypeFacts
<1>1. ASSUME NEW e \in Entries, NEW f \in EntryFields, CheckCreate(e, f)
      PROVE  TypeOK'
  BY <1>1 DEF CheckCreate, TypeOK, RequestRow
<1>2. ASSUME NEW e \in Entries, InsertEntry(e)
      PROVE  TypeOK'
  <2> DEFINE f == request[e].fields
             row == [status |-> "draft", version |-> 1, user |-> f.user, date |-> f.date,
                     mins |-> f.mins, slot |-> f.slot, key |-> f.key]
  <2>1. request[e] \in RequestRow
    BY <1>2 DEF InsertEntry, TypeOK, NoRequest
  <2>2. f \in EntryFields
    BY <2>1 DEF RequestRow
  <2>3. row \in EntryRow
    BY <2>2, VersionAssumption DEF EntryFields, EntryRow, EntryStatus
  <2>4. entry' = [entry EXCEPT ![e] = row]
    BY <1>2 DEF InsertEntry
  <2> HIDE DEF row
  <2>5. entry' \in EntryTable
    BY <2>3, <2>4 DEF EntryTable
  <2>6. f.user \in Users /\ f.date \in Dates
    BY <2>2 DEF EntryFields
  <2>7. day' \in DayGrid
    BY <1>2, <2>5, <2>6, RecomputedFacts DEF InsertEntry
  <2>8. QED
    BY <1>2, <2>5, <2>7 DEF InsertEntry, TypeOK, EntryTable, DayGrid
<1>3. ASSUME NEW e \in Entries, ReplayCreate(e) \/ AbortCreate(e)
      PROVE  TypeOK'
  BY <1>3 DEF ReplayCreate, AbortCreate, TypeOK
<1>4. ASSUME NEW e \in Entries, NEW actor \in Users, NEW date \in Dates,
             NEW slot \in Slots \cup {NoSlot}, NEW mins \in Minutes,
             UpdateEntry(e, actor, date, slot, mins)
      PROVE  TypeOK'
  <2>1. Live(e) /\ entry[e].version < MaxVersion
    BY <1>4 DEF UpdateEntry, MayEdit
  <2>2. entry[e] \in EntryRow
    BY <2>1, LiveRow
  <2> DEFINE next == entry[e].version + 1
             row == [entry[e] EXCEPT !.date = date, !.slot = slot, !.mins = mins,
                                     !.version = next]
  <2>v. next \in 1..MaxVersion
    BY <2>1, <2>2, VersionAssumption DEF EntryRow
  <2>3. row \in EntryRow
    BY <2>2, <2>v DEF EntryRow
  <2>4. entry' = [entry EXCEPT ![e] = row]
    BY <1>4 DEF UpdateEntry
  <2> HIDE DEF row
  <2>5. entry' \in EntryTable
    BY <2>3, <2>4 DEF EntryTable
  <2>6. entry[e].user \in Users /\ entry[e].date \in Dates
    BY <2>2 DEF EntryRow
  <2> DEFINE moved == Recomputed(day, entry', session, entry[e].user, date)
  <2>7. moved \in DayGrid
    BY <2>5, <2>6, RecomputedFacts
  <2>8. Recomputed(moved, entry', session, entry[e].user, entry[e].date) \in DayGrid
    BY <2>5, <2>6, <2>7, RecomputedFacts
  <2>9. day' \in DayGrid
    BY <1>4, <2>7, <2>8 DEF UpdateEntry
  <2>10. QED
    BY <1>4, <2>5, <2>9 DEF UpdateEntry, TypeOK, EntryTable, DayGrid
<1>5. ASSUME NEW e \in Entries, NEW actor \in Users, DeleteEntry(e, actor)
      PROVE  TypeOK'
  <2>1. entry[e].date \in Dates
    BY <1>5, LiveRow DEF DeleteEntry, MayEdit, EntryRow
  <2>2. entry' \in EntryTable
    BY <1>5 DEF DeleteEntry, EntryTable
  <2>3. day' \in DayGrid
    BY <1>5, <2>1, <2>2, RecomputedFacts DEF DeleteEntry
  <2>4. QED
    BY <1>5, <2>2, <2>3 DEF DeleteEntry, TypeOK, EntryTable, DayGrid
<1>6. ASSUME NEW e \in Entries, NEW actor \in Users, NEW target \in EntryStatus,
             TransitionEntry(e, actor, target)
      PROVE  TypeOK'
  <2>1. entry[e] \in EntryRow /\ entry[e].version < MaxVersion
    BY <1>6, LiveRow DEF TransitionEntry
  <2> DEFINE next == entry[e].version + 1
             row == [entry[e] EXCEPT !.status = target, !.version = next]
  <2>v. next \in 1..MaxVersion
    BY <2>1, VersionAssumption DEF EntryRow
  <2>2. row \in EntryRow
    BY <2>1, <2>v DEF EntryRow
  <2>3. entry' = [entry EXCEPT ![e] = row]
    BY <1>6 DEF TransitionEntry
  <2> HIDE DEF row
  <2>4. QED
    BY <1>6, <2>2, <2>3 DEF TransitionEntry, TypeOK
<1>7. QED
  BY <1>1, <1>2, <1>3, <1>4, <1>5, <1>6 DEF TimeEntriesNext

\* The rows a week operation writes are well typed.
LEMMA WeekMoveType ==
  ASSUME TypeOK, NEW u \in Users, NEW w \in Weeks, NEW target \in PeriodStatus,
         NEW from, NEW dfrom, NEW dtarget \in DayStatus,
         MayMovePeriod(u, w, target),
         entry' = EntriesMoved(u, w, from, target),
         day' = DaysMoved(u, w, dfrom, dtarget),
         period' = PeriodMoved(u, w, target),
         UNCHANGED <<request, session, today>>
  PROVE  TypeOK'
<1>1. ASSUME NEW e \in Entries, InWeek(e, u, w)
      PROVE  [entry[e] EXCEPT !.status = target, !.version = @ + 1] \in EntryRow
  <2>1. entry[e] \in EntryRow /\ entry[e].version < MaxVersion
    BY <1>1, LiveRow DEF InWeek, MayMovePeriod
  <2> DEFINE next == entry[e].version + 1
  <2>2. next \in 1..MaxVersion
    BY <2>1, VersionAssumption DEF EntryRow
  <2>3. [entry[e] EXCEPT !.status = target, !.version = next] \in EntryRow
    BY <2>1, <2>2 DEF EntryRow, PeriodStatus
  <2>4. QED
    BY <2>3
<1>2. entry' \in [Entries -> EntryRow \cup {NoEntry, DeletedEntry}]
  BY <1>1 DEF EntriesMoved, TypeOK
<1>3. ASSUME NEW d \in Dates
      PROVE  [day[u][d] EXCEPT !.status = dtarget] \in DayRow
  <2>1. day[u][d] \in DayRow
    BY DEF TypeOK
  <2>2. QED
    BY <2>1 DEF DayRow
<1>4. day' \in [Users -> [Dates -> DayRow]]
  BY <1>3 DEF DaysMoved, TypeOK
<1>5. period[u][w] \in PeriodRow /\ period[u][w].version < MaxVersion
  BY DEF TypeOK, MayMovePeriod
<1> DEFINE next == period[u][w].version + 1
<1>6. next \in 0..MaxVersion
  BY <1>5, VersionAssumption DEF PeriodRow
<1>7. [status |-> target, version |-> next] \in PeriodRow
  BY <1>6 DEF PeriodRow
<1>8. period' \in [Users -> [Weeks -> PeriodRow]]
  BY <1>7 DEF PeriodMoved, TypeOK
<1>9. QED
  BY <1>2, <1>4, <1>8 DEF TypeOK

LEMMA TimesheetsType == TypeOK /\ TimesheetsNext => TypeOK'
<1> SUFFICES ASSUME TypeOK, NEW u \in Users, NEW w \in Weeks,
                    \/ CreatePeriod(u, w)
                    \/ SubmitWeek(u, w)
                    \/ \E r \in Users, target \in PeriodStatus : ReviewWeek(r, u, w, target)
                    \/ ReopenWeek(u, w)
             PROVE  TypeOK'
  BY DEF TimesheetsNext
<1>1. CASE CreatePeriod(u, w)
  <2>1. [status |-> "draft", version |-> 1] \in PeriodRow
    BY VersionAssumption DEF PeriodRow, PeriodStatus, EntryStatus
  <2>2. QED
    BY <1>1, <2>1 DEF CreatePeriod, TypeOK
<1>2. CASE SubmitWeek(u, w)
  BY <1>2, WeekMoveType DEF SubmitWeek, PeriodStatus, EntryStatus, DayStatus
<1>3. ASSUME NEW r \in Users, NEW target \in PeriodStatus, ReviewWeek(r, u, w, target)
      PROVE  TypeOK'
  BY <1>3, WeekMoveType DEF ReviewWeek, DayStatus
<1>4. CASE ReopenWeek(u, w)
  BY <1>4, WeekMoveType DEF ReopenWeek, PeriodStatus, EntryStatus, DayStatus
<1>5. QED
  BY <1>1, <1>2, <1>3, <1>4

\* Closing a session or opening one keeps the sessions well typed.
LEMMA SessionFacts ==
  ASSUME TypeOK
  PROVE  /\ \A s \in Sessions, secs \in Seconds : session[s].state = "active" =>
              /\ SessionClosed(s, secs) \in SessionTable
              /\ session[s].user \in Users /\ session[s].date \in Dates
              /\ SessionClosed(s, secs)[s].state = "closed"
              /\ SessionClosed(s, secs)[s].user = session[s].user
              /\ SessionClosed(s, secs)[s].date = session[s].date
              /\ \A t \in Sessions \ {s} : SessionClosed(s, secs)[t] = session[t]
         /\ \A S \in SessionTable, s \in Sessions, u \in Users, d \in Dates :
              Login(S, s, u, d) \in SessionTable
<1>1. ASSUME NEW s \in Sessions, NEW secs \in Seconds, session[s].state = "active"
      PROVE  /\ SessionClosed(s, secs) \in SessionTable
             /\ session[s].user \in Users /\ session[s].date \in Dates
             /\ SessionClosed(s, secs)[s].state = "closed"
             /\ SessionClosed(s, secs)[s].user = session[s].user
             /\ SessionClosed(s, secs)[s].date = session[s].date
             /\ \A t \in Sessions \ {s} : SessionClosed(s, secs)[t] = session[t]
  <2> DEFINE row == [session[s] EXCEPT !.state = "closed", !.secs = secs]
  <2>1. session[s] \in SessionRow
    BY <1>1, KnownSession
  <2>2. row \in SessionRow
    BY <2>1 DEF SessionRow
  <2>3. row.state = "closed" /\ row.user = session[s].user /\ row.date = session[s].date
    BY <2>1 DEF SessionRow
  <2>4. SessionClosed(s, secs) = [session EXCEPT ![s] = row]
    BY DEF SessionClosed
  <2> HIDE DEF row
  <2>5. QED
    BY <2>1, <2>2, <2>3, <2>4 DEF SessionTable, TypeOK, SessionRow
<1>2. ASSUME NEW S \in SessionTable, NEW s \in Sessions, NEW u \in Users, NEW d \in Dates
      PROVE  Login(S, s, u, d) \in SessionTable
  <2>1. [state |-> "active", user |-> u, date |-> d, secs |-> 0] \in SessionRow
    BY MeasureAssumption DEF SessionRow
  <2>2. QED
    BY <2>1 DEF Login, SessionTable
<1>3. QED
  BY <1>1, <1>2

\* A login on a day leaves the other days alone and that day open or submitted,
\* not completed and with accurate totals.
LEMMA DayEnteredFacts ==
  ASSUME NEW D \in DayGrid, NEW S \in SessionTable, entry \in EntryTable,
         NEW u \in Users, NEW d \in Dates
  PROVE  /\ DayEntered(D, S, u, d) \in DayGrid
         /\ \A v \in Users, x \in Dates : <<v, x>> # <<u, d>> =>
              DayEntered(D, S, u, d)[v][x] = D[v][x]
         /\ DayEntered(D, S, u, d)[u][d].status =
              IF D[u][d].status \in {"none", "closed"} THEN "open" ELSE D[u][d].status
         /\ DayEntered(D, S, u, d)[u][d].completed =
              (D[u][d].status # "none" /\ D[u][d].completed)
         /\ DayEntered(D, S, u, d)[u][d].total = SessionSeconds(S, u, d)
         /\ DayEntered(D, S, u, d)[u][d].logged = LoggedSeconds(entry, u, d)
<1> DEFINE entered == CASE D[u][d].status = "none"   -> [D EXCEPT ![u][d] = OpenDay]
                        [] D[u][d].status = "closed" -> [D EXCEPT ![u][d] = [@ EXCEPT !.status = "open"]]
                        [] OTHER -> D
           opened == [D[u][d] EXCEPT !.status = "open"]
<1>1. D[u][d] \in DayRow
  BY DEF DayGrid
<1>2. OpenDay \in DayRow /\ OpenDay.status = "open" /\ OpenDay.completed = FALSE
  BY DEF OpenDay, NoDay, DayRow, DayStatus
<1>3. opened \in DayRow /\ opened.status = "open" /\ opened.completed = D[u][d].completed
  BY <1>1 DEF DayRow, DayStatus
<1> HIDE DEF opened
<1>4. entered = IF D[u][d].status = "none" THEN [D EXCEPT ![u][d] = OpenDay]
                ELSE IF D[u][d].status = "closed" THEN [D EXCEPT ![u][d] = opened]
                ELSE D
  BY DEF opened
<1> DEFINE row == IF D[u][d].status = "none" THEN OpenDay
                  ELSE IF D[u][d].status = "closed" THEN opened ELSE D[u][d]
<1> HIDE DEF entered
<1>5. row \in DayRow
  BY <1>1, <1>2, <1>3
<1>6. entered = [D EXCEPT ![u][d] = row]
  BY <1>4 DEF DayGrid
<1>7. /\ row.status = IF D[u][d].status \in {"none", "closed"} THEN "open" ELSE D[u][d].status
      /\ row.completed = (D[u][d].status # "none" /\ D[u][d].completed)
  BY <1>1, <1>2, <1>3 DEF DayRow
<1> HIDE DEF row
<1>8. entered \in DayGrid /\ entered[u][d] = row
  BY <1>5, <1>6 DEF DayGrid
<1>9. \A v \in Users, x \in Dates : <<v, x>> # <<u, d>> => entered[v][x] = D[v][x]
  BY <1>6 DEF DayGrid
<1>10. DayEntered(D, S, u, d) = Recomputed(entered, entry, S, u, d)
  BY DEF DayEntered, entered
<1>11. row.status # "none"
  BY <1>7
<1>12. QED
  BY <1>7, <1>8, <1>9, <1>10, <1>11, RecomputedFacts

LEMMA AttendanceType == TypeOK /\ AttendanceNext => TypeOK'
<1> SUFFICES ASSUME TypeOK, AttendanceNext PROVE TypeOK'
  OBVIOUS
<1> USE TypeFacts
<1>1. ASSUME NEW u \in Users, NEW s \in Sessions, NEW d \in Dates, CheckIn(u, d, s)
      PROVE  TypeOK'
  <2>1. session' \in SessionTable
    BY <1>1, SessionFacts DEF CheckIn
  <2>2. day' \in DayGrid
    BY <1>1, <2>1, DayEnteredFacts DEF CheckIn
  <2>3. QED
    BY <1>1, <2>1, <2>2 DEF CheckIn, TypeOK, SessionTable, DayGrid
<1>2. ASSUME NEW u \in Users, NEW s \in Sessions, NEW d \in Dates,
             NEW stale \in Sessions, NEW secs \in Seconds,
             CheckInAfterStale(u, d, s, stale, secs)
      PROVE  TypeOK'
  <2> DEFINE sd == session[stale].date
             forced == SessionClosed(stale, secs)
             counted == Recomputed(day, entry, forced, u, sd)
             left == DayClosed(counted, u, sd)
  <2>1. session[stale].state = "active"
    BY <1>2 DEF CheckInAfterStale, ActiveSessions
  <2>2. forced \in SessionTable /\ sd \in Dates
    BY <2>1, SessionFacts
  <2>3. counted \in DayGrid
    BY <2>2, RecomputedFacts
  <2>4. left \in DayGrid
    BY <2>2, <2>3, DayClosedFacts
  <2>5. session' = Login(forced, s, u, d) /\ day' = DayEntered(left, session', u, d)
    BY <1>2 DEF CheckInAfterStale
  <2>6. session' \in SessionTable
    BY <2>2, <2>5, SessionFacts
  <2>7. day' \in DayGrid
    BY <2>4, <2>5, <2>6, DayEnteredFacts
  <2>8. QED
    BY <1>2, <2>6, <2>7 DEF CheckInAfterStale, TypeOK, SessionTable, DayGrid
<1>3. ASSUME NEW u \in Users, NEW s \in Sessions, NEW secs \in Seconds, CheckOut(u, s, secs)
      PROVE  TypeOK'
  <2> DEFINE d == session[s].date
             counted == Recomputed(day, entry, session', u, d)
  <2>1. session[s].state = "active"
    BY <1>3 DEF CheckOut, ActiveSessions
  <2>2. session' \in SessionTable /\ d \in Dates
    BY <1>3, <2>1, SessionFacts DEF CheckOut
  <2>3. counted \in DayGrid
    BY <2>2, RecomputedFacts
  <2>4. [counted EXCEPT ![u][d] = [@ EXCEPT !.completed = TRUE]] \in DayGrid
    BY <2>2, <2>3, CompletedFacts
  <2>5. day' \in DayGrid
    BY <1>3, <2>2, <2>4, DayClosedFacts DEF CheckOut
  <2>6. QED
    BY <1>3, <2>2, <2>5 DEF CheckOut, TypeOK, SessionTable, DayGrid
<1>4. ASSUME NEW s \in Sessions, NEW secs \in Seconds, TimeoutSession(s, secs)
      PROVE  TypeOK'
  <2>1. session' \in SessionTable /\ session[s].date \in Dates /\ session[s].user \in Users
    BY <1>4, SessionFacts DEF TimeoutSession
  <2>2. day' \in DayGrid
    BY <1>4, <2>1, RecomputedFacts DEF TimeoutSession
  <2>3. QED
    BY <1>4, <2>1, <2>2 DEF TimeoutSession, TypeOK, SessionTable, DayGrid
<1>5. ASSUME NEW u \in Users, NEW d \in Dates, ReconcileDay(u, d)
      PROVE  TypeOK'
  <2>1. day' \in DayGrid
    BY <1>5, DayClosedFacts DEF ReconcileDay
  <2>2. QED
    BY <1>5, <2>1 DEF ReconcileDay, TypeOK, DayGrid
<1>6. ASSUME NextDate PROVE TypeOK'
  BY <1>6, CalendarAssumption DEF NextDate, TypeOK, Dates
<1>7. QED
  BY <1>1, <1>2, <1>3, <1>4, <1>5, <1>6 DEF AttendanceNext

\* Attendance leaves entries, creates and weeks alone.
LEMMA AttendanceFrame ==
  ASSUME AttendanceNext
  PROVE  entry' = entry /\ request' = request /\ period' = period
<1>1. ASSUME NEW u \in Users, NEW d \in Dates, NEW s \in Sessions, CheckIn(u, d, s)
      PROVE  entry' = entry /\ request' = request /\ period' = period
  BY <1>1 DEF CheckIn
<1>2. ASSUME NEW u \in Users, NEW d \in Dates, NEW s \in Sessions, NEW stale \in Sessions,
             NEW secs \in Seconds, CheckInAfterStale(u, d, s, stale, secs)
      PROVE  entry' = entry /\ request' = request /\ period' = period
  BY <1>2 DEF CheckInAfterStale
<1>3. ASSUME NEW u \in Users, NEW s \in Sessions, NEW secs \in Seconds, CheckOut(u, s, secs)
      PROVE  entry' = entry /\ request' = request /\ period' = period
  BY <1>3 DEF CheckOut
<1>4. ASSUME NEW s \in Sessions, NEW secs \in Seconds, TimeoutSession(s, secs)
      PROVE  entry' = entry /\ request' = request /\ period' = period
  BY <1>4 DEF TimeoutSession
<1>5. ASSUME NEW u \in Users, NEW d \in Dates, ReconcileDay(u, d)
      PROVE  entry' = entry /\ request' = request /\ period' = period
  BY <1>5 DEF ReconcileDay
<1>6. CASE NextDate
  BY <1>6 DEF NextDate
<1>7. QED
  BY <1>1, <1>2, <1>3, <1>4, <1>5, <1>6 DEF AttendanceNext

LEMMA TypeStep == TypeOK /\ [Next]_vars => TypeOK'
<1>1. TypeOK /\ UNCHANGED vars => TypeOK'
  BY DEF vars, TypeOK
<1>2. QED
  BY <1>1, TimeEntriesType, TimesheetsType, AttendanceType DEF Next

\* Every reachable state has rows of the declared types: versions stay within
\* the bound, totals within the sessions and entries of the tables.
THEOREM TypeCorrect == Spec => []TypeOK
BY TypeInit, TypeStep, PTL DEF Spec

=============================================================================
