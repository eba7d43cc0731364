--------------------------- MODULE WorkforceSafety ---------------------------
(***************************************************************************)
(* The sessions and days of Workforce for every value of its constants.    *)
(* DayInv is the inductive invariant of the attendance rows: the three     *)
(* properties hold each other up, and a completed day must exist.  With    *)
(* it, the rows are shown to implement PunchClock.                         *)
(***************************************************************************)
EXTENDS WorkforceProofs

CompletedDayExists ==
  \A u \in Users, d \in Dates : day[u][d].completed => day[u][d].status # "none"

DayInv == OneActiveSession /\ CompletedDayIdle /\ TotalAccurate /\ CompletedDayExists

-----------------------------------------------------------------------------
(* What the steps of each service do to the attendance rows *)

\* Sessions that agree on the closed sessions of a date sum to the same total.
LEMMA SameSeconds ==
  ASSUME NEW S, NEW T, NEW u \in Users, NEW d \in Dates,
         \A x \in Sessions :
           /\ (S[x].state = "closed" /\ S[x].user = u /\ S[x].date = d)
                <=> (T[x].state = "closed" /\ T[x].user = u /\ T[x].date = d)
           /\ S[x].state = "closed" /\ T[x].state = "closed" => S[x].secs = T[x].secs
  PROVE  SessionSeconds(S, u, d) = SessionSeconds(T, u, d)
BY DEF SessionSeconds

\* Work on entries may recompute a day but leaves its status, its completion
\* and every session alone.
LEMMA EntryStepDays ==
  ASSUME TypeOK, TypeOK', TimeEntriesNext
  PROVE  /\ period' = period /\ session' = session
         /\ \A v \in Users, x \in Dates :
              /\ day'[v][x].status = day[v][x].status
              /\ day'[v][x].completed = day[v][x].completed
              /\ \/ day'[v][x] = day[v][x]
                 \/ day'[v][x].total = SessionSeconds(session, v, x)
<1>t. entry' \in EntryTable /\ session \in SessionTable /\ day \in DayGrid
  BY DEF TypeOK, EntryTable, SessionTable, DayGrid
<1>1. ASSUME NEW e \in Entries, NEW f \in EntryFields, CheckCreate(e, f)
      PROVE  period' = period /\ session' = session /\ day' = day
  BY <1>1 DEF CheckCreate
<1>2. ASSUME NEW e \in Entries, InsertEntry(e)
      PROVE  /\ period' = period /\ session' = session
             /\ \E u \in Users, d \in Dates : day' = Recomputed(day, entry', session, u, d)
  <2>1. request[e] \in RequestRow
    BY <1>2 DEF InsertEntry, TypeOK, NoRequest
  <2>2. request[e].fields.user \in Users /\ request[e].fields.date \in Dates
    BY <2>1 DEF RequestRow, EntryFields
  <2>3. QED
    BY <1>2, <2>2 DEF InsertEntry
<1>3. ASSUME NEW e \in Entries, ReplayCreate(e) \/ AbortCreate(e)
      PROVE  period' = period /\ session' = session /\ day' = day
  BY <1>3 DEF ReplayCreate, AbortCreate
<1>4. ASSUME NEW e \in Entries, NEW actor \in Users, NEW date \in Dates,
             NEW slot \in Slots \cup {NoSlot}, NEW mins \in Minutes,
             UpdateEntry(e, actor, date, slot, mins)
      PROVE  /\ period' = period /\ session' = session
             /\ \E u \in Users, c, d \in Dates :
                  \/ day' = Recomputed(day, entry', session, u, d)
                  \/ day' = Recomputed(Recomputed(day, entry', session, u, d),
                                       entry', session, u, c)
  <2>1. entry[e].user \in Users /\ entry[e].date \in Dates
    BY <1>4, LiveRow DEF UpdateEntry, MayEdit, EntryRow
  <2>2. QED
    BY <1>4, <2>1 DEF UpdateEntry
<1>5. ASSUME NEW e \in Entries, NEW actor \in Users, DeleteEntry(e, actor)
      PROVE  /\ period' = period /\ session' = session
             /\ \E u \in Users, d \in Dates : day' = Recomputed(day, entry', session, u, d)
  <2>1. entry[e].date \in Dates
    BY <1>5, LiveRow DEF DeleteEntry, MayEdit, EntryRow
  <2>2. QED
    BY <1>5, <2>1 DEF DeleteEntry
<1>6. ASSUME NEW e \in Entries, NEW actor \in Users, NEW target \in EntryStatus,
             TransitionEntry(e, actor, target)
      PROVE  period' = period /\ session' = session /\ day' = day
  BY <1>6 DEF TransitionEntry
<1> DEFINE Goal(D) == \A v \in Users, x \in Dates :
                        /\ D[v][x].status = day[v][x].status
                        /\ D[v][x].completed = day[v][x].completed
                        /\ \/ D[v][x] = day[v][x]
                           \/ D[v][x].total = SessionSeconds(session, v, x)
<1>7. ASSUME NEW D \in DayGrid, Goal(D), NEW u \in Users, NEW d \in Dates
      PROVE  /\ Recomputed(D, entry', session, u, d) \in DayGrid
             /\ Goal(Recomputed(D, entry', session, u, d))
  <2> DEFINE R == Recomputed(D, entry', session, u, d)
  <2>1. /\ R \in DayGrid
        /\ \A v \in Users, x \in Dates :
             /\ R[v][x].status = D[v][x].status
             /\ R[v][x].completed = D[v][x].completed
             /\ <<v, x>> # <<u, d>> => R[v][x] = D[v][x]
        /\ D[u][d].status = "none" => R = D
        /\ D[u][d].status # "none" => R[u][d].total = SessionSeconds(session, u, d)
    BY <1>t, RecomputedFacts
  <2>2. ASSUME NEW v \in Users, NEW x \in Dates
        PROVE  /\ R[v][x].status = day[v][x].status
               /\ R[v][x].completed = day[v][x].completed
               /\ \/ R[v][x] = day[v][x]
                  \/ R[v][x].total = SessionSeconds(session, v, x)
    <3> HIDE DEF R
    <3>1. CASE v = u /\ x = d
      BY <1>7, <2>1, <3>1
    <3>2. CASE ~(v = u /\ x = d)
      BY <1>7, <2>1, <3>2
    <3>3. QED
      BY <3>1, <3>2
  <2>3. QED
    BY <2>1, <2>2
<1>8. Goal(day)
  OBVIOUS
<1>9. period' = period /\ session' = session
  BY <1>1, <1>2, <1>3, <1>4, <1>5, <1>6 DEF TimeEntriesNext
<1>10. \/ day' = day
       \/ \E u \in Users, d \in Dates : day' = Recomputed(day, entry', session, u, d)
       \/ \E u \in Users, c, d \in Dates :
            day' = Recomputed(Recomputed(day, entry', session, u, d), entry', session, u, c)
  BY <1>1, <1>2, <1>3, <1>4, <1>5, <1>6 DEF TimeEntriesNext
<1> HIDE DEF Goal
<1>11. Goal(day')
  BY <1>t, <1>7, <1>8, <1>10
<1>12. QED
  BY <1>9, <1>11 DEF Goal

\* Work on weeks changes nothing of a day but its status, and creates no day.
LEMMA WeekStepDays ==
  ASSUME TypeOK, TimesheetsNext
  PROVE  /\ session' = session
         /\ \A v \in Users, x \in Dates :
              /\ day'[v][x].completed = day[v][x].completed
              /\ day'[v][x].total = day[v][x].total
              /\ day'[v][x].logged = day[v][x].logged
              /\ day'[v][x].status = "none" <=> day[v][x].status = "none"
<1>1. ASSUME NEW u \in Users, NEW w \in Weeks, NEW from, "none" \notin from,
             NEW target \in DayStatus, day' = DaysMoved(u, w, from, target)
      PROVE  \A v \in Users, x \in Dates :
               /\ day'[v][x].completed = day[v][x].completed
               /\ day'[v][x].total = day[v][x].total
               /\ day'[v][x].logged = day[v][x].logged
               /\ day'[v][x].status = "none" <=> day[v][x].status = "none"
  <2>1. \A v \in Users, x \in Dates : day[v][x] \in DayRow
    BY DEF TypeOK
  <2>2. QED
    BY <1>1, <2>1 DEF DaysMoved, DayRow, DayStatus, TypeOK
<1>2. QED
  BY <1>1 DEF TimesheetsNext, CreatePeriod, SubmitWeek, ReviewWeek, ReopenWeek, DayStatus

-----------------------------------------------------------------------------
(* The status of a day under attendance *)

Drift(D) ==
  \A v \in Users, x \in Dates :
    \/ D[v][x].status = day[v][x].status
    \/ /\ day[v][x].status \in {"none", "open", "closed"}
       /\ D[v][x].status \in {"open", "closed"}

\* Check-ins, check-outs and workers open and close days, and never touch the
\* status of a day that its week has moved.
LEMMA AttendanceStatus ==
  ASSUME TypeOK, TypeOK', AttendanceNext
  PROVE  period' = period /\ entry' = entry /\ Drift(day')
<1>t. /\ entry \in EntryTable /\ session \in SessionTable /\ session' \in SessionTable
      /\ day \in DayGrid
  BY DEF TypeOK, EntryTable, SessionTable, DayGrid
<1>1. ASSUME NEW D \in DayGrid, Drift(D), NEW S \in SessionTable,
             NEW u \in Users, NEW d \in Dates
      PROVE  Recomputed(D, entry, S, u, d) \in DayGrid /\ Drift(Recomputed(D, entry, S, u, d))
  <2> DEFINE R == Recomputed(D, entry, S, u, d)
  <2>1. R \in DayGrid /\ \A v \in Users, x \in Dates : R[v][x].status = D[v][x].status
    BY <1>t, RecomputedFacts
  <2> HIDE DEF R
  <2>2. R \in DayGrid /\ Drift(R)
    BY <1>1, <2>1 DEF Drift
  <2>3. QED
    BY <2>2 DEF R
<1>2. ASSUME NEW D \in DayGrid, Drift(D), NEW u \in Users, NEW d \in Dates
      PROVE  DayClosed(D, u, d) \in DayGrid /\ Drift(DayClosed(D, u, d))
  <2> DEFINE R == DayClosed(D, u, d)
  <2>1. /\ R \in DayGrid
        /\ \A v \in Users, x \in Dates :
             R[v][x].status = D[v][x].status \/ (D[v][x].status = "open" /\ R[v][x].status = "closed")
    BY DayClosedFacts
  <2> HIDE DEF R
  <2>2. R \in DayGrid /\ Drift(R)
    BY <1>2, <2>1 DEF Drift
  <2>3. QED
    BY <2>2 DEF R
<1>3. ASSUME NEW D \in DayGrid, Drift(D), NEW S \in SessionTable,
             NEW u \in Users, NEW d \in Dates
      PROVE  Drift(DayEntered(D, S, u, d))
  <2> DEFINE R == DayEntered(D, S, u, d)
  <2>e. entry \in EntryTable
    BY <1>t
  <2>1. \A v \in Users, x \in Dates : <<v, x>> # <<u, d>> => R[v][x] = D[v][x]
    BY <2>e, DayEnteredFacts
  <2>2. R[u][d].status = IF D[u][d].status \in {"none", "closed"} THEN "open" ELSE D[u][d].status
    BY <2>e, DayEnteredFacts
  <2> HIDE DEF R
  <2>3. ASSUME NEW v \in Users, NEW x \in Dates
        PROVE  \/ R[v][x].status = day[v][x].status
               \/ /\ day[v][x].status \in {"none", "open", "closed"}
                  /\ R[v][x].status \in {"open", "closed"}
    <3>1. CASE v = u /\ x = d
      BY <1>3, <2>2, <3>1 DEF Drift
    <3>2. CASE ~(v = u /\ x = d)
      BY <1>3, <2>1, <3>2 DEF Drift
    <3>3. QED
      BY <3>1, <3>2
  <2>4. Drift(R)
    BY <2>3 DEF Drift
  <2>5. QED
    BY <2>4 DEF R
<1>4. Drift(day)
  BY DEF Drift
<1>5. ASSUME NEW u \in Users, NEW s \in Sessions, NEW d \in Dates, CheckIn(u, d, s)
      PROVE  Drift(day')
  BY <1>t, <1>3, <1>4, <1>5 DEF CheckIn
<1>6. ASSUME NEW u \in Users, NEW s \in Sessions, NEW d \in Dates,
             NEW stale \in Sessions, NEW secs \in Seconds,
             CheckInAfterStale(u, d, s, stale, secs)
      PROVE  Drift(day')
  <2> DEFINE sd == session[stale].date
             forced == SessionClosed(stale, secs)
             counted == Recomputed(day, entry, forced, u, sd)
             left == DayClosed(counted, u, sd)
  <2>1. session[stale].state = "active" /\ day' = DayEntered(left, session', u, d)
    BY <1>6 DEF CheckInAfterStale, ActiveSessions
  <2>2. sd \in Dates /\ forced \in SessionTable
    BY <2>1, SessionFacts
  <2> HIDE DEF sd, forced
  <2>3. counted \in DayGrid /\ Drift(counted)
    BY <1>t, <1>1, <1>4, <2>2
  <2> HIDE DEF counted
  <2>4. left \in DayGrid /\ Drift(left)
    BY <1>2, <2>2, <2>3
  <2> HIDE DEF left
  <2>5. QED
    BY <1>t, <1>3, <2>1, <2>4
<1>7. ASSUME NEW u \in Users, NEW s \in Sessions, NEW secs \in Seconds, CheckOut(u, s, secs)
      PROVE  Drift(day')
  <2> DEFINE d == session[s].date
             counted == Recomputed(day, entry, session', u, d)
             done == [counted EXCEPT ![u][d] = [@ EXCEPT !.completed = TRUE]]
  <2>1. session[s].state = "active" /\ day' = DayClosed(done, u, d)
    BY <1>7 DEF CheckOut, ActiveSessions
  <2>2. d \in Dates
    BY <2>1, SessionFacts
  <2> HIDE DEF d
  <2>3. counted \in DayGrid /\ Drift(counted)
    BY <1>t, <1>1, <1>4, <2>2
  <2> HIDE DEF counted
  <2>4. done \in DayGrid /\ \A v \in Users, x \in Dates : done[v][x].status = counted[v][x].status
    <3>1. done \in DayGrid
      BY <2>2, <2>3, CompletedFacts
    <3>2. \A v \in Users, x \in Dates : done[v][x].status = counted[v][x].status
      BY <2>2, <2>3, CompletedFacts
    <3>3. QED
      BY <3>1, <3>2
  <2> HIDE DEF done
  <2>5. Drift(done)
    BY <2>3, <2>4 DEF Drift
  <2>6. QED
    BY <1>2, <2>1, <2>2, <2>4, <2>5
<1>8. ASSUME NEW s \in Sessions, NEW secs \in Seconds, TimeoutSession(s, secs)
      PROVE  Drift(day')
  <2>1. session[s].user \in Users /\ session[s].date \in Dates
    BY <1>8, SessionFacts DEF TimeoutSession
  <2>2. QED
    BY <1>t, <1>1, <1>4, <1>8, <2>1 DEF TimeoutSession
<1>9. ASSUME NEW u \in Users, NEW d \in Dates, ReconcileDay(u, d)
      PROVE  Drift(day')
  BY <1>t, <1>2, <1>4, <1>9 DEF ReconcileDay
<1>10. CASE NextDate
  BY <1>4, <1>10 DEF NextDate, Drift
<1>11. Drift(day')
  BY <1>5, <1>6, <1>7, <1>8, <1>9, <1>10 DEF AttendanceNext
<1>12. period' = period /\ entry' = entry
  BY AttendanceFrame
<1>13. QED
  BY <1>11, <1>12

-----------------------------------------------------------------------------
(* The invariant of the attendance rows, as a relation between sessions S  *)
(* and days D, kept by each of the moves that check-ins are made of        *)

Solitary(S) ==
  \A s, t \in Sessions :
    S[s].state = "active" /\ S[t].state = "active" /\ S[s].user = S[t].user => s = t

Idle(S, D) ==
  \A s \in Sessions : S[s].state = "active" =>
    /\ D[S[s].user][S[s].date].status # "none"
    /\ ~D[S[s].user][S[s].date].completed

Accurate(S, D) ==
  \A u \in Users, d \in Dates :
    D[u][d].status # "none" => D[u][d].total = SessionSeconds(S, u, d)

Present(D) == \A u \in Users, d \in Dates : D[u][d].completed => D[u][d].status # "none"

Sound(S, D) == Solitary(S) /\ Idle(S, D) /\ Accurate(S, D) /\ Present(D)

LEMMA SoundFacts == TypeOK => (DayInv <=> Sound(session, day))
<1> SUFFICES ASSUME TypeOK PROVE DayInv <=> Sound(session, day)
  OBVIOUS
<1>1. \A s \in Sessions : session[s].state = "active" =>
        session[s].user \in Users /\ session[s].date \in Dates
  BY KnownSession DEF SessionRow
<1>2. OneActiveSession <=> Solitary(session)
  BY <1>1 DEF OneActiveSession, Solitary, ActiveSessions
<1>3. CompletedDayIdle <=> Idle(session, day)
  BY DEF CompletedDayIdle, Idle
<1>4. TotalAccurate <=> Accurate(session, day)
  BY DEF TotalAccurate, Accurate
<1>5. QED
  BY <1>2, <1>3, <1>4 DEF DayInv, Sound, CompletedDayExists, Present

\* The days may change in their status, short of coming and going.
LEMMA SoundStatus ==
  ASSUME NEW S \in SessionTable, NEW D, NEW C, Sound(S, D),
         \A v \in Users, x \in Dates :
           /\ C[v][x].completed = D[v][x].completed
           /\ C[v][x].status = "none" <=> D[v][x].status = "none"
           /\ \/ C[v][x].total = D[v][x].total
              \/ C[v][x].total = SessionSeconds(S, v, x)
  PROVE  Sound(S, C)
<1>1. \A s \in Sessions : S[s].state = "active" => S[s].user \in Users /\ S[s].date \in Dates
  BY DEF SessionTable, SessionRow, NoSession
<1>2. Idle(S, C)
  BY <1>1 DEF Sound, Idle
<1>3. Accurate(S, C)
  BY DEF Sound, Accurate
<1>4. QED
  BY <1>2, <1>3 DEF Sound, Present

\* Closing a session and recomputing its day.
LEMMA SoundClose ==
  ASSUME NEW S \in SessionTable, NEW T \in SessionTable, NEW D \in DayGrid,
         NEW E \in EntryTable, NEW s \in Sessions,
         S[s].state = "active", Sound(S, D),
         T[s].state = "closed", T[s].user = S[s].user, T[s].date = S[s].date,
         \A t \in Sessions \ {s} : T[t] = S[t]
  PROVE  Sound(T, Recomputed(D, E, T, S[s].user, S[s].date))
<1> DEFINE u == S[s].user
           d == S[s].date
           R == Recomputed(D, E, T, u, d)
<1>1. S[s] \in SessionRow
  BY DEF SessionTable, NoSession
<1>2. u \in Users /\ d \in Dates
  BY <1>1 DEF SessionRow
<1>3. T[s].user = u /\ T[s].date = d
  OBVIOUS
<1> HIDE DEF u, d
<1>4. /\ \A v \in Users, x \in Dates :
           /\ R[v][x].status = D[v][x].status
           /\ R[v][x].completed = D[v][x].completed
           /\ <<v, x>> # <<u, d>> => R[v][x] = D[v][x]
      /\ D[u][d].status # "none" => R[u][d].total = SessionSeconds(T, u, d)
  BY <1>2, RecomputedFacts
<1> HIDE DEF R
<1>5. Solitary(T)
  BY <1>3 DEF Sound, Solitary
<1>6. Idle(T, R)
  <2>1. \A t \in Sessions : T[t].state = "active" =>
          T[t].user \in Users /\ T[t].date \in Dates
    BY DEF SessionTable, SessionRow, NoSession
  <2>2. QED
    BY <1>3, <1>4, <2>1 DEF Sound, Idle
<1>7. ASSUME NEW v \in Users, NEW x \in Dates, R[v][x].status # "none"
      PROVE  R[v][x].total = SessionSeconds(T, v, x)
  <2>1. CASE v = u /\ x = d
    BY <1>4, <1>7, <2>1
  <2>2. CASE ~(v = u /\ x = d)
    <3>1. \A t \in Sessions :
            /\ (S[t].state = "closed" /\ S[t].user = v /\ S[t].date = x)
                 <=> (T[t].state = "closed" /\ T[t].user = v /\ T[t].date = x)
            /\ S[t].state = "closed" /\ T[t].state = "closed" => S[t].secs = T[t].secs
      BY <1>3, <2>2
    <3>2. SessionSeconds(S, v, x) = SessionSeconds(T, v, x)
      BY <3>1, SameSeconds
    <3>3. QED
      BY <1>4, <1>7, <2>2, <3>2 DEF Sound, Accurate
  <2>3. QED
    BY <2>1, <2>2
<1>8. Present(R)
  BY <1>4 DEF Sound, Present
<1>9. QED
  BY <1>3, <1>5, <1>6, <1>7, <1>8 DEF Sound, Accurate, R, u, d

\* A login of a user who has no active session, on a day that is not completed.
LEMMA SoundLogin ==
  ASSUME NEW S \in SessionTable, NEW D \in DayGrid, entry \in EntryTable,
         NEW s \in Sessions, NEW u \in Users, NEW d \in Dates,
         Sound(S, D), S[s] = NoSession,
         \A t \in Sessions : S[t].state = "active" => S[t].user # u,
         D[u][d].status # "none" => ~D[u][d].completed
  PROVE  Sound(Login(S, s, u, d), DayEntered(D, Login(S, s, u, d), u, d))
<1> DEFINE T == Login(S, s, u, d)
           R == DayEntered(D, T, u, d)
<1>1. /\ T[s].state = "active" /\ T[s].user = u /\ T[s].date = d
      /\ \A t \in Sessions \ {s} : T[t] = S[t]
      /\ T \in SessionTable
  BY MeasureAssumption DEF Login, SessionTable, SessionRow
<1>2. S[s].state = "none"
  BY DEF NoSession
<1> HIDE DEF T
<1>3. /\ \A v \in Users, x \in Dates : <<v, x>> # <<u, d>> => R[v][x] = D[v][x]
      /\ R[u][d].status = IF D[u][d].status \in {"none", "closed"} THEN "open"
                          ELSE D[u][d].status
      /\ R[u][d].completed = (D[u][d].status # "none" /\ D[u][d].completed)
      /\ R[u][d].total = SessionSeconds(T, u, d)
  BY <1>1, DayEnteredFacts
<1> HIDE DEF R
<1>4. Solitary(T)
  BY <1>1 DEF Sound, Solitary
<1>5. R[u][d].status # "none" /\ ~R[u][d].completed
  BY <1>3
<1>6. Idle(T, R)
  <2>1. \A t \in Sessions : T[t].state = "active" =>
          T[t].user \in Users /\ T[t].date \in Dates
    BY <1>1 DEF SessionTable, SessionRow, NoSession
  <2>2. \A t \in Sessions \ {s} : T[t].state = "active" => T[t].user # u
    BY <1>1
  <2>3. QED
    BY <1>1, <1>3, <1>5, <2>1, <2>2 DEF Sound, Idle
<1>7. ASSUME NEW v \in Users, NEW x \in Dates, R[v][x].status # "none"
      PROVE  R[v][x].total = SessionSeconds(T, v, x)
  <2>1. CASE v = u /\ x = d
    BY <1>3, <2>1
  <2>2. CASE ~(v = u /\ x = d)
    <3>1. \A t \in Sessions :
            /\ (S[t].state = "closed" /\ S[t].user = v /\ S[t].date = x)
                 <=> (T[t].state = "closed" /\ T[t].user = v /\ T[t].date = x)
            /\ S[t].state = "closed" /\ T[t].state = "closed" => S[t].secs = T[t].secs
      BY <1>1, <1>2
    <3>2. SessionSeconds(S, v, x) = SessionSeconds(T, v, x)
      BY <3>1, SameSeconds
    <3>3. QED
      BY <1>3, <1>7, <2>2, <3>2 DEF Sound, Accurate
  <2>3. QED
    BY <2>1, <2>2
<1>8. Present(R)
  BY <1>3, <1>5 DEF Sound, Present
<1>9. QED
  BY <1>4, <1>6, <1>7, <1>8 DEF Sound, Accurate, R, T

-----------------------------------------------------------------------------
(* The attendance invariant is inductive *)

LEMMA DayInvInit == Init => DayInv
BY DEF Init, DayInv, OneActiveSession, CompletedDayIdle, TotalAccurate, CompletedDayExists,
       ActiveSessions, NoSession, NoDay

LEMMA AttendanceSound ==
  ASSUME TypeOK, TypeOK', Sound(session, day), AttendanceNext
  PROVE  Sound(session', day')
<1>t. /\ entry \in EntryTable /\ session \in SessionTable /\ day \in DayGrid
      /\ session' \in SessionTable /\ day' \in DayGrid
  BY DEF TypeOK, EntryTable, SessionTable, DayGrid
<1>1. ASSUME NEW u \in Users, NEW s \in Sessions, NEW d \in Dates, CheckIn(u, d, s)
      PROVE  Sound(session', day')
  <2>1. /\ \A t \in Sessions : session[t].state = "active" => session[t].user # u
        /\ day[u][d].status # "none" => ~day[u][d].completed
    BY <1>1 DEF CheckIn, ActiveSessions, MayLogin, NoDay
  <2>2. /\ session[s] = NoSession
        /\ session' = Login(session, s, u, d) /\ day' = DayEntered(day, session', u, d)
    BY <1>1 DEF CheckIn
  <2>3. QED
    BY <1>t, <2>1, <2>2, SoundLogin
<1>2. ASSUME NEW u \in Users, NEW s \in Sessions, NEW d \in Dates,
             NEW stale \in Sessions, NEW secs \in Seconds,
             CheckInAfterStale(u, d, s, stale, secs)
      PROVE  Sound(session', day')
  <2> DEFINE sd == session[stale].date
             forced == SessionClosed(stale, secs)
             counted == Recomputed(day, entry, forced, u, sd)
             left == DayClosed(counted, u, sd)
  <2>1. session[stale].state = "active" /\ session[stale].user = u /\ sd # d
    BY <1>2 DEF CheckInAfterStale, ActiveSessions
  <2>2. /\ session[s] = NoSession /\ stale # s
        /\ session' = Login(forced, s, u, d) /\ day' = DayEntered(left, session', u, d)
        /\ day[u][d].status # "none" => ~day[u][d].completed
    BY <1>2, <2>1 DEF CheckInAfterStale, MayLogin, NoDay, NoSession
  <2>3. /\ forced \in SessionTable /\ sd \in Dates
        /\ forced[stale].state = "closed" /\ forced[stale].user = u /\ forced[stale].date = sd
        /\ \A t \in Sessions \ {stale} : forced[t] = session[t]
    BY <2>1, SessionFacts
  <2> HIDE DEF forced, sd
  <2>4. Sound(forced, counted)
    BY <1>t, <2>1, <2>3, SoundClose DEF sd
  <2>5. /\ counted \in DayGrid
        /\ \A v \in Users, x \in Dates : <<v, x>> # <<u, sd>> => counted[v][x] = day[v][x]
    BY <1>t, <2>3, RecomputedFacts
  <2> HIDE DEF counted
  <2>6. /\ left \in DayGrid
        /\ \A v \in Users, x \in Dates :
             /\ left[v][x].completed = counted[v][x].completed
             /\ left[v][x].total = counted[v][x].total
             /\ left[v][x].status = "none" <=> counted[v][x].status = "none"
    BY <2>3, <2>5, DayClosedFacts
  <2> HIDE DEF left
  <2>7. Sound(forced, left)
    BY <2>3, <2>4, <2>6, SoundStatus
  <2>8. \A t \in Sessions : forced[t].state = "active" => forced[t].user # u
    BY <2>1, <2>3 DEF Sound, Solitary
  <2>9. forced[s] = NoSession
    BY <2>2, <2>3
  <2>10. left[u][d].status # "none" => ~left[u][d].completed
    BY <2>1, <2>2, <2>5, <2>6 DEF sd
  <2>11. QED
    BY <1>t, <2>2, <2>3, <2>6, <2>7, <2>8, <2>9, <2>10, SoundLogin
<1>3. ASSUME NEW u \in Users, NEW s \in Sessions, NEW secs \in Seconds, CheckOut(u, s, secs)
      PROVE  Sound(session', day')
  <2> DEFINE d == session[s].date
             counted == Recomputed(day, entry, session', u, d)
             done == [counted EXCEPT ![u][d] = [@ EXCEPT !.completed = TRUE]]
  <2>1. /\ session[s].state = "active" /\ session[s].user = u
        /\ session' = SessionClosed(s, secs) /\ day' = DayClosed(done, u, d)
    BY <1>3 DEF CheckOut, ActiveSessions
  <2>2. /\ d \in Dates
        /\ session'[s].state = "closed" /\ session'[s].user = u /\ session'[s].date = d
        /\ \A t \in Sessions \ {s} : session'[t] = session[t]
    BY <2>1, SessionFacts
  <2>3. Sound(session', counted)
    BY <1>t, <2>1, <2>2, SoundClose
  <2> HIDE DEF d
  <2>4. counted \in DayGrid
    BY <1>t, <2>2, RecomputedFacts
  <2> HIDE DEF counted
  <2>5. /\ done \in DayGrid
        /\ \A v \in Users, x \in Dates :
             /\ done[v][x].status = counted[v][x].status
             /\ done[v][x].total = counted[v][x].total
             /\ <<v, x>> # <<u, d>> => done[v][x] = counted[v][x]
    BY <2>2, <2>4, CompletedFacts
  <2> HIDE DEF done
  <2>6. \A t \in Sessions : session'[t].state = "active" =>
          session'[t].user \in Users /\ session'[t].date \in Dates /\ session'[t].user # u
    BY <1>t, <2>1, <2>2 DEF Sound, Solitary, SessionTable, SessionRow, NoSession
  <2>p. done[u][d].status # "none"
    <3>1. day[u][d].status # "none"
      BY <2>1 DEF Sound, Idle, d
    <3>2. counted[u][d].status = day[u][d].status
      BY <1>t, <2>2, RecomputedFacts DEF counted
    <3>3. QED
      BY <2>2, <2>5, <3>1, <3>2
  <2>7. Sound(session', done)
    BY <2>3, <2>5, <2>6, <2>p DEF Sound, Idle, Accurate, Present
  <2>8. \A v \in Users, x \in Dates :
          /\ day'[v][x].completed = done[v][x].completed
          /\ day'[v][x].total = done[v][x].total
          /\ day'[v][x].status = "none" <=> done[v][x].status = "none"
    BY <2>1, <2>2, <2>5, DayClosedFacts
  <2>9. QED
    BY <1>t, <2>7, <2>8, SoundStatus
<1>4. ASSUME NEW s \in Sessions, NEW secs \in Seconds, TimeoutSession(s, secs)
      PROVE  Sound(session', day')
  <2>1. /\ session[s].state = "active" /\ session' = SessionClosed(s, secs)
        /\ day' = Recomputed(day, entry, session', session[s].user, session[s].date)
    BY <1>4 DEF TimeoutSession
  <2>2. /\ session'[s].state = "closed"
        /\ session'[s].user = session[s].user /\ session'[s].date = session[s].date
        /\ \A t \in Sessions \ {s} : session'[t] = session[t]
    BY <2>1, SessionFacts
  <2>3. QED
    BY <1>t, <2>1, <2>2, SoundClose
<1>5. ASSUME NEW u \in Users, NEW d \in Dates, ReconcileDay(u, d)
      PROVE  Sound(session', day')
  <2>1. session' = session /\ day' = DayClosed(day, u, d)
    BY <1>5 DEF ReconcileDay
  <2>2. \A v \in Users, x \in Dates :
          /\ day'[v][x].completed = day[v][x].completed
          /\ day'[v][x].total = day[v][x].total
          /\ day'[v][x].status = "none" <=> day[v][x].status = "none"
    BY <1>t, <2>1, DayClosedFacts
  <2>3. QED
    BY <1>t, <2>1, <2>2, SoundStatus
<1>6. ASSUME NextDate PROVE Sound(session', day')
  BY <1>6 DEF NextDate
<1>7. QED
  BY <1>1, <1>2, <1>3, <1>4, <1>5, <1>6 DEF AttendanceNext

LEMMA SoundNext == TypeOK' => (DayInv' <=> Sound(session', day'))
<1> SUFFICES ASSUME TypeOK' PROVE DayInv' <=> Sound(session', day')
  OBVIOUS
<1>1. \A s \in Sessions : session'[s].state = "active" =>
        session'[s].user \in Users /\ session'[s].date \in Dates
  BY DEF TypeOK, SessionRow, NoSession
<1>2. OneActiveSession' <=> Solitary(session')
  BY <1>1 DEF OneActiveSession, Solitary, ActiveSessions
<1>3. CompletedDayIdle' <=> Idle(session', day')
  BY DEF CompletedDayIdle, Idle
<1>4. TotalAccurate' <=> Accurate(session', day')
  BY DEF TotalAccurate, Accurate
<1>5. QED
  BY <1>2, <1>3, <1>4 DEF DayInv, Sound, CompletedDayExists, Present

LEMMA DayInvStep == TypeOK /\ TypeOK' /\ DayInv /\ [Next]_vars => DayInv'
<1> SUFFICES ASSUME TypeOK, TypeOK', DayInv, [Next]_vars PROVE Sound(session', day')
  BY SoundNext
<1>1. Sound(session, day)
  BY SoundFacts
<1>2. session \in SessionTable
  BY DEF TypeOK, SessionTable
<1>3. CASE TimeEntriesNext
  <2>1. /\ session' = session
        /\ \A v \in Users, x \in Dates :
             /\ day'[v][x].completed = day[v][x].completed
             /\ day'[v][x].status = "none" <=> day[v][x].status = "none"
             /\ \/ day'[v][x].total = day[v][x].total
                \/ day'[v][x].total = SessionSeconds(session, v, x)
    BY <1>3, EntryStepDays
  <2>2. QED
    BY <1>1, <1>2, <2>1, SoundStatus
<1>4. CASE TimesheetsNext
  BY <1>1, <1>2, <1>4, WeekStepDays, SoundStatus
<1>5. CASE AttendanceNext
  BY <1>1, <1>5, AttendanceSound
<1>6. CASE UNCHANGED vars
  BY <1>1, <1>6 DEF vars
<1>7. QED
  BY <1>3, <1>4, <1>5, <1>6 DEF Next

\* The inductive invariant of sessions and days: single sessions, idle completed
\* days and accurate totals survive every step of every service.
THEOREM DayInvCorrect == Spec => []DayInv
BY TypeCorrect, DayInvInit, DayInvStep, PTL DEF Spec

\* A user never has two active sessions, whatever waits for the lock, times out
\* or is closed by a later check-in (attendance_service.py check_in).
THEOREM SingleSession == Spec => []OneActiveSession
BY DayInvCorrect, PTL DEF DayInv

\* No session runs on a day that was checked out.
THEOREM IdleAfterCheckOut == Spec => []CompletedDayIdle
BY DayInvCorrect, PTL DEF DayInv

\* total_session_seconds is the sum of the closed sessions of the date, whoever
\* closed them and whatever recomputed the day last.
THEOREM TotalsAccurate == Spec => []TotalAccurate
BY DayInvCorrect, PTL DEF DayInv

-----------------------------------------------------------------------------
(* The worked time of a completed day *)

\* A step closes only sessions of days that are not completed, and leaves what
\* was closed before as it was.
LEMMA ClosedSessionsKept ==
  ASSUME TypeOK, TypeOK', DayInv, Next,
         NEW v \in Users, NEW x \in Dates, day[v][x].completed
  PROVE  SessionSeconds(session, v, x) = SessionSeconds(session', v, x)
<1>1. CASE session' = session
  BY <1>1
<1>2. ASSUME NEW s \in Sessions, NEW S, S[s].state = "closed",
             session[s].state = "active", S[s].user = session[s].user,
             S[s].date = session[s].date, \A t \in Sessions \ {s} : S[t] = session[t]
      PROVE  SessionSeconds(session, v, x) = SessionSeconds(S, v, x)
  <2>1. ~(session[s].user = v /\ session[s].date = x)
    BY <1>2 DEF DayInv, CompletedDayIdle
  <2>2. \A t \in Sessions :
          /\ (session[t].state = "closed" /\ session[t].user = v /\ session[t].date = x)
               <=> (S[t].state = "closed" /\ S[t].user = v /\ S[t].date = x)
          /\ session[t].state = "closed" /\ S[t].state = "closed"
               => session[t].secs = S[t].secs
    BY <1>2, <2>1
  <2>3. QED
    BY <2>2, SameSeconds
<1>3. ASSUME NEW S \in SessionTable, NEW s \in Sessions, S[s] = NoSession,
             NEW u \in Users, NEW d \in Dates
      PROVE  SessionSeconds(S, v, x) = SessionSeconds(Login(S, s, u, d), v, x)
  <2> DEFINE T == Login(S, s, u, d)
  <2>1. T[s].state = "active" /\ S[s].state = "none" /\ \A t \in Sessions \ {s} : T[t] = S[t]
    BY <1>3 DEF Login, SessionTable, NoSession
  <2> HIDE DEF T
  <2>2. \A t \in Sessions :
          /\ (S[t].state = "closed" /\ S[t].user = v /\ S[t].date = x)
               <=> (T[t].state = "closed" /\ T[t].user = v /\ T[t].date = x)
          /\ S[t].state = "closed" /\ T[t].state = "closed" => S[t].secs = T[t].secs
    BY <2>1
  <2>3. SessionSeconds(S, v, x) = SessionSeconds(T, v, x)
    BY <2>2, SameSeconds
  <2>4. QED
    BY <2>3 DEF T
<1>4. ASSUME NEW s \in Sessions, NEW secs \in Seconds, session[s].state = "active"
      PROVE  /\ SessionClosed(s, secs) \in SessionTable
             /\ SessionSeconds(session, v, x) = SessionSeconds(SessionClosed(s, secs), v, x)
             /\ \A t \in Sessions \ {s} : SessionClosed(s, secs)[t] = session[t]
  BY <1>2, <1>4, SessionFacts
<1>5. session \in SessionTable
  BY DEF TypeOK, SessionTable
<1>6. ASSUME NEW u \in Users, NEW s \in Sessions, NEW d \in Dates, CheckIn(u, d, s)
      PROVE  SessionSeconds(session, v, x) = SessionSeconds(session', v, x)
  BY <1>3, <1>5, <1>6 DEF CheckIn
<1>7. ASSUME NEW u \in Users, NEW s \in Sessions, NEW d \in Dates,
             NEW stale \in Sessions, NEW secs \in Seconds,
             CheckInAfterStale(u, d, s, stale, secs)
      PROVE  SessionSeconds(session, v, x) = SessionSeconds(session', v, x)
  <2>1. /\ session[stale].state = "active" /\ session[s] = NoSession /\ s # stale
        /\ session' = Login(SessionClosed(stale, secs), s, u, d)
    BY <1>7 DEF CheckInAfterStale, ActiveSessions, NoSession
  <2>2. QED
    BY <1>3, <1>4, <2>1
<1>8. ASSUME NEW u \in Users, NEW s \in Sessions, NEW secs \in Seconds,
             CheckOut(u, s, secs) \/ TimeoutSession(s, secs)
      PROVE  SessionSeconds(session, v, x) = SessionSeconds(session', v, x)
  <2>1. session[s].state = "active" /\ session' = SessionClosed(s, secs)
    BY <1>8 DEF CheckOut, TimeoutSession, ActiveSessions
  <2>2. QED
    BY <1>4, <2>1
<1>9. CASE TimeEntriesNext
  BY <1>1, <1>9, EntryStepDays
<1>10. CASE TimesheetsNext
  BY <1>1, <1>10, WeekStepDays
<1>11. CASE AttendanceNext
  BY <1>1, <1>6, <1>7, <1>8, <1>11 DEF AttendanceNext, ReconcileDay, NextDate
<1>12. QED
  BY <1>9, <1>10, <1>11 DEF Next

\* No step takes a completion back.
LEMMA CompletionKept ==
  ASSUME TypeOK, TypeOK', DayInv, Next,
         NEW v \in Users, NEW x \in Dates, day[v][x].completed
  PROVE  day'[v][x].completed
<1>t. /\ entry \in EntryTable /\ session \in SessionTable /\ day \in DayGrid
      /\ session' \in SessionTable
  BY DEF TypeOK, EntryTable, SessionTable, DayGrid
<1>0. day[v][x].status # "none"
  BY DEF DayInv, CompletedDayExists
<1>1. ASSUME NEW D \in DayGrid, NEW u \in Users, NEW d \in Dates, NEW S \in SessionTable,
             D[v][x].completed, D[v][x].status # "none"
      PROVE  /\ DayEntered(D, S, u, d)[v][x].completed
             /\ DayClosed(D, u, d) \in DayGrid
             /\ DayClosed(D, u, d)[v][x].completed
             /\ DayClosed(D, u, d)[v][x].status # "none"
  <2>1. DayEntered(D, S, u, d)[v][x].completed
    <3> DEFINE R == DayEntered(D, S, u, d)
    <3>e. entry \in EntryTable
      BY <1>t
    <3>0. R \in DayGrid
      BY <3>e, DayEnteredFacts
    <3>1. /\ <<v, x>> # <<u, d>> => R[v][x] = D[v][x]
          /\ R[u][d].completed = (D[u][d].status # "none" /\ D[u][d].completed)
      <4>1. <<v, x>> # <<u, d>> => R[v][x] = D[v][x]
        BY <3>e, DayEnteredFacts
      <4>2. R[u][d].completed = (D[u][d].status # "none" /\ D[u][d].completed)
        BY <3>e, DayEnteredFacts
      <4>3. QED
        BY <4>1, <4>2
    <3>2. R[v][x] \in DayRow /\ D[v][x] \in DayRow
      BY <3>0 DEF DayGrid
    <3>3. R[v][x].completed \in BOOLEAN /\ D[v][x].completed \in BOOLEAN
      BY <3>2 DEF DayRow
    <3> HIDE DEF R
    <3>4. R[v][x].completed
      BY <1>1, <3>1, <3>3
    <3>5. QED
      BY <3>4 DEF R
  <2>2. QED
    BY <1>1, <2>1, DayClosedFacts
<1>2. ASSUME NEW u \in Users, NEW d \in Dates, NEW S \in SessionTable
      PROVE  LET C == Recomputed(day, entry, S, u, d) IN
             /\ C \in DayGrid /\ C[v][x].completed /\ C[v][x].status # "none"
  BY <1>t, <1>0, RecomputedFacts
<1>3. CASE TimeEntriesNext
  BY <1>3, EntryStepDays
<1>4. CASE TimesheetsNext
  BY <1>4, WeekStepDays
<1>5. ASSUME NEW u \in Users, NEW s \in Sessions, NEW d \in Dates, CheckIn(u, d, s)
      PROVE  day'[v][x].completed
  BY <1>t, <1>0, <1>1, <1>5 DEF CheckIn
<1>6. ASSUME NEW u \in Users, NEW s \in Sessions, NEW d \in Dates,
             NEW stale \in Sessions, NEW secs \in Seconds,
             CheckInAfterStale(u, d, s, stale, secs)
      PROVE  day'[v][x].completed
  <2> DEFINE sd == session[stale].date
             counted == Recomputed(day, entry, SessionClosed(stale, secs), u, sd)
             left == DayClosed(counted, u, sd)
  <2>1. session[stale].state = "active" /\ day' = DayEntered(left, session', u, d)
    BY <1>6 DEF CheckInAfterStale, ActiveSessions
  <2>2. sd \in Dates /\ SessionClosed(stale, secs) \in SessionTable
    BY <2>1, SessionFacts
  <2> HIDE DEF sd
  <2>3. counted \in DayGrid /\ counted[v][x].completed /\ counted[v][x].status # "none"
    BY <1>2, <2>2
  <2> HIDE DEF counted
  <2>4. left \in DayGrid /\ left[v][x].completed /\ left[v][x].status # "none"
    BY <1>t, <1>1, <2>2, <2>3
  <2> HIDE DEF left
  <2>5. QED
    BY <1>t, <1>1, <2>1, <2>4
<1>7. ASSUME NEW u \in Users, NEW s \in Sessions, NEW secs \in Seconds, CheckOut(u, s, secs)
      PROVE  day'[v][x].completed
  <2> DEFINE d == session[s].date
             counted == Recomputed(day, entry, session', u, d)
             done == [counted EXCEPT ![u][d] = [@ EXCEPT !.completed = TRUE]]
  <2>1. session[s].state = "active" /\ day' = DayClosed(done, u, d)
    BY <1>7 DEF CheckOut, ActiveSessions
  <2>2. d \in Dates
    BY <2>1, SessionFacts
  <2> HIDE DEF d
  <2>3. counted \in DayGrid /\ counted[v][x].completed /\ counted[v][x].status # "none"
    BY <1>t, <1>2, <2>2
  <2> HIDE DEF counted
  <2>4. /\ done \in DayGrid /\ done[u][d].completed
        /\ done[v][x].status = counted[v][x].status
        /\ <<v, x>> # <<u, d>> => done[v][x] = counted[v][x]
    <3>1. done \in DayGrid
      BY <2>2, <2>3, CompletedFacts
    <3>2. done[u][d].completed
      BY <2>2, <2>3, CompletedFacts
    <3>3. done[v][x].status = counted[v][x].status
      BY <2>2, <2>3, CompletedFacts
    <3>4. <<v, x>> # <<u, d>> => done[v][x] = counted[v][x]
      BY <2>2, <2>3, CompletedFacts
    <3>5. QED
      BY <3>1, <3>2, <3>3, <3>4
  <2> HIDE DEF done
  <2>5. done[v][x].completed /\ done[v][x].status # "none"
    BY <2>3, <2>4
  <2>6. QED
    BY <1>t, <1>1, <2>1, <2>2, <2>4, <2>5
<1>8. ASSUME NEW s \in Sessions, NEW secs \in Seconds, TimeoutSession(s, secs)
      PROVE  day'[v][x].completed
  BY <1>t, <1>2, <1>8, SessionFacts DEF TimeoutSession
<1>9. ASSUME NEW u \in Users, NEW d \in Dates, ReconcileDay(u, d)
      PROVE  day'[v][x].completed
  BY <1>t, <1>0, <1>1, <1>9 DEF ReconcileDay
<1>10. CASE NextDate
  BY <1>10 DEF NextDate
<1>11. QED
  BY <1>3, <1>4, <1>5, <1>6, <1>7, <1>8, <1>9, <1>10 DEF Next, AttendanceNext

LEMMA CompletedStep ==
  TypeOK /\ TypeOK' /\ DayInv /\ DayInv' /\ [Next]_vars
    => [\A u \in Users, d \in Dates : day[u][d].completed =>
          day'[u][d].completed /\ day'[u][d].total = day[u][d].total]_vars
<1> SUFFICES ASSUME TypeOK, TypeOK', DayInv, DayInv', Next,
                    NEW u \in Users, NEW d \in Dates, day[u][d].completed
             PROVE  day'[u][d].completed /\ day'[u][d].total = day[u][d].total
  OBVIOUS
<1>1. day'[u][d].completed
  BY CompletionKept
<1>2. day[u][d].total = SessionSeconds(session, u, d)
  BY DEF DayInv, TotalAccurate, CompletedDayExists
<1>3. day'[u][d].total = SessionSeconds(session', u, d)
  BY <1>1 DEF DayInv, TotalAccurate, CompletedDayExists
<1>4. QED
  BY <1>1, <1>2, <1>3, ClosedSessionsKept

\* Once a user checked out, the worked time of the day never changes again.
THEOREM CompletedTotalIsFinal == Spec => CompletedTotalFinal
<1>1. Spec => []TypeOK /\ []DayInv
  BY TypeCorrect, DayInvCorrect, PTL
<1>2. QED
  BY <1>1, CompletedStep, PTL DEF Spec, CompletedTotalFinal

-----------------------------------------------------------------------------
(* The punch clock: what the sessions S say of it, as they are closed and  *)
(* opened                                                                  *)

RunsOn(S, u) == {S[s].date : s \in {x \in Sessions : S[x].state = "active" /\ S[x].user = u}}

\* T is S with the active session s closed.
ClosedIn(S, T, s) ==
  /\ S[s].state = "active" /\ T[s].state = "closed"
  /\ T[s].user = S[s].user /\ T[s].date = S[s].date
  /\ \A t \in Sessions \ {s} : T[t] = S[t]

\* Closing the session of a user stops the clock and counts one stretch.
LEMMA ClosedRuns ==
  ASSUME NEW S, NEW T, NEW s \in Sessions, ClosedIn(S, T, s), Solitary(S), NEW u \in Users
  PROVE  /\ u = S[s].user => RunsOn(S, u) = {S[s].date} /\ RunsOn(T, u) = {}
         /\ u # S[s].user => RunsOn(T, u) = RunsOn(S, u)
<1>1. CASE u = S[s].user
  <2>1. {x \in Sessions : S[x].state = "active" /\ S[x].user = u} = {s}
    BY <1>1 DEF ClosedIn, Solitary
  <2>2. {x \in Sessions : T[x].state = "active" /\ T[x].user = u} = {}
    BY <1>1 DEF ClosedIn, Solitary
  <2>3. QED
    BY <1>1, <2>1, <2>2 DEF RunsOn
<1>2. CASE u # S[s].user
  BY <1>2 DEF ClosedIn, RunsOn
<1>3. QED
  BY <1>1, <1>2

LEMMA ClosedSeconds ==
  ASSUME NEW S, NEW T, NEW s \in Sessions, ClosedIn(S, T, s), NEW u \in Users, NEW d \in Dates
  PROVE  /\ <<s, T[s].secs>> \notin SessionSeconds(S, u, d)
         /\ SessionSeconds(T, u, d) =
              IF u = S[s].user /\ d = S[s].date
              THEN SessionSeconds(S, u, d) \cup {<<s, T[s].secs>>}
              ELSE SessionSeconds(S, u, d)
<1>1. <<s, T[s].secs>> \notin SessionSeconds(S, u, d)
  BY DEF SessionSeconds, ClosedIn
<1>2. CASE u = S[s].user /\ d = S[s].date
  BY <1>1, <1>2 DEF SessionSeconds, ClosedIn
<1>3. CASE ~(u = S[s].user /\ d = S[s].date)
  BY <1>1, <1>3 DEF SessionSeconds, ClosedIn
<1>4. QED
  BY <1>1, <1>2, <1>3

\* A login of a user without a session starts the clock and counts nothing.
LEMMA LoginRuns ==
  ASSUME NEW S \in SessionTable, NEW s \in Sessions, S[s] = NoSession,
         NEW u \in Users, NEW d \in Dates, RunsOn(S, u) = {}, NEW v \in Users, NEW x \in Dates
  PROVE  /\ RunsOn(Login(S, s, u, d), v) = IF v = u THEN {d} ELSE RunsOn(S, v)
         /\ SessionSeconds(Login(S, s, u, d), v, x) = SessionSeconds(S, v, x)
<1> DEFINE T == Login(S, s, u, d)
<1>1. /\ T[s].state = "active" /\ T[s].user = u /\ T[s].date = d
      /\ \A t \in Sessions \ {s} : T[t] = S[t]
  BY DEF Login, SessionTable
<1>2. S[s].state = "none"
  BY DEF NoSession
<1> HIDE DEF T
<1>3. SessionSeconds(T, v, x) = SessionSeconds(S, v, x)
  BY <1>1, <1>2 DEF SessionSeconds
<1>4. CASE v = u
  <2>1. {y \in Sessions : S[y].state = "active" /\ S[y].user = u} = {}
    BY DEF RunsOn
  <2>2. {y \in Sessions : T[y].state = "active" /\ T[y].user = u} = {s}
    BY <1>1, <2>1
  <2>3. RunsOn(T, u) = {d}
    BY <1>1, <2>2 DEF RunsOn
  <2>4. QED
    BY <1>3, <1>4, <2>3 DEF T
<1>5. CASE v # u
  <2>1. RunsOn(T, v) = RunsOn(S, v)
    BY <1>1, <1>2, <1>5 DEF RunsOn
  <2>2. QED
    BY <1>3, <1>5, <2>1 DEF T
<1>6. QED
  BY <1>4, <1>5


SameDone == \A v \in Users, x \in Dates : day'[v][x].completed = day[v][x].completed

\* With the sessions S, a login is added, on a day that is there afterwards.
Entered(S, u, d, s) ==
  /\ S[s] = NoSession /\ session' = Login(S, s, u, d)
  /\ MayLogin(u, d) /\ day'[u][d].status # "none"

\* What a step of attendance does to sessions and check-outs.
Quiet == session' = session /\ SameDone
Arrives(u, d, s) == SameDone /\ ActiveSessions(u) = {} /\ Entered(session, u, d, s)
Changes(u, d, s, stale, T) ==
  /\ SameDone
  /\ session[stale].user = u /\ session[stale].date # d
  /\ ClosedIn(session, T, stale) /\ Entered(T, u, d, s)
Leaves(s) ==
  /\ ClosedIn(session, session', s)
  /\ \/ SameDone
     \/ \A v \in Users, x \in Dates :
          day'[v][x].completed = (day[v][x].completed \/ <<v, x>> = <<session[s].user, session[s].date>>)

LEMMA Closing ==
  ASSUME TypeOK, NEW s \in Sessions, NEW secs \in Seconds, session[s].state = "active"
  PROVE  ClosedIn(session, SessionClosed(s, secs), s) /\ SessionClosed(s, secs) \in SessionTable
BY SessionFacts DEF ClosedIn

LEMMA AttendanceMoves ==
  ASSUME TypeOK, TypeOK', DayInv, AttendanceNext
  PROVE  \/ Quiet
         \/ \E u \in Users, d \in Dates, s \in Sessions : Arrives(u, d, s)
         \/ \E u \in Users, d \in Dates, s \in Sessions, stale \in Sessions, T \in SessionTable :
              Changes(u, d, s, stale, T)
         \/ \E s \in Sessions : Leaves(s)
<1>t. /\ entry \in EntryTable /\ session \in SessionTable /\ session' \in SessionTable
      /\ day \in DayGrid
  BY DEF TypeOK, EntryTable, SessionTable, DayGrid
<1>p. \A v \in Users, x \in Dates : day[v][x].completed => day[v][x].status # "none"
  BY DEF DayInv, CompletedDayExists
<1>b. \A v \in Users, x \in Dates : day[v][x].completed \in BOOLEAN
  BY <1>t DEF DayGrid, DayRow
<1>e. ASSUME NEW D \in DayGrid, NEW u \in Users, NEW d \in Dates, NEW S \in SessionTable,
             \A v \in Users, x \in Dates :
               D[v][x].completed = day[v][x].completed /\ (D[v][x].status = "none" <=> day[v][x].status = "none"),
             day' = DayEntered(D, S, u, d)
      PROVE  SameDone /\ day'[u][d].status # "none"
  <2> DEFINE R == DayEntered(D, S, u, d)
  <2>1. \A v \in Users, x \in Dates : <<v, x>> # <<u, d>> => R[v][x] = D[v][x]
    BY <1>t, DayEnteredFacts
  <2>2. R[u][d].status = IF D[u][d].status \in {"none", "closed"} THEN "open" ELSE D[u][d].status
    BY <1>t, DayEnteredFacts
  <2>3. R[u][d].completed = (D[u][d].status # "none" /\ D[u][d].completed)
    BY <1>t, DayEnteredFacts
  <2>4. day' = R
    BY <1>e
  <2> HIDE DEF R
  <2>5. ASSUME NEW v \in Users, NEW x \in Dates
        PROVE  R[v][x].completed = day[v][x].completed
    <3>1. CASE v = u /\ x = d
      BY <1>e, <1>p, <1>b, <2>3, <3>1
    <3>2. CASE <<v, x>> # <<u, d>>
      BY <1>e, <2>1, <3>2
    <3>3. QED
      BY <3>1, <3>2
  <2>6. QED
    BY <2>2, <2>4, <2>5 DEF SameDone
<1>1. ASSUME NEW u \in Users, NEW s \in Sessions, NEW d \in Dates, CheckIn(u, d, s)
      PROVE  Arrives(u, d, s)
  BY <1>t, <1>e, <1>1 DEF CheckIn, Arrives, Entered
<1>2. ASSUME NEW u \in Users, NEW s \in Sessions, NEW d \in Dates,
             NEW stale \in Sessions, NEW secs \in Seconds,
             CheckInAfterStale(u, d, s, stale, secs)
      PROVE  \E T \in SessionTable : Changes(u, d, s, stale, T)
  <2> DEFINE sd == session[stale].date
             forced == SessionClosed(stale, secs)
             counted == Recomputed(day, entry, forced, u, sd)
             left == DayClosed(counted, u, sd)
  <2>1. /\ session[stale].state = "active" /\ session[stale].user = u /\ sd # d
        /\ session[s] = NoSession /\ MayLogin(u, d)
        /\ session' = Login(forced, s, u, d)
        /\ day' = DayEntered(left, session', u, d)
    BY <1>2 DEF CheckInAfterStale, ActiveSessions
  <2>2. sd \in Dates /\ forced \in SessionTable /\ ClosedIn(session, forced, stale)
    BY <2>1, SessionFacts, Closing
  <2>s. s # stale
    BY <2>1 DEF NoSession
  <2>n. forced[s] = NoSession
    BY <2>1, <2>2, <2>s DEF ClosedIn
  <2>3. /\ counted \in DayGrid
        /\ \A v \in Users, x \in Dates :
             counted[v][x].completed = day[v][x].completed /\ counted[v][x].status = day[v][x].status
    BY <1>t, <2>2, RecomputedFacts
  <2> HIDE DEF forced, counted
  <2>4. /\ left \in DayGrid
        /\ \A v \in Users, x \in Dates :
             /\ left[v][x].completed = counted[v][x].completed
             /\ \/ left[v][x].status = counted[v][x].status
                \/ counted[v][x].status = "open" /\ left[v][x].status = "closed"
    BY <2>2, <2>3, DayClosedFacts
  <2> HIDE DEF left
  <2>5. SameDone /\ day'[u][d].status # "none"
    BY <1>t, <1>e, <2>1, <2>3, <2>4
  <2>6. Changes(u, d, s, stale, forced)
    BY <2>1, <2>2, <2>n, <2>5 DEF Changes, Entered
  <2>7. QED
    BY <2>2, <2>6
<1>3. ASSUME NEW u \in Users, NEW s \in Sessions, NEW secs \in Seconds, CheckOut(u, s, secs)
      PROVE  Leaves(s)
  <2> DEFINE d == session[s].date
             counted == Recomputed(day, entry, session', u, d)
             done == [counted EXCEPT ![u][d] = [@ EXCEPT !.completed = TRUE]]
             R == DayClosed(done, u, d)
  <2>1. /\ session[s].state = "active" /\ session[s].user = u
        /\ session' = SessionClosed(s, secs) /\ day' = R
    BY <1>3 DEF CheckOut, ActiveSessions
  <2>2. d \in Dates
    BY <2>1, SessionFacts
  <2>3. ClosedIn(session, session', s)
    BY <2>1, Closing
  <2>4. counted \in DayGrid
    BY <1>t, <2>2, RecomputedFacts
  <2>5. \A v \in Users, x \in Dates : counted[v][x].completed = day[v][x].completed
    BY <1>t, <2>2, RecomputedFacts
  <2> HIDE DEF counted, d
  <2>6. done \in DayGrid /\ done[u][d].completed
    BY <2>2, <2>4, CompletedFacts
  <2>7. \A v \in Users, x \in Dates : <<v, x>> # <<u, d>> => done[v][x] = counted[v][x]
    BY <2>2, <2>4, CompletedFacts
  <2> HIDE DEF done
  <2>8. \A v \in Users, x \in Dates : R[v][x].completed = done[v][x].completed
    BY <2>2, <2>6, DayClosedFacts
  <2>b. \A v \in Users, x \in Dates : done[v][x].completed \in BOOLEAN
    BY <2>6 DEF DayGrid, DayRow
  <2> HIDE DEF R
  <2>9. \A v \in Users, x \in Dates :
          day'[v][x].completed = (day[v][x].completed \/ <<v, x>> = <<u, d>>)
    <3> SUFFICES ASSUME NEW v \in Users, NEW x \in Dates
                 PROVE  R[v][x].completed = (day[v][x].completed \/ <<v, x>> = <<u, d>>)
      BY <2>1
    <3>1. CASE v = u /\ x = d
      BY <1>b, <2>6, <2>8, <2>b, <3>1
    <3>2. CASE <<v, x>> # <<u, d>>
      BY <1>b, <2>5, <2>7, <2>8, <3>2
    <3>3. QED
      BY <3>1, <3>2
  <2>10. QED
    BY <2>1, <2>3, <2>9 DEF Leaves, d
<1>4. ASSUME NEW s \in Sessions, NEW secs \in Seconds, TimeoutSession(s, secs)
      PROVE  Leaves(s)
  <2>1. session[s].user \in Users /\ session[s].date \in Dates /\ ClosedIn(session, session', s)
    BY <1>4, SessionFacts, Closing DEF TimeoutSession
  <2>2. SameDone
    BY <1>t, <1>4, <2>1, RecomputedFacts DEF TimeoutSession, SameDone
  <2>3. QED
    BY <2>1, <2>2 DEF Leaves
<1>5. ASSUME NEW u \in Users, NEW d \in Dates, ReconcileDay(u, d)
      PROVE  Quiet
  BY <1>t, <1>5, DayClosedFacts DEF ReconcileDay, Quiet, SameDone
<1>6. CASE NextDate
  BY <1>6 DEF NextDate, Quiet, SameDone
<1>7. QED
  BY <1>1, <1>2, <1>3, <1>4, <1>5, <1>6 DEF AttendanceNext


\* Every step is one of these: entries and weeks leave sessions and check-outs alone.
LEMMA SessionMoves ==
  ASSUME TypeOK, TypeOK', DayInv, [Next]_vars
  PROVE  \/ Quiet
         \/ \E u \in Users, d \in Dates, s \in Sessions : Arrives(u, d, s)
         \/ \E u \in Users, d \in Dates, s \in Sessions, stale \in Sessions, T \in SessionTable :
              Changes(u, d, s, stale, T)
         \/ \E s \in Sessions : Leaves(s)
<1>1. CASE TimeEntriesNext
  BY <1>1, EntryStepDays DEF Quiet, SameDone
<1>2. CASE TimesheetsNext
  BY <1>2, WeekStepDays DEF Quiet, SameDone
<1>3. CASE UNCHANGED vars
  BY <1>3 DEF vars, Quiet, SameDone
<1>4. CASE AttendanceNext
  BY <1>4, AttendanceMoves
<1>5. QED
  BY <1>1, <1>2, <1>3, <1>4 DEF Next

\* A row of attendance_day is never deleted.
LEMMA RowKept ==
  ASSUME TypeOK, TypeOK', [Next]_vars, NEW u \in Users, NEW d \in Dates, day[u][d].status # "none"
  PROVE  day'[u][d].status # "none"
<1>1. CASE AttendanceNext
  BY <1>1, AttendanceStatus DEF Drift
<1>2. QED
  BY <1>1, EntryStepDays, WeekStepDays DEF Next, vars

\* A session, closed ones included, has the row of its day.
SessionsHaveDays ==
  \A s \in Sessions : session[s].state # "none" =>
    day[session[s].user][session[s].date].status # "none"

LEMMA HaveDaysStep ==
  TypeOK /\ TypeOK' /\ DayInv /\ SessionsHaveDays /\ [Next]_vars => SessionsHaveDays'
<1> SUFFICES ASSUME TypeOK, TypeOK', DayInv, SessionsHaveDays, [Next]_vars,
                    NEW s \in Sessions, session'[s].state # "none"
             PROVE  day'[session'[s].user][session'[s].date].status # "none"
  BY DEF SessionsHaveDays
<1> DEFINE Goal == day'[session'[s].user][session'[s].date].status # "none"
<1>t. session \in SessionTable
  BY DEF TypeOK, SessionTable
<1>1. ASSUME session[s].state # "none",
             session'[s].user = session[s].user, session'[s].date = session[s].date
      PROVE  Goal
  <2>1. session[s] \in SessionRow
    BY <1>1 DEF TypeOK, NoSession
  <2>2. session[s].user \in Users /\ session[s].date \in Dates
    BY <2>1 DEF SessionRow
  <2>3. day[session[s].user][session[s].date].status # "none"
    BY <1>1 DEF SessionsHaveDays
  <2>4. QED
    BY <1>1, <2>2, <2>3, RowKept
<1>2. ASSUME NEW S \in SessionTable, NEW u \in Users, NEW d \in Dates, NEW x \in Sessions,
             Entered(S, u, d, x),
             S[s].state # "none" => /\ session[s].state # "none"
                                    /\ S[s].user = session[s].user /\ S[s].date = session[s].date
      PROVE  Goal
  <2>1. CASE x = s
    BY <1>2, <2>1 DEF Entered, Login, SessionTable
  <2>2. CASE x # s
    <3>1. session'[s] = S[s]
      BY <1>2, <2>2 DEF Entered, Login, SessionTable
    <3>2. QED
      BY <1>1, <1>2, <3>1
  <2>3. QED
    BY <2>1, <2>2
<1>3. ASSUME NEW S, NEW x \in Sessions, ClosedIn(session, S, x), S[s].state # "none"
      PROVE  /\ session[s].state # "none"
             /\ S[s].user = session[s].user /\ S[s].date = session[s].date
  BY <1>3 DEF ClosedIn
<1> HIDE DEF Goal
<1>4. Quiet => Goal
  BY <1>1 DEF Quiet
<1>5. ASSUME NEW u \in Users, NEW d \in Dates, NEW x \in Sessions, Arrives(u, d, x)
      PROVE  Goal
  BY <1>t, <1>2, <1>5 DEF Arrives
<1>6. ASSUME NEW u \in Users, NEW d \in Dates, NEW x \in Sessions, NEW stale \in Sessions,
             NEW T \in SessionTable, Changes(u, d, x, stale, T)
      PROVE  Goal
  BY <1>2, <1>3, <1>6 DEF Changes
<1>7. ASSUME NEW x \in Sessions, Leaves(x)
      PROVE  Goal
  BY <1>1, <1>3, <1>7 DEF Leaves
<1>8. Goal
  BY <1>4, <1>5, <1>6, <1>7, SessionMoves
<1>9. QED
  BY <1>8 DEF Goal

LEMMA HaveDaysHolds == Spec => [](TypeOK /\ DayInv /\ SessionsHaveDays)
<1>1. Init => SessionsHaveDays
  BY DEF Init, SessionsHaveDays, NoSession
<1>2. QED
  BY <1>1, HaveDaysStep, TypeCorrect, DayInvCorrect, PTL DEF Spec

\* What counts on a day is what its closed sessions say, row or no row.
LEMMA CountedSeconds ==
  ASSUME NEW S \in SessionTable, NEW D, Accurate(S, D),
         \A s \in Sessions : S[s].state # "none" => D[S[s].user][S[s].date].status # "none",
         NEW u \in Users, NEW d \in Dates
  PROVE  (IF D[u][d].status = "none" THEN {} ELSE D[u][d].total) = SessionSeconds(S, u, d)
<1>1. CASE D[u][d].status = "none"
  BY <1>1 DEF SessionSeconds
<1>2. CASE D[u][d].status # "none"
  BY <1>2 DEF Accurate
<1>3. QED
  BY <1>1, <1>2

\* An update of one cell of a table.
LEMMA OneCell ==
  ASSUME NEW A, NEW B, NEW C, NEW g \in [A -> [B -> C]],
         NEW u \in A, NEW d \in B, NEW y
  PROVE  [g EXCEPT ![u][d] = y] =
           [v \in A |-> [x \in B |-> IF v = u /\ x = d THEN y ELSE g[v][x]]]
<1> DEFINE row == [g[u] EXCEPT ![d] = y]
<1>1. row = [x \in B |-> IF x = d THEN y ELSE g[u][x]]
  OBVIOUS
<1>2. [g EXCEPT ![u][d] = y] = [g EXCEPT ![u] = row]
  OBVIOUS
<1> HIDE DEF row
<1>3. [g EXCEPT ![u] = row] = [v \in A |-> IF v = u THEN row ELSE g[v]]
  OBVIOUS
<1>4. ASSUME NEW v \in A
      PROVE  (IF v = u THEN row ELSE g[v]) =
               [x \in B |-> IF v = u /\ x = d THEN y ELSE g[v][x]]
  BY <1>1
<1>5. QED
  BY <1>2, <1>3, <1>4

\* Every step of the backend is a step of the clocks or leaves them alone.
LEMMA ClockStep ==
  TypeOK /\ TypeOK' /\ DayInv /\ DayInv' /\ SessionsHaveDays /\ SessionsHaveDays' /\ [Next]_vars
    => [Clock!ClockNext]_(Clock!clockVars)
<1> SUFFICES ASSUME TypeOK, TypeOK', DayInv, DayInv', SessionsHaveDays, SessionsHaveDays', [Next]_vars
             PROVE  [Clock!ClockNext]_(Clock!clockVars)
  OBVIOUS
<1> DEFINE running == [u \in Users |-> RunningOn(u)]
           worked == [u \in Users |-> [d \in Dates |-> WorkedOn(u, d)]]
           done == [u \in Users |-> CheckedOut(u)]
           running2 == [u \in Users |-> RunsOn(session', u)]
           worked2 == [u \in Users |-> [d \in Dates |-> SessionSeconds(session', u, d)]]
           done2 == [u \in Users |-> {d \in Dates : day'[u][d].completed}]
<1>t. session \in SessionTable /\ session' \in SessionTable
  BY DEF TypeOK, SessionTable
<1>s. Sound(session, day) /\ Sound(session', day')
  BY SoundFacts, SoundNext
<1>1. running = [u \in Users |-> RunsOn(session, u)]
  BY DEF RunningOn, RunsOn, ActiveSessions
<1>2. running' = running2
  BY DEF RunningOn, RunsOn, ActiveSessions
<1>3. worked = [u \in Users |-> [d \in Dates |-> SessionSeconds(session, u, d)]]
  BY <1>t, <1>s, CountedSeconds DEF WorkedOn, Sound, SessionsHaveDays
<1>4. worked' = worked2
  BY <1>t, <1>s, CountedSeconds DEF WorkedOn, Sound, SessionsHaveDays
<1>5. done' = done2
  BY DEF CheckedOut
<1>d. done = [u \in Users |-> {d \in Dates : day[u][d].completed}]
  BY DEF CheckedOut
<1>6. ASSUME SameDone PROVE done' = done
  BY <1>5, <1>6, <1>d DEF SameDone
<1>7. CASE Quiet
  BY <1>1, <1>2, <1>3, <1>4, <1>6, <1>7 DEF Quiet, Clock!clockVars
<1>8. ASSUME NEW u \in Users, NEW d \in Dates, NEW s \in Sessions, Arrives(u, d, s)
      PROVE  Clock!ClockIn(u, d)
  <2>1. RunsOn(session, u) = {} /\ d \notin {x \in Dates : day[u][x].completed}
    BY <1>8 DEF Arrives, Entered, MayLogin, RunsOn, ActiveSessions, NoDay
  <2>2. \A v \in Users, x \in Dates :
          /\ RunsOn(session', v) = IF v = u THEN {d} ELSE RunsOn(session, v)
          /\ SessionSeconds(session', v, x) = SessionSeconds(session, v, x)
    BY <1>t, <1>8, <2>1, LoginRuns DEF Arrives, Entered
  <2>3. running[u] = {} /\ d \notin done[u]
    BY <1>1, <1>d, <2>1
  <2>4. running' = [running EXCEPT ![u] = {d}]
    BY <1>1, <1>2, <2>2
  <2>5. worked' = worked
    BY <1>3, <1>4, <2>2
  <2>6. done' = done
    BY <1>6, <1>8 DEF Arrives
  <2> HIDE DEF running, worked, done
  <2>7. QED
    BY <2>3, <2>4, <2>5, <2>6 DEF Clock!ClockIn, Clock!Started, running, worked, done
<1>9. ASSUME NEW s \in Sessions, NEW T \in SessionTable, ClosedIn(session, T, s),
             NEW u \in Users, NEW d \in Dates, u = session[s].user, d = session[s].date,
             \A v \in Users, x \in Dates : SessionSeconds(session', v, x) = SessionSeconds(T, v, x)
      PROVE  Clock!Stretched(u, d)
  <2> DEFINE new == <<s, T[s].secs>>
  <2>1. new \in Sessions \X Seconds
    BY <1>9 DEF ClosedIn, SessionTable, SessionRow, NoSession
  <2>2. /\ new \notin SessionSeconds(session, u, d)
        /\ \A v \in Users, x \in Dates :
             SessionSeconds(session', v, x) =
               IF v = u /\ x = d THEN SessionSeconds(session, u, d) \cup {new}
               ELSE SessionSeconds(session, v, x)
    BY <1>9, ClosedSeconds
  <2> HIDE DEF new
  <2>3. running[u] = {d}
    BY <1>s, <1>1, <1>9, ClosedRuns DEF Sound
  <2>4. new \in (Sessions \X Seconds) \ worked[u][d]
    BY <1>3, <2>1, <2>2
  <2>5. worked' = [worked EXCEPT ![u][d] = @ \cup {new}]
    <3>1. worked' = [v \in Users |-> [x \in Dates |->
                       IF v = u /\ x = d THEN SessionSeconds(session, u, d) \cup {new}
                       ELSE SessionSeconds(session, v, x)]]
      BY <1>4, <2>2
    <3> DEFINE table == [v \in Users |-> [x \in Dates |-> SessionSeconds(session, v, x)]]
               cell == SessionSeconds(session, u, d) \cup {new}
               All == {SessionSeconds(session, v, x) : v \in Users, x \in Dates}
    <3>2. /\ table \in [Users -> [Dates -> All]]
          /\ \A v \in Users, x \in Dates : table[v][x] = SessionSeconds(session, v, x)
      OBVIOUS
    <3>3. worked = table
      BY <1>3
    <3>4. worked' = [v \in Users |-> [x \in Dates |-> IF v = u /\ x = d THEN cell ELSE table[v][x]]]
      BY <3>1, <3>2
    <3> HIDE DEF table, cell, All
    <3>5. worked' = [table EXCEPT ![u][d] = cell]
      <4>1. [table EXCEPT ![u][d] = cell] =
              [v \in Users |-> [x \in Dates |-> IF v = u /\ x = d THEN cell ELSE table[v][x]]]
        BY <1>9, <3>2, OneCell
      <4> HIDE DEF worked
      <4>2. QED
        BY <3>4, <4>1
    <3>6. cell = table[u][d] \cup {new}
      BY <3>2 DEF cell
    <3>7. worked' = [table EXCEPT ![u][d] = table[u][d] \cup {new}]
      BY <3>5, <3>6
    <3>8. [table EXCEPT ![u][d] = table[u][d] \cup {new}] = [table EXCEPT ![u][d] = @ \cup {new}]
      OBVIOUS
    <3>9. QED
      BY <3>3, <3>7, <3>8
  <2> HIDE DEF running, worked
  <2>6. QED
    BY <2>3, <2>4, <2>5 DEF Clock!Stretched, running, worked
<1>10. ASSUME NEW u \in Users, NEW d \in Dates, NEW s \in Sessions, NEW stale \in Sessions,
              NEW T \in SessionTable, Changes(u, d, s, stale, T)
       PROVE  \E old \in Dates : Clock!ClockOver(u, old, d)
  <2> DEFINE old == session[stale].date
  <2>1. /\ ClosedIn(session, T, stale) /\ session[stale].user = u /\ old # d
        /\ T[s] = NoSession /\ session' = Login(T, s, u, d) /\ SameDone
        /\ d \notin {x \in Dates : day[u][x].completed}
    BY <1>10 DEF Changes, Entered, MayLogin, NoDay
  <2>2. old \in Dates
    BY <2>1, <1>t DEF ClosedIn, SessionTable, SessionRow, NoSession
  <2>3. RunsOn(T, u) = {} /\ \A v \in Users \ {u} : RunsOn(T, v) = RunsOn(session, v)
    BY <1>s, <2>1, ClosedRuns DEF Sound
  <2>4. \A v \in Users, x \in Dates :
          /\ RunsOn(session', v) = IF v = u THEN {d} ELSE RunsOn(T, v)
          /\ SessionSeconds(session', v, x) = SessionSeconds(T, v, x)
    BY <2>1, <2>3, LoginRuns
  <2>5. Clock!Stretched(u, old)
    BY <1>9, <2>1, <2>2, <2>4
  <2>6. d \notin done[u]
    BY <1>d, <2>1
  <2>7. running' = [running EXCEPT ![u] = {d}]
    BY <1>1, <1>2, <2>3, <2>4
  <2>8. done' = done
    BY <1>6, <2>1
  <2> HIDE DEF running, done, old
  <2>9. Clock!ClockOver(u, old, d)
    BY <2>1, <2>5, <2>6, <2>7, <2>8 DEF Clock!ClockOver, Clock!Started, running, done
  <2>10. QED
    BY <2>2, <2>9
<1>11. ASSUME NEW s \in Sessions, Leaves(s)
       PROVE  \E u \in Users, d \in Dates : Clock!ClockOut(u, d) \/ Clock!RunOut(u, d)
  <2> DEFINE u == session[s].user
             d == session[s].date
  <2>1. ClosedIn(session, session', s)
    BY <1>11 DEF Leaves
  <2>2. u \in Users /\ d \in Dates
    BY <2>1, <1>t DEF ClosedIn, SessionTable, SessionRow, NoSession
  <2>3. Clock!Stretched(u, d)
    BY <1>t, <1>9, <2>1, <2>2
  <2>4. RunsOn(session', u) = {} /\ \A v \in Users \ {u} : RunsOn(session', v) = RunsOn(session, v)
    <3>1. session[s].user = u /\ Solitary(session)
      BY <1>s DEF Sound
    <3> HIDE DEF u
    <3>2. QED
      BY <2>1, <2>2, <3>1, ClosedRuns
  <2>5. running' = [running EXCEPT ![u] = {}]
    BY <1>1, <1>2, <2>4
  <2>6. CASE SameDone
    <3>1. done' = done
      BY <1>6, <2>6
    <3> HIDE DEF running, done, u, d
    <3>2. Clock!RunOut(u, d)
      BY <2>3, <2>5, <3>1 DEF Clock!RunOut, Clock!Stopped, running, done
    <3>3. QED
      BY <2>2, <3>2
  <2>7. CASE \A v \in Users, x \in Dates :
               day'[v][x].completed = (day[v][x].completed \/ <<v, x>> = <<u, d>>)
    <3>0. \A v \in Users, x \in Dates : day[v][x].completed \in BOOLEAN
      BY DEF TypeOK, DayRow
    <3>1. ASSUME NEW v \in Users
          PROVE  {x \in Dates : day'[v][x].completed} =
                   IF v = u THEN {x \in Dates : day[v][x].completed} \cup {d}
                   ELSE {x \in Dates : day[v][x].completed}
      BY <2>2, <2>7, <3>0
    <3>2. done' = [v \in Users |-> IF v = u THEN {x \in Dates : day[v][x].completed} \cup {d}
                                   ELSE {x \in Dates : day[v][x].completed}]
      BY <1>5, <3>1
    <3> HIDE DEF u, d
    <3>3. done' = [done EXCEPT ![u] = @ \cup {d}]
      BY <1>d, <2>2, <3>2
    <3> HIDE DEF running, done
    <3>4. Clock!ClockOut(u, d)
      BY <2>3, <2>5, <3>3 DEF Clock!ClockOut, Clock!Stopped, running, done
    <3>5. QED
      BY <2>2, <3>4
  <2>8. QED
    BY <1>11, <2>6, <2>7 DEF Leaves
<1>12. QED
  BY <1>7, <1>8, <1>10, <1>11, SessionMoves DEF Clock!ClockNext

\* Sessions, totals and check-outs are those of one punch clock per user, for any
\* users, entries, sessions and calendar: a refinement of PunchClock.
THEOREM ImplementsPunchClock == Spec => KeepsPunchClock
<1>1. Init => Clock!ClockInit
  BY DEF Init, Clock!ClockInit, RunningOn, ActiveSessions, WorkedOn, CheckedOut, NoSession, NoDay
<1>2. QED
  BY <1>1, ClockStep, HaveDaysHolds, PTL DEF Spec, KeepsPunchClock, Clock!ClockSpec

=============================================================================
