----------------------------- MODULE TimeEntries -----------------------------
(***************************************************************************)
(* services/time_entry_service.py: create, update, delete and the status   *)
(* changes of single entries.                                              *)
(*                                                                         *)
(* update_entry, delete_entry and transition_entry hold the entry's row    *)
(* lock from their first read to the commit, and every operation on a week *)
(* locks the rows of its entries, so each is one step.  create_entry has   *)
(* no row to lock: it checks the key, the overlap and the week unlocked,   *)
(* and meets the attendance lock only in recompute_day, after the insert.  *)
(***************************************************************************)
EXTENDS Records

\* _check_overlap: no other entry of u that is not rejected has this interval.
SlotFree(u, slot, self) ==
  \A x \in EntriesOf(u) \ {self} :
    entry[x].status # "rejected" => entry[x].slot # slot

KeyTaken(f) == f.key # NoKey /\ \E x \in EntriesOf(f.user) : entry[x].key = f.key

\* The checks of create_entry.  A request whose key is taken is answered with
\* the entry that has it and changes nothing.
CheckCreate(e, f) ==
  /\ entry[e] = NoEntry
  /\ ~request[e].pending
  /\ ~KeyTaken(f)
  /\ f.slot # NoSlot => SlotFree(f.user, f.slot, e)
  /\ ~WeekLocked(f.user, f.date)
  /\ request' = [request EXCEPT ![e] = [pending |-> TRUE, fields |-> f]]
  /\ UNCHANGED <<entry, period, day, session, today>>

\* Mutant: no unique constraint on the key.
InsertEntryTwice(e) ==
  LET f == request[e].fields IN
  /\ request[e].pending
  /\ entry' = [entry EXCEPT ![e] =
                 [status |-> "draft", version |-> 1, user |-> f.user, date |-> f.date,
                  mins |-> f.mins, slot |-> f.slot, key |-> f.key]]
  /\ day' = Recomputed(day, entry', session, f.user, f.date)
  /\ request' = [request EXCEPT ![e] = NoRequest]
  /\ UNCHANGED <<period, session, today>>

\* Insert, recompute_day and commit.
InsertEntry(e) ==
  LET f == request[e].fields IN
  /\ request[e].pending
  /\ ~KeyTaken(f)
  /\ entry' = [entry EXCEPT ![e] =
                 [status |-> "draft", version |-> 1, user |-> f.user, date |-> f.date,
                  mins |-> f.mins, slot |-> f.slot, key |-> f.key]]
  /\ day' = Recomputed(day, entry', session, f.user, f.date)
  /\ request' = [request EXCEPT ![e] = NoRequest]
  /\ UNCHANGED <<period, session, today>>

\* The flush meets the unique constraint on (user_id, client_idempotency_key):
\* rollback, then the entry that won the race is returned.
ReplayCreate(e) ==
  /\ request[e].pending
  /\ KeyTaken(request[e].fields)
  /\ request' = [request EXCEPT ![e] = NoRequest]
  /\ UNCHANGED <<entry, period, day, session, today>>

\* The request fails between its checks and its commit (a code link that does
\* not parse, a lost connection): rollback.
AbortCreate(e) ==
  /\ request[e].pending
  /\ request' = [request EXCEPT ![e] = NoRequest]
  /\ UNCHANGED <<entry, period, day, session, today>>

\* Mutant: an admin is not stopped by the lock of the week.
MayEditAsAdmin(e, actor) ==
  /\ Live(e)
  /\ actor = entry[e].user \/ actor \in Admins
  /\ entry[e].status \in {"draft", "rejected"}
  /\ actor \in Admins \/ ~WeekLocked(entry[e].user, entry[e].date)

\* The row is the actor's or the actor is an admin, the status is draft or
\* rejected, and the week the entry is in is not locked.
MayEdit(e, actor) ==
  /\ Live(e)
  /\ actor = entry[e].user \/ actor \in Admins
  /\ entry[e].status \in {"draft", "rejected"}
  /\ ~WeekLocked(entry[e].user, entry[e].date)

\* New timing: kept, replaced by a duration, or by an interval that is free.
MayRetime(e, slot, mins) ==
  \/ slot = entry[e].slot /\ mins = entry[e].mins
  \/ slot = NoSlot
  \/ SlotFree(entry[e].user, slot, e)

\* Mutant: the date the entry leaves is not recomputed.
UpdateEntryNewDateOnly(e, actor, date, slot, mins) ==
  /\ MayEdit(e, actor)
  /\ MayRetime(e, slot, mins)
  /\ entry[e].version < MaxVersion
  /\ entry' = [entry EXCEPT ![e].date = date, ![e].slot = slot, ![e].mins = mins,
                            ![e].version = @ + 1]
  /\ day' = Recomputed(day, entry', session, entry[e].user, date)
  /\ UNCHANGED <<request, period, session, today>>

\* Rewrites the row and recomputes the new date and, if it moved, the old one.
\* The week of the new date is not checked.
UpdateEntry(e, actor, date, slot, mins) ==
  LET u == entry[e].user
      old == entry[e].date
      moved == Recomputed(day, entry', session, u, date)
  IN
  /\ MayEdit(e, actor)
  /\ MayRetime(e, slot, mins)
  /\ entry[e].version < MaxVersion
  /\ entry' = [entry EXCEPT ![e].date = date, ![e].slot = slot, ![e].mins = mins,
                            ![e].version = @ + 1]
  /\ day' = IF old = date THEN moved ELSE Recomputed(moved, entry', session, u, old)
  /\ UNCHANGED <<request, period, session, today>>

\* The day that is recomputed is the actor's, whoever owns the entry.
DeleteEntry(e, actor) ==
  /\ MayEdit(e, actor)
  /\ entry' = [entry EXCEPT ![e] = DeletedEntry]
  /\ day' = Recomputed(day, entry', session, actor, entry[e].date)
  /\ UNCHANGED <<request, period, session, today>>

\* Who may ask transition_entry for a target; there is no other target.
MayTransition(e, actor, target) ==
  \/ target = "submitted" /\ (actor = entry[e].user \/ actor \in Admins)
  \/ target \in {"approved", "rejected"} /\ actor \in Managers

\* Looks at neither the period nor the day of the entry.
TransitionEntry(e, actor, target) ==
  /\ Live(e)
  /\ MayTransition(e, actor, target)
  /\ <<entry[e].status, target>> \in TimesheetTable
  /\ entry[e].version < MaxVersion
  /\ entry' = [entry EXCEPT ![e].status = target, ![e].version = @ + 1]
  /\ UNCHANGED <<request, period, day, session, today>>

TimeEntriesNext ==
  \E e \in Entries :
    \/ \E f \in EntryFields : CheckCreate(e, f)
    \/ InsertEntry(e)
    \/ ReplayCreate(e)
    \/ AbortCreate(e)
    \/ \E actor \in Users :
         \/ \E date \in Dates, slot \in Slots \cup {NoSlot}, mins \in Minutes :
              UpdateEntry(e, actor, date, slot, mins)
         \/ DeleteEntry(e, actor)
         \/ \E target \in EntryStatus : TransitionEntry(e, actor, target)

=============================================================================
