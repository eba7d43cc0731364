------------------------------ MODULE PunchClock ------------------------------
(***************************************************************************)
(* What services/attendance_service.py and its workers promise of worked   *)
(* time, whatever entries, weeks and other requests do to the same rows:   *)
(* the clock of a person runs on one date at a time; when it stops, one    *)
(* stretch of work counts on that date; and a date that was checked out    *)
(* takes no more, because the clock never runs on it again.                *)
(***************************************************************************)
CONSTANTS Person, Date, Stretch

VARIABLES
  running,  \* running[p]: the dates on which the clock of p runs
  worked,   \* worked[p][d]: the stretches that count on d
  done      \* done[p]: the dates that p has checked out

clockVars == <<running, worked, done>>

ClockInit ==
  /\ running = [p \in Person |-> {}]
  /\ worked = [p \in Person |-> [d \in Date |-> {}]]
  /\ done = [p \in Person |-> {}]

\* The clock runs on d, and one stretch that did not count yet counts on d.
Stretched(p, d) ==
  /\ running[p] = {d}
  /\ \E x \in Stretch \ worked[p][d] :
       worked' = [worked EXCEPT ![p][d] = @ \cup {x}]

Started(p, d) == d \notin done[p] /\ running' = [running EXCEPT ![p] = {d}]
Stopped(p) == running' = [running EXCEPT ![p] = {}]

ClockIn(p, d) == running[p] = {} /\ Started(p, d) /\ UNCHANGED <<worked, done>>

\* The clock was forgotten on another date.
ClockOver(p, old, d) == old # d /\ Stretched(p, old) /\ Started(p, d) /\ UNCHANGED done

ClockOut(p, d) ==
  Stretched(p, d) /\ Stopped(p) /\ done' = [done EXCEPT ![p] = @ \cup {d}]

\* The clock stops by itself.
RunOut(p, d) == Stretched(p, d) /\ Stopped(p) /\ UNCHANGED done

ClockNext ==
  \E p \in Person, d \in Date :
    \/ ClockIn(p, d) \/ ClockOut(p, d) \/ RunOut(p, d)
    \/ \E old \in Date : ClockOver(p, old, d)

ClockSpec == ClockInit /\ [][ClockNext]_clockVars

=============================================================================
