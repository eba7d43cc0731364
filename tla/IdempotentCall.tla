--------------------------- MODULE IdempotentCall ----------------------------
(***************************************************************************)
(* core/idempotency.py: the requests that carry one Idempotency-Key in one *)
(* scope, and the row of idempotency_key they compete for.                 *)
(*                                                                         *)
(* idempotent_call commits between its steps, so each of its transactions  *)
(* is an action: the insert of the row, the read that follows a lost       *)
(* insert, the steal of a lapsed lease, and the handler with its           *)
(* completion or its failure.  The clock is read once, on arrival, and     *)
(* every lease is tested and set with that reading.                        *)
(***************************************************************************)
EXTENDS Integers

CONSTANTS
  Requests,      \* the first request with the key, its retries and its duplicates
  Bodies,        \* hashes of request bodies
  Body,          \* Body[r]: the hash of the body of r
  NoAnswer,      \* r was not answered with a response
  Lease,         \* _LEASE_SECONDS, 60 in the code
  Retention,     \* retention_hours, 24 in the code
  RetryUntil,    \* the last time at which a client sends a request with the key
  RequestBound,  \* the longest a request takes from its arrival to its end
  MaxTime        \* bound on the clock

ASSUME BodyAssumption == Body \in [Requests -> Bodies]
ASSUME AnswerAssumption == NoAnswer \notin Requests
ASSUME TimeAssumption ==
  /\ Lease \in Nat \ {0} /\ Retention \in Nat /\ RetryUntil \in Nat
  /\ RequestBound \in Nat /\ MaxTime \in Nat

\* What the store relies on: a request ends before a lease that starts when it
\* arrives, and none is under way when the row can be pruned.
Prompt ==
  /\ RequestBound < Lease
  /\ RetryUntil + RequestBound <= Retention

VARIABLES
  clock,
  row,       \* the row of the key
  pc,        \* pc[r]: where request r is
  at,        \* at[r]: the clock that r read (`now')
  seen,      \* seen[r]: the id of the row that r found pending and stale
  executed,  \* the requests whose handler's changes were committed
  answer     \* answer[r]: the request whose response r was given

vars == <<clock, row, pc, at, seen, executed, answer>>

Active == {"arrived", "lost", "stealing", "running"}
Ended == {"answered", "conflict", "reused", "failed", "error", "gone"}

\* A row is identified by the request that inserted it.
NoRow == [state |-> "none"]
Row == [state : {"pending", "complete"}, id : Requests, hash : Bodies,
        until : Nat, created : Nat, response : Requests \cup {NoAnswer}]

Claimed(r) == [state |-> "pending", id |-> r, hash |-> Body[r],
               until |-> at[r] + Lease, created |-> at[r], response |-> NoAnswer]

Init ==
  /\ clock = 0
  /\ row = NoRow
  /\ pc = [r \in Requests |-> "unsent"]
  /\ at = [r \in Requests |-> 0]
  /\ seen = [r \in Requests |-> r]
  /\ executed = {}
  /\ answer = [r \in Requests |-> NoAnswer]

Arrive(r) ==
  /\ pc[r] = "unsent"
  /\ clock <= RetryUntil
  /\ pc' = [pc EXCEPT ![r] = "arrived"]
  /\ at' = [at EXCEPT ![r] = clock]
  /\ UNCHANGED <<clock, row, seen, executed, answer>>

\* The insert succeeds, or the unique constraint refuses it.
Claim(r) ==
  /\ pc[r] = "arrived"
  /\ \/ /\ row = NoRow
        /\ row' = Claimed(r)
        /\ pc' = [pc EXCEPT ![r] = "running"]
     \/ /\ row # NoRow
        /\ pc' = [pc EXCEPT ![r] = "lost"]
        /\ UNCHANGED row
  /\ UNCHANGED <<clock, at, seen, executed, answer>>

End(r, how) ==
  /\ pc' = [pc EXCEPT ![r] = how]
  /\ UNCHANGED <<clock, row, at, seen, executed, answer>>

\* The row that refused the insert is read: its owner may have deleted it since
\* (scalar_one raises), its body may differ, its lease may be fresh.
Refused(r) ==
  /\ pc[r] = "lost"
  /\ \/ row = NoRow /\ End(r, "error")
     \/ row # NoRow /\ row.hash # Body[r] /\ End(r, "reused")
     \/ /\ row.state = "pending" /\ row.hash = Body[r] /\ row.until > at[r]
        /\ End(r, "conflict")

\* Mutant: the body is not compared.
ReplayAnyBody(r) ==
  /\ pc[r] = "lost"
  /\ row.state = "complete"
  /\ pc' = [pc EXCEPT ![r] = "answered"]
  /\ answer' = [answer EXCEPT ![r] = row.response]
  /\ UNCHANGED <<clock, row, at, seen, executed>>

\* It is complete: its response is returned.
Replay(r) ==
  /\ pc[r] = "lost"
  /\ row.state = "complete" /\ row.hash = Body[r]
  /\ pc' = [pc EXCEPT ![r] = "answered"]
  /\ answer' = [answer EXCEPT ![r] = row.response]
  /\ UNCHANGED <<clock, row, at, seen, executed>>

\* It is pending and its lease has lapsed.
FindStale(r) ==
  /\ pc[r] = "lost"
  /\ row.state = "pending" /\ row.hash = Body[r] /\ row.until <= at[r]
  /\ pc' = [pc EXCEPT ![r] = "stealing"]
  /\ seen' = [seen EXCEPT ![r] = row.id]
  /\ UNCHANGED <<clock, row, at, executed, answer>>

\* Mutant: the update does not test the lease again.
StealUntested(r) ==
  /\ pc[r] = "stealing"
  /\ row.state = "pending" /\ row.id = seen[r]
  /\ row' = [row EXCEPT !.until = at[r] + Lease]
  /\ pc' = [pc EXCEPT ![r] = "running"]
  /\ UNCHANGED <<clock, at, seen, executed, answer>>

\* UPDATE ... WHERE id, pending and still lapsed.
Steal(r) ==
  /\ pc[r] = "stealing"
  /\ row.state = "pending" /\ row.id = seen[r] /\ row.until <= at[r]
  /\ row' = [row EXCEPT !.until = at[r] + Lease]
  /\ pc' = [pc EXCEPT ![r] = "running"]
  /\ UNCHANGED <<clock, at, seen, executed, answer>>

\* The update found no row: it was stolen, completed or deleted in between.
LoseSteal(r) ==
  /\ pc[r] = "stealing"
  /\ ~(row.state = "pending" /\ row.id = seen[r] /\ row.until <= at[r])
  /\ End(r, "conflict")

\* The handler's changes and the completion of the row commit together.  The
\* update names the key alone: not the id, the state or the lease.
Complete(r) ==
  /\ pc[r] = "running"
  /\ row' = IF row = NoRow THEN NoRow
            ELSE [row EXCEPT !.state = "complete", !.response = r]
  /\ executed' = executed \cup {r}
  /\ answer' = [answer EXCEPT ![r] = r]
  /\ pc' = [pc EXCEPT ![r] = "answered"]
  /\ UNCHANGED <<clock, at, seen>>

\* Mutant: the changes of the handler are not rolled back.
FailKeepChanges(r) ==
  /\ pc[r] = "running"
  /\ row' = IF row.state = "pending" THEN NoRow ELSE row
  /\ executed' = executed \cup {r}
  /\ pc' = [pc EXCEPT ![r] = "failed"]
  /\ UNCHANGED <<clock, at, seen, answer>>

\* Mutant: the row is marked instead of deleted.
FailMarksRow(r) ==
  /\ pc[r] = "running"
  /\ row' = IF row.state = "pending" THEN [row EXCEPT !.state = "failed"] ELSE row
  /\ pc' = [pc EXCEPT ![r] = "failed"]
  /\ UNCHANGED <<clock, at, seen, executed, answer>>

\* The handler raises: rollback, and the pending row of the key is deleted,
\* whoever holds its lease.
Fail(r) ==
  /\ pc[r] = "running"
  /\ row' = IF row.state = "pending" THEN NoRow ELSE row
  /\ pc' = [pc EXCEPT ![r] = "failed"]
  /\ UNCHANGED <<clock, at, seen, executed, answer>>

\* The process dies, the client disconnects or the last update fails: what was
\* not committed is lost, and a claimed row stays pending.
Crash(r) == pc[r] \in Active /\ End(r, "gone")

\* prune_expired, by age alone.
Prune ==
  /\ row # NoRow
  /\ row.created < clock - Retention
  /\ row' = NoRow
  /\ UNCHANGED <<clock, pc, at, seen, executed, answer>>

\* Time passes, but not past the end of a request.
Tick ==
  /\ clock < MaxTime
  /\ \A r \in Requests : pc[r] \in Active => clock < at[r] + RequestBound
  /\ clock' = clock + 1
  /\ UNCHANGED <<row, pc, at, seen, executed, answer>>

Next ==
  \/ \E r \in Requests :
       \/ Arrive(r) \/ Claim(r) \/ Refused(r) \/ Replay(r) \/ FindStale(r)
       \/ Steal(r) \/ LoseSteal(r) \/ Complete(r) \/ Fail(r) \/ Crash(r)
  \/ Prune
  \/ Tick

Spec == Init /\ [][Next]_vars

-----------------------------------------------------------------------------

TypeOK ==
  /\ clock \in Nat
  /\ row \in Row \cup {NoRow}
  /\ pc \in [Requests -> {"unsent"} \cup Active \cup Ended]
  /\ at \in [Requests -> Nat]
  /\ seen \in [Requests -> Requests]
  /\ executed \subseteq Requests
  /\ answer \in [Requests -> Requests \cup {NoAnswer}]

\* "Run `handler` at most once": of all requests with the key, crashes, steals
\* and failures between them, one takes effect (idempotency.py idempotent_call).
AtMostOnce == \A r, s \in executed : r = s

\* A response that is returned is that of an execution that was committed, for
\* the same body.
AnswersAgree ==
  \A r \in Requests : answer[r] # NoAnswer =>
    answer[r] \in executed /\ Body[answer[r]] = Body[r]

\* The store is the abstract one: steals, crashes, failures and pruning are
\* invisible to the requests that are answered.
Once == INSTANCE OnceStore WITH Requests <- Requests, Body <- Body, NoAnswer <- NoAnswer,
                                executed <- executed, answer <- answer
OnceSpec == Once!Spec

=============================================================================
