------------------------ MODULE IdempotentCallProofs -------------------------
(***************************************************************************)
(* At-most-once execution and the refinement of OnceStore, for any set of  *)
(* requests and any lease, as long as the requests are Prompt.             *)
(***************************************************************************)
EXTENDS IdempotentCall, TLAPS

\* Only for a row that may be claimed again does it matter that it is missing.
Over == clock > RetryUntil + RequestBound

\* A request under way arrived in time and has not passed its bound.
InTime ==
  \A r \in Requests : pc[r] \in Active =>
    /\ at[r] <= RetryUntil
    /\ at[r] <= clock
    /\ clock <= at[r] + RequestBound

\* The row of a running request is pending and leased from its arrival, and
\* nothing took effect yet.
Owned ==
  \A r \in Requests : pc[r] = "running" =>
    /\ row # NoRow
    /\ row.state = "pending"
    /\ row.hash = Body[r]
    /\ row.until = at[r] + Lease
    /\ executed = {}

OneRunner ==
  \A r, s \in Requests : pc[r] = "running" /\ pc[s] = "running" => r = s

\* Until every request is over, the row tells what happened.
RowTells ==
  /\ row = NoRow => executed = {} \/ Over
  /\ row # NoRow /\ row.state = "pending" => executed = {}
  /\ row # NoRow /\ row.state = "complete" =>
       /\ executed = {row.response}
       /\ row.response \in Requests
       /\ Body[row.response] = row.hash

\* A row has the body of the request that inserted it, and a request that is
\* about to steal one found its own body there.
BodyKept ==
  /\ row # NoRow => row.hash = Body[row.id]
  /\ \A r \in Requests : pc[r] = "stealing" => Body[seen[r]] = Body[r]

Unanswered == \A r \in Requests : pc[r] # "answered" => answer[r] = NoAnswer

IInv ==
  /\ TypeOK /\ InTime /\ Owned /\ OneRunner /\ RowTells /\ BodyKept
  /\ Unanswered /\ AnswersAgree /\ AtMostOnce

-----------------------------------------------------------------------------

LEMMA IInvInit == Init => IInv
  BY AnswerAssumption, BodyAssumption, TimeAssumption
     DEF Init, IInv, TypeOK, InTime, Owned, OneRunner, RowTells, BodyKept, Unanswered,
         AnswersAgree, AtMostOnce, Active, NoRow, Row

\* The rows that the actions write, and their fields.
LEMMA RowFacts ==
  ASSUME TypeOK, NEW r \in Requests
  PROVE  /\ Claimed(r) \in Row /\ Claimed(r) # NoRow
         /\ Claimed(r).state = "pending" /\ Claimed(r).id = r
         /\ Claimed(r).hash = Body[r] /\ Claimed(r).until = at[r] + Lease
         /\ row # NoRow =>
              LET held == [row EXCEPT !.until = at[r] + Lease]
                  done == [row EXCEPT !.state = "complete", !.response = r]
              IN /\ row \in Row
                 /\ held \in Row /\ held # NoRow /\ held.state = row.state
                 /\ held.id = row.id /\ held.hash = row.hash
                 /\ held.until = at[r] + Lease
                 /\ done \in Row /\ done # NoRow /\ done.state = "complete"
                 /\ done.id = row.id /\ done.hash = row.hash /\ done.response = r
<1>1. at[r] + Lease \in Nat /\ at[r] \in Nat /\ Body[r] \in Bodies
  BY BodyAssumption, TimeAssumption DEF TypeOK
<1>2. \A x \in Row : x # NoRow
  BY DEF Row, NoRow
<1>3. Claimed(r) \in Row
  BY <1>1 DEF Claimed, Row
<1>4. ASSUME row \in Row
      PROVE  LET held == [row EXCEPT !.until = at[r] + Lease]
                 done == [row EXCEPT !.state = "complete", !.response = r]
             IN /\ held \in Row /\ held.state = row.state
                /\ held.id = row.id /\ held.hash = row.hash
                /\ held.until = at[r] + Lease
                /\ done \in Row /\ done.state = "complete"
                /\ done.id = row.id /\ done.hash = row.hash /\ done.response = r
  BY <1>1, <1>4 DEF Row
<1>5. QED
  BY <1>2, <1>3, <1>4 DEF Claimed, TypeOK

\* Once the retries are over nothing is under way.
LEMMA OverIsOver ==
  ASSUME TypeOK, InTime, Over
  PROVE  \A r \in Requests : pc[r] \notin Active
<1>1. SUFFICES ASSUME NEW r \in Requests, pc[r] \in Active PROVE FALSE
  OBVIOUS
<1>2. at[r] <= RetryUntil /\ clock <= at[r] + RequestBound /\ clock > RetryUntil + RequestBound
  BY <1>1 DEF InTime, Over
<1>3. at[r] \in Nat /\ clock \in Nat /\ RetryUntil \in Nat /\ RequestBound \in Nat
  BY TimeAssumption DEF TypeOK
<1>4. QED
  BY <1>2, <1>3

\* While a request runs no lease can be found lapsed.
LEMMA NoSteal ==
  ASSUME Prompt, TypeOK, InTime, Owned,
         NEW r \in Requests, pc[r] \in Active, row # NoRow => row.until <= at[r]
  PROVE  \A x \in Requests : pc[x] # "running"
<1>1. SUFFICES ASSUME NEW x \in Requests, pc[x] = "running" PROVE FALSE
  OBVIOUS
<1>2. /\ at[r] <= clock /\ clock <= at[x] + RequestBound
      /\ at[x] + Lease <= at[r]
  BY <1>1 DEF InTime, Owned, Active
<1>3. /\ at[r] \in Nat /\ at[x] \in Nat /\ clock \in Nat /\ Lease \in Nat
      /\ RequestBound \in Nat /\ RequestBound < Lease
  BY TimeAssumption DEF TypeOK, Prompt
<1>4. QED
  BY <1>2, <1>3

-----------------------------------------------------------------------------
(* The actions that leave the row alone and start no execution *)

\* A request that is refused, crashes, loses the insert or the steal, or finds a
\* lapsed lease, changes nothing that another request could see.
LEMMA QuietStep ==
  ASSUME IInv, NEW r \in Requests, pc[r] \in Active,
         NEW how \in Ended \cup {"lost", "stealing"},
         how # "answered",
         pc' = [pc EXCEPT ![r] = how],
         \/ seen' = seen /\ how # "stealing"
         \/ /\ how = "stealing" /\ row # NoRow /\ row.hash = Body[r]
            /\ seen' = [seen EXCEPT ![r] = row.id],
         UNCHANGED <<clock, row, at, executed, answer>>
  PROVE  IInv'
<1>0. /\ pc \in [Requests -> {"unsent"} \cup Active \cup Ended] /\ seen \in [Requests -> Requests]
      /\ row # NoRow => row.id \in Requests
  BY DEF IInv, TypeOK, Row
<1>1. pc' \in [Requests -> {"unsent"} \cup Active \cup Ended] /\ seen' \in [Requests -> Requests]
  BY <1>0 DEF Active, Ended
<1>2. /\ \A x \in Requests : x # r => pc'[x] = pc[x] /\ seen'[x] = seen[x]
      /\ pc'[r] = how /\ how # "running" /\ how # "answered"
  BY <1>0 DEF Active, Ended
<1>3. TypeOK'
  BY <1>1 DEF IInv, TypeOK
<1>4. InTime'
  BY <1>0, <1>2 DEF IInv, InTime
<1>5. Owned' /\ OneRunner' /\ RowTells'
  BY <1>2 DEF IInv, Owned, OneRunner, RowTells, Over
<1>6. BodyKept'
  <2>1. how = "stealing" => Body[seen'[r]] = Body[r]
    BY <1>0 DEF IInv, BodyKept
  <2>2. QED
    BY <1>2, <2>1 DEF IInv, BodyKept
<1>7. Unanswered' /\ AnswersAgree' /\ AtMostOnce'
  <2>1. pc[r] # "answered"
    BY DEF Active
  <2>2. QED
    BY <1>2, <2>1 DEF IInv, Unanswered, AnswersAgree, AtMostOnce
<1>8. QED
  BY <1>3, <1>4, <1>5, <1>6, <1>7 DEF IInv

LEMMA ArriveStep ==
  ASSUME IInv, NEW r \in Requests, Arrive(r)
  PROVE  IInv'
<1>0. /\ pc \in [Requests -> {"unsent"} \cup Active \cup Ended] /\ at \in [Requests -> Nat]
      /\ clock \in Nat /\ RequestBound \in Nat
  BY TimeAssumption DEF IInv, TypeOK
<1>1. /\ pc' = [pc EXCEPT ![r] = "arrived"] /\ at' = [at EXCEPT ![r] = clock]
      /\ clock <= RetryUntil /\ pc[r] = "unsent"
      /\ clock' = clock /\ row' = row /\ seen' = seen /\ executed' = executed /\ answer' = answer
  BY DEF Arrive
<1>2. /\ \A x \in Requests : x # r => pc'[x] = pc[x] /\ at'[x] = at[x]
      /\ pc'[r] = "arrived" /\ at'[r] = clock
  BY <1>0, <1>1
<1>3. TypeOK'
  BY <1>0, <1>1 DEF IInv, TypeOK, Active
<1>4. InTime'
  <2>1. at'[r] <= RetryUntil /\ at'[r] <= clock /\ clock <= at'[r] + RequestBound
    BY <1>0, <1>1, <1>2
  <2>2. QED
    BY <1>1, <1>2, <2>1 DEF IInv, InTime
<1>5. Owned' /\ OneRunner' /\ RowTells'
  BY <1>1, <1>2 DEF IInv, Owned, OneRunner, RowTells, Over
<1>6. BodyKept' /\ Unanswered' /\ AnswersAgree' /\ AtMostOnce'
  BY <1>1, <1>2 DEF IInv, BodyKept, Unanswered, AnswersAgree, AtMostOnce
<1>7. QED
  BY <1>3, <1>4, <1>5, <1>6 DEF IInv

\* A completed row answers for the one execution it records.
LEMMA ReplayStep ==
  ASSUME IInv, NEW r \in Requests, Replay(r)
  PROVE  IInv'
<1>0. /\ pc \in [Requests -> {"unsent"} \cup Active \cup Ended]
      /\ answer \in [Requests -> Requests \cup {NoAnswer}]
  BY DEF IInv, TypeOK
<1>1. /\ pc' = [pc EXCEPT ![r] = "answered"] /\ answer' = [answer EXCEPT ![r] = row.response]
      /\ row.state = "complete" /\ row.hash = Body[r]
      /\ clock' = clock /\ row' = row /\ at' = at /\ seen' = seen /\ executed' = executed
  BY DEF Replay
<1>2. row # NoRow /\ executed = {row.response} /\ row.response \in Requests
      /\ Body[row.response] = Body[r]
  BY <1>1 DEF IInv, RowTells, NoRow
<1>3. /\ \A x \in Requests : x # r => pc'[x] = pc[x] /\ answer'[x] = answer[x]
      /\ pc'[r] = "answered" /\ answer'[r] = row.response
  BY <1>0, <1>1
<1>4. TypeOK'
  BY <1>0, <1>1, <1>2 DEF IInv, TypeOK, Ended
<1>5. InTime' /\ Owned' /\ OneRunner'
  BY <1>1, <1>3 DEF IInv, InTime, Owned, OneRunner, Active
<1>6. RowTells' /\ BodyKept'
  BY <1>1, <1>3 DEF IInv, RowTells, BodyKept, Over
<1>7. Unanswered' /\ AnswersAgree' /\ AtMostOnce'
  BY <1>1, <1>2, <1>3 DEF IInv, Unanswered, AnswersAgree, AtMostOnce
<1>8. QED
  BY <1>4, <1>5, <1>6, <1>7 DEF IInv

-----------------------------------------------------------------------------
(* The actions that write the row *)

\* Claim of a free key and steal of a lapsed lease: the row is leased to r, and
\* no other request was running.
LEMMA OwnStep ==
  ASSUME IInv, NEW r \in Requests, pc[r] \in Active, pc[r] # "running",
         \A x \in Requests : pc[x] # "running",
         executed = {},
         row' \in Row, row' # NoRow, row'.state = "pending",
         row'.hash = Body[r], row'.hash = Body[row'.id], row'.until = at[r] + Lease,
         pc' = [pc EXCEPT ![r] = "running"],
         UNCHANGED <<clock, at, seen, executed, answer>>
  PROVE  IInv'
<1>0. pc \in [Requests -> {"unsent"} \cup Active \cup Ended]
  BY DEF IInv, TypeOK
<1>1. /\ \A x \in Requests : x # r => pc'[x] = pc[x] /\ pc'[x] # "running"
      /\ pc'[r] = "running"
  BY <1>0
<1>2. TypeOK'
  BY <1>0 DEF IInv, TypeOK, Active
<1>3. InTime'
  BY <1>1 DEF IInv, InTime
<1>4. Owned' /\ OneRunner'
  BY <1>1 DEF IInv, Owned, OneRunner
<1>5. RowTells' /\ BodyKept'
  BY <1>1 DEF IInv, RowTells, BodyKept
<1>6. Unanswered' /\ AnswersAgree' /\ AtMostOnce'
  BY <1>1 DEF IInv, Unanswered, AnswersAgree, AtMostOnce, Active
<1>7. QED
  BY <1>2, <1>3, <1>4, <1>5, <1>6 DEF IInv

LEMMA ClaimStep ==
  ASSUME Prompt, IInv, NEW r \in Requests, Claim(r)
  PROVE  IInv'
<1>1. pc[r] = "arrived" /\ pc[r] \in Active /\ UNCHANGED <<clock, at, seen, executed, answer>>
  BY DEF Claim, Active
<1>2. CASE row = NoRow /\ row' = Claimed(r) /\ pc' = [pc EXCEPT ![r] = "running"]
  <2>1. executed = {}
    BY <1>1, <1>2, OverIsOver DEF IInv, RowTells
  <2>2. \A x \in Requests : pc[x] # "running"
    BY <1>2 DEF IInv, Owned
  <2>3. /\ Claimed(r) \in Row /\ Claimed(r) # NoRow /\ Claimed(r).state = "pending"
        /\ Claimed(r).id = r /\ Claimed(r).hash = Body[r] /\ Claimed(r).until = at[r] + Lease
    BY RowFacts DEF IInv
  <2>4. QED
    BY <1>1, <1>2, <2>1, <2>2, <2>3, OwnStep
<1>3. CASE row # NoRow /\ row' = row /\ pc' = [pc EXCEPT ![r] = "lost"]
  BY <1>1, <1>3, QuietStep
<1>4. QED
  BY <1>2, <1>3 DEF Claim

\* The bound on requests is what makes a lapsed lease mean that nobody runs.
LEMMA StealStep ==
  ASSUME Prompt, IInv, NEW r \in Requests, Steal(r)
  PROVE  IInv'
<1>1. /\ pc[r] = "stealing" /\ pc[r] \in Active
      /\ row.state = "pending" /\ row.id = seen[r] /\ row.until <= at[r]
      /\ row' = [row EXCEPT !.until = at[r] + Lease]
      /\ pc' = [pc EXCEPT ![r] = "running"]
      /\ UNCHANGED <<clock, at, seen, executed, answer>>
  BY DEF Steal, Active
<1>2. row # NoRow
  BY <1>1 DEF NoRow
<1>3. executed = {}
  BY <1>1, <1>2 DEF IInv, RowTells
<1>4. \A x \in Requests : pc[x] # "running"
  BY <1>1, NoSteal DEF IInv
<1>5. row.hash = Body[row.id] /\ row.hash = Body[r]
  BY <1>1, <1>2 DEF IInv, BodyKept
<1>6. /\ row' \in Row /\ row' # NoRow /\ row'.state = "pending" /\ row'.id = row.id
      /\ row'.hash = row.hash /\ row'.until = at[r] + Lease
  BY <1>1, <1>2, RowFacts DEF IInv
<1>7. QED
  BY <1>1, <1>3, <1>4, <1>5, <1>6, OwnStep

LEMMA CompleteStep ==
  ASSUME IInv, NEW r \in Requests, Complete(r)
  PROVE  IInv'
<1>0. /\ pc \in [Requests -> {"unsent"} \cup Active \cup Ended]
      /\ answer \in [Requests -> Requests \cup {NoAnswer}]
  BY DEF IInv, TypeOK
<1>1. /\ pc[r] = "running" /\ pc' = [pc EXCEPT ![r] = "answered"]
      /\ answer' = [answer EXCEPT ![r] = r]
      /\ clock' = clock /\ at' = at /\ seen' = seen
  BY DEF Complete
<1>2. row # NoRow /\ executed = {} /\ row.hash = Body[r]
  BY <1>1 DEF IInv, Owned
<1>3. executed' = {r} /\ row' = [row EXCEPT !.state = "complete", !.response = r]
  BY <1>2 DEF Complete
<1>4. /\ row' \in Row /\ row' # NoRow /\ row'.state = "complete" /\ row'.id = row.id
      /\ row'.hash = row.hash /\ row'.response = r
  BY <1>2, <1>3, RowFacts DEF IInv
<1>5. /\ \A x \in Requests : x # r => /\ pc'[x] = pc[x] /\ pc'[x] # "running"
                                     /\ answer'[x] = answer[x]
      /\ pc'[r] = "answered" /\ answer'[r] = r
  BY <1>0, <1>1 DEF IInv, OneRunner
<1>6. TypeOK'
  BY <1>0, <1>1, <1>3, <1>4 DEF IInv, TypeOK, Ended
<1>7. InTime' /\ Owned' /\ OneRunner'
  BY <1>1, <1>5 DEF IInv, InTime, Owned, OneRunner, Active
<1>8. RowTells' /\ BodyKept'
  BY <1>1, <1>2, <1>3, <1>4, <1>5 DEF IInv, RowTells, BodyKept
<1>9. Unanswered' /\ AnswersAgree' /\ AtMostOnce'
  BY <1>1, <1>2, <1>3, <1>5 DEF IInv, Unanswered, AnswersAgree, AtMostOnce
<1>10. QED
  BY <1>6, <1>7, <1>8, <1>9 DEF IInv

LEMMA FailStep ==
  ASSUME IInv, NEW r \in Requests, Fail(r)
  PROVE  IInv'
<1>0. pc \in [Requests -> {"unsent"} \cup Active \cup Ended]
  BY DEF IInv, TypeOK
<1>1. /\ pc[r] = "running" /\ pc' = [pc EXCEPT ![r] = "failed"]
      /\ UNCHANGED <<clock, at, seen, executed, answer>>
  BY DEF Fail
<1>2. row.state = "pending" /\ executed = {}
  BY <1>1 DEF IInv, Owned
<1>3. row' = NoRow
  BY <1>2 DEF Fail
<1>4. /\ \A x \in Requests : x # r => pc'[x] = pc[x] /\ pc'[x] # "running"
      /\ pc'[r] = "failed"
  BY <1>0, <1>1 DEF IInv, OneRunner
<1>5. TypeOK'
  BY <1>0, <1>1, <1>3 DEF IInv, TypeOK, Ended
<1>6. InTime' /\ Owned' /\ OneRunner'
  BY <1>1, <1>4 DEF IInv, InTime, Owned, OneRunner, Active
<1>7. RowTells' /\ BodyKept'
  BY <1>1, <1>2, <1>3, <1>4 DEF IInv, RowTells, BodyKept
<1>8. Unanswered' /\ AnswersAgree' /\ AtMostOnce'
  BY <1>1, <1>4 DEF IInv, Unanswered, AnswersAgree, AtMostOnce
<1>9. QED
  BY <1>5, <1>6, <1>7, <1>8 DEF IInv

\* A row old enough to be pruned is older than every request under way.
LEMMA PruneStep ==
  ASSUME Prompt, IInv, Prune
  PROVE  IInv'
<1>1. /\ row # NoRow /\ row.created < clock - Retention /\ row' = NoRow
      /\ UNCHANGED <<clock, pc, at, seen, executed, answer>>
  BY DEF Prune
<1>2. row.created \in Nat
  BY <1>1 DEF IInv, TypeOK, Row
<1>3. Over
  <2>1. /\ clock \in Nat /\ Retention \in Nat /\ RetryUntil \in Nat /\ RequestBound \in Nat
        /\ RetryUntil + RequestBound <= Retention
    BY TimeAssumption DEF IInv, TypeOK, Prompt
  <2>2. QED
    BY <1>1, <1>2, <2>1 DEF Over
<1>4. \A x \in Requests : pc[x] \notin Active
  BY <1>3, OverIsOver DEF IInv
<1>5. TypeOK' /\ InTime' /\ OneRunner' /\ Unanswered' /\ AnswersAgree' /\ AtMostOnce'
  BY <1>1 DEF IInv, TypeOK, InTime, OneRunner, Unanswered, AnswersAgree, AtMostOnce
<1>6. Owned'
  BY <1>1, <1>4 DEF Owned, Active
<1>7. RowTells' /\ BodyKept'
  BY <1>1, <1>3 DEF IInv, RowTells, BodyKept, Over
<1>8. QED
  BY <1>5, <1>6, <1>7 DEF IInv

LEMMA TickStep ==
  ASSUME IInv, Tick
  PROVE  IInv'
<1>1. /\ clock' = clock + 1 /\ clock \in Nat
      /\ UNCHANGED <<row, pc, at, seen, executed, answer>>
  BY DEF Tick, IInv, TypeOK
<1>2. TypeOK'
  BY <1>1 DEF IInv, TypeOK
<1>3. InTime'
  <2>1. SUFFICES ASSUME NEW r \in Requests, pc[r] \in Active
                 PROVE  at[r] <= RetryUntil /\ at[r] <= clock' /\ clock' <= at[r] + RequestBound
    BY <1>1 DEF InTime
  <2>2. at[r] \in Nat /\ RequestBound \in Nat
    BY TimeAssumption DEF IInv, TypeOK
  <2>3. at[r] <= RetryUntil /\ at[r] <= clock /\ clock < at[r] + RequestBound
    BY <2>1 DEF IInv, InTime, Tick
  <2>4. QED
    BY <1>1, <2>2, <2>3
<1>4. RowTells'
  <2>1. Over => Over'
    BY <1>1, TimeAssumption DEF Over
  <2>2. QED
    BY <1>1, <2>1 DEF IInv, RowTells
<1>5. Owned' /\ OneRunner' /\ BodyKept' /\ Unanswered' /\ AnswersAgree' /\ AtMostOnce'
  BY <1>1 DEF IInv, Owned, OneRunner, BodyKept, Unanswered, AnswersAgree, AtMostOnce
<1>6. QED
  BY <1>2, <1>3, <1>4, <1>5 DEF IInv

-----------------------------------------------------------------------------

LEMMA IInvStep == Prompt /\ IInv /\ [Next]_vars => IInv'
<1>1. SUFFICES ASSUME Prompt, IInv, [Next]_vars PROVE IInv'
  OBVIOUS
<1>2. CASE UNCHANGED vars
  BY <1>1, <1>2 DEF vars, IInv, TypeOK, InTime, Owned, OneRunner, RowTells, Over, BodyKept,
                    Unanswered, AnswersAgree, AtMostOnce
<1>3. ASSUME NEW r \in Requests, Refused(r) PROVE IInv'
  <2>1. pc[r] \in Active
    BY <1>3 DEF Refused, Active
  <2>2. QED
    BY <1>1, <1>3, <2>1, QuietStep DEF Refused, End, Ended
<1>4. ASSUME NEW r \in Requests, LoseSteal(r) PROVE IInv'
  <2>1. pc[r] \in Active
    BY <1>4 DEF LoseSteal, Active
  <2>2. QED
    BY <1>1, <1>4, <2>1, QuietStep DEF LoseSteal, End, Ended
<1>5. ASSUME NEW r \in Requests, Crash(r) PROVE IInv'
  BY <1>1, <1>5, QuietStep DEF Crash, End, Ended
<1>6. ASSUME NEW r \in Requests, FindStale(r) PROVE IInv'
  <2>1. pc[r] \in Active /\ row # NoRow /\ row.hash = Body[r]
    BY <1>6 DEF FindStale, Active, NoRow
  <2>2. QED
    BY <1>1, <1>6, <2>1, QuietStep DEF FindStale
<1>7. QED
  BY <1>1, <1>2, <1>3, <1>4, <1>5, <1>6, ArriveStep, ClaimStep, ReplayStep, StealStep,
     CompleteStep, FailStep, PruneStep, TickStep DEF Next

LEMMA IInvHolds == ASSUME Prompt PROVE Spec => []IInv
  BY IInvInit, IInvStep, PTL DEF Spec

\* Without Prompt: what no late request and no pruned row can break.  A response
\* in the row or with a client is that of an execution that was committed.
Committed ==
  /\ row # NoRow /\ row.state = "complete" => row.response \in executed
  /\ \A r \in Requests : answer[r] # NoAnswer => answer[r] \in executed

LEMMA LateStep == TypeOK /\ Committed /\ [Next]_vars => TypeOK' /\ Committed'
<1>. SUFFICES ASSUME TypeOK, Committed, [Next]_vars  PROVE TypeOK' /\ Committed'
  OBVIOUS
<1>1. ASSUME NEW r \in Requests, NEW how \in Active \cup Ended,
             pc' = [pc EXCEPT ![r] = how],
             UNCHANGED <<clock, row, executed, answer>>,
             at' \in [Requests -> Nat], seen' \in [Requests -> Requests]
      PROVE  TypeOK' /\ Committed'
  BY <1>1 DEF TypeOK, Committed
<1>2. ASSUME NEW r \in Requests, Arrive(r)
      PROVE  TypeOK' /\ Committed'
  <2>1. at' \in [Requests -> Nat] /\ seen' \in [Requests -> Requests]
    BY <1>2 DEF Arrive, TypeOK
  <2>. QED  BY <1>1, <1>2, <2>1 DEF Arrive, Active
<1>3. ASSUME NEW r \in Requests, Refused(r) \/ LoseSteal(r) \/ Crash(r)
      PROVE  TypeOK' /\ Committed'
  <2>1. PICK how \in Ended : End(r, how)
    BY <1>3 DEF Refused, LoseSteal, Crash, Ended
  <2>2. at' \in [Requests -> Nat] /\ seen' \in [Requests -> Requests]
    BY <2>1 DEF End, TypeOK
  <2>. QED  BY <1>1, <2>1, <2>2 DEF End
<1>4. ASSUME NEW r \in Requests, FindStale(r)
      PROVE  TypeOK' /\ Committed'
  <2>1. row.state = "pending" /\ seen' = [seen EXCEPT ![r] = row.id]
    BY <1>4 DEF FindStale
  <2>2. row.id \in Requests
    BY <2>1 DEF TypeOK, Row, NoRow
  <2>3. at' \in [Requests -> Nat] /\ seen' \in [Requests -> Requests]
    BY <1>4, <2>1, <2>2 DEF FindStale, TypeOK
  <2>. QED  BY <1>1, <1>4, <2>3 DEF FindStale, Active
<1>5. ASSUME NEW r \in Requests, Claim(r)
      PROVE  TypeOK' /\ Committed'
  <2>1. /\ row' = row \/ row' = Claimed(r)
        /\ pc' \in [Requests -> {"unsent"} \cup Active \cup Ended]
        /\ UNCHANGED <<clock, at, seen, executed, answer>>
    BY <1>5 DEF Claim, TypeOK, Active
  <2>2. row' \in Row \cup {NoRow} /\ (row' # row => row'.state = "pending")
    <3>1. Claimed(r) \in Row /\ Claimed(r).state = "pending" /\ row \in Row \cup {NoRow}
      BY RowFacts DEF TypeOK
    <3>. QED  BY <2>1, <3>1
  <2>3. Committed'
    BY <2>1, <2>2 DEF Committed
  <2>. QED  BY <2>1, <2>2, <2>3 DEF TypeOK
<1>6. ASSUME NEW r \in Requests, Replay(r)
      PROVE  TypeOK' /\ Committed'
  <2>1. /\ row \in Row /\ row # NoRow /\ row.state = "complete"
        /\ pc' = [pc EXCEPT ![r] = "answered"] /\ answer' = [answer EXCEPT ![r] = row.response]
        /\ UNCHANGED <<clock, row, at, seen, executed>>
    BY <1>6 DEF Replay, TypeOK, NoRow
  <2>2. row.response \in executed /\ row.response \in Requests \cup {NoAnswer}
    BY <2>1 DEF Committed, Row
  <2>. QED  BY <2>1, <2>2 DEF TypeOK, Committed, Ended
<1>7. ASSUME NEW r \in Requests, Steal(r)
      PROVE  TypeOK' /\ Committed'
  <2>1. /\ row.state = "pending" /\ row' = [row EXCEPT !.until = at[r] + Lease]
        /\ pc' = [pc EXCEPT ![r] = "running"]
        /\ UNCHANGED <<clock, at, seen, executed, answer>>
    BY <1>7 DEF Steal
  <2>2. row # NoRow
    BY <2>1 DEF NoRow
  <2>3. row' \in Row /\ row'.state = "pending"
    BY <2>1, <2>2, RowFacts
  <2>. QED  BY <2>1, <2>3 DEF TypeOK, Committed, Active
<1>8. ASSUME NEW r \in Requests, Complete(r)
      PROVE  TypeOK' /\ Committed'
  <2>1. /\ row' = IF row = NoRow THEN NoRow
                   ELSE [row EXCEPT !.state = "complete", !.response = r]
        /\ executed' = executed \cup {r} /\ answer' = [answer EXCEPT ![r] = r]
        /\ pc' = [pc EXCEPT ![r] = "answered"] /\ UNCHANGED <<clock, at, seen>>
    BY <1>8 DEF Complete
  <2>2. row # NoRow => row' \in Row /\ row'.response = r
    BY <2>1, RowFacts
  <2>3. row = NoRow => row' = NoRow
    BY <2>1
  <2>. QED  BY <2>1, <2>2, <2>3 DEF TypeOK, Committed, Ended
<1>9. ASSUME NEW r \in Requests, Fail(r)
      PROVE  TypeOK' /\ Committed'
  BY <1>9 DEF Fail, TypeOK, Committed, Ended
<1>10. CASE Prune \/ Tick \/ UNCHANGED vars
  BY <1>10 DEF Prune, Tick, vars, TypeOK, Committed
<1>. QED  BY <1>2, <1>3, <1>4, <1>5, <1>6, <1>7, <1>8, <1>9, <1>10 DEF Next

LEMMA LateHolds == Spec => [](TypeOK /\ Committed)
<1>1. Init => TypeOK /\ Committed
  BY BodyAssumption, AnswerAssumption, TimeAssumption
     DEF Init, TypeOK, Committed, Active, NoRow
<1>. QED  BY <1>1, LateStep, PTL DEF Spec

\* The row and the requests keep their types, also when a request outlives its
\* lease or its row.
THEOREM TypeCorrect == Spec => []TypeOK
BY LateHolds, PTL

\* However late requests end and rows are pruned, no client is answered with the
\* response of an execution that was rolled back.
THEOREM NoPhantomAnswers ==
  Spec => [](\A r \in Requests : answer[r] # NoAnswer => answer[r] \in executed)
<1>1. Committed => \A r \in Requests : answer[r] # NoAnswer => answer[r] \in executed
  BY DEF Committed
<1>. QED  BY <1>1, LateHolds, PTL

\* "Run `handler` at most once": of the requests with one key, at most one takes
\* effect, whatever crashes, fails or retries, if requests are Prompt.
THEOREM ExecutedOnce == ASSUME Prompt PROVE Spec => []AtMostOnce
<1>1. IInv => AtMostOnce
  BY DEF IInv
<1>2. QED
  BY <1>1, IInvHolds, PTL

\* What a request is answered is the response of a committed execution of its
\* own body.
THEOREM AnswersAreFaithful == ASSUME Prompt PROVE Spec => []AnswersAgree
<1>1. IInv => AnswersAgree
  BY DEF IInv
<1>2. QED
  BY <1>1, IInvHolds, PTL

\* Each step is, for the executions and answers, a step of the store or none.
LEMMA OnceStep == IInv /\ [Next]_vars => [Once!Next]_<<executed, answer>>
<1>1. SUFFICES ASSUME IInv, [Next]_vars PROVE [Once!Next]_<<executed, answer>>
  OBVIOUS
<1>2. ASSUME NEW r \in Requests, Complete(r) PROVE Once!Execute(r)
  <2>1. pc[r] = "running" /\ executed' = executed \cup {r} /\ answer' = [answer EXCEPT ![r] = r]
    BY <1>2 DEF Complete
  <2>2. executed = {} /\ answer[r] = NoAnswer
    BY <1>1, <2>1 DEF IInv, Owned, Unanswered
  <2>3. QED
    BY <2>1, <2>2 DEF Once!Execute
<1>3. ASSUME NEW r \in Requests, Replay(r) PROVE Once!Replay(r)
  <2>1. /\ pc[r] = "lost" /\ row.state = "complete" /\ row.hash = Body[r]
        /\ answer' = [answer EXCEPT ![r] = row.response] /\ executed' = executed
    BY <1>3 DEF Replay
  <2>2. /\ answer[r] = NoAnswer
        /\ row.response \in executed /\ Body[row.response] = Body[r]
    BY <1>1, <2>1 DEF IInv, Unanswered, RowTells, NoRow
  <2>3. QED
    BY <2>1, <2>2 DEF Once!Replay
<1>4. CASE \E r \in Requests : Complete(r) \/ Replay(r)
  BY <1>2, <1>3, <1>4 DEF Once!Next
<1>5. CASE \E r \in Requests : \/ Arrive(r) \/ Claim(r) \/ Refused(r) \/ FindStale(r)
                                \/ Steal(r) \/ LoseSteal(r) \/ Fail(r) \/ Crash(r)
  BY <1>5 DEF Arrive, Claim, Refused, FindStale, Steal, LoseSteal, Fail, Crash, End
<1>6. CASE Prune \/ Tick \/ UNCHANGED vars
  BY <1>6 DEF Prune, Tick, vars
<1>7. QED
  BY <1>1, <1>4, <1>5, <1>6 DEF Next

\* The idempotency store implements the abstract one.
THEOREM ImplementsOnce == ASSUME Prompt PROVE Spec => OnceSpec
<1>1. Init => Once!Init
  BY DEF Init, Once!Init
<1>2. QED
  BY <1>1, OnceStep, IInvHolds, PTL DEF Spec, OnceSpec, Once!Spec

=============================================================================
