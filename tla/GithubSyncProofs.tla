-------------------------- MODULE GithubSyncProofs ---------------------------
(***************************************************************************)
(* The safety properties of GithubSync, for every set of tasks and texts   *)
(* and every bound.                                                        *)
(***************************************************************************)
EXTENDS GithubSync, TLAPS

\* A push works on a row that exists, and knows a version of the item once it
\* has fetched it.
PushReady ==
  push # NoPush =>
    /\ Tracked(push.t)
    /\ push.phase \in {"write", "refresh"} => push.saw \in 1..MaxAt

RequestReady == request # NoRequest => Tracked(request.t)

\* The inductive invariant behind TypeOK.
IInv == TypeOK /\ PushReady /\ RequestReady

Table == [Tasks -> Row \cup {NoTask}]

\* What a step may do to the row of t.
RowStep(t) ==
  /\ Tracked(t) => task'[t] # NoTask
  /\ task'[t] # task[t] => Free(t) \/ push' = NoPush
  /\ task'[t].state = "conflict" =>
       \/ task'[t].conflictAt > task'[t].known
       \/ /\ task[t].state = "conflict"
          /\ task'[t].conflictAt = task[t].conflictAt /\ task'[t].known = task[t].known
  /\ Tracked(t) /\ task'[t].state = "synced" => task[t].state = "synced"
  /\ /\ task[t].state \in {"pending_push", "syncing", "conflict"}
     /\ task'[t].desc # task[t].desc
     => request.kind = "update" /\ request' = NoRequest

Rows == task' \in Table /\ \A t \in Tasks : RowStep(t)

\* What a step may do to the push in progress.
PushKept ==
  push' # NoPush =>
    \/ push # NoPush /\ push'.t = push.t /\ push'.copy = push.copy
    \/ task'[push'.t].state = "syncing" /\ Copied(task'[push'.t]) = push'.copy

-----------------------------------------------------------------------------
\* Rows

\* A row is told from NoTask, and its copy is a Copy.
LEMMA RowFields ==
  ASSUME NEW r \in Row
  PROVE  /\ r # NoTask /\ r.state # "none"
         /\ r.state \in {"synced", "pending_push", "syncing", "conflict", "error"}
         /\ r.desc \in Texts /\ r.known \in 1..MaxAt /\ r.attempts \in 0..MaxAttempts
         /\ r.archived \in BOOLEAN /\ r.conflictAt \in 0..MaxAt
         /\ Copied(r) \in Copy
  BY DEF Row, NoTask, Copied, Copy

LEMMA TaskFields ==
  ASSUME TypeOK, NEW t \in Tasks
  PROVE  /\ task[t] \in Row \/ task[t] = NoTask
         /\ Tracked(t) => task[t] \in Row
         /\ task[t].state # "none" => task[t] \in Row
         /\ task[t] = NoTask => task[t].state = "none"
  BY DEF TypeOK, Tracked, NoTask

LEMMA MoreBounded ==
  ASSUME NEW n \in 0..MaxAttempts
  PROVE  More(n) \in 0..MaxAttempts
  BY BoundAssumption DEF More

\* An update sets the description and the state only.
LEMMA UpdatedRow ==
  ASSUME NEW r \in Row, NEW copy \in [desc : Texts, pending : BOOLEAN],
         NEW text \in Texts \cup {NoText}
  PROVE  /\ Updated(r, copy, text) \in Row
         /\ Updated(r, copy, text).known = r.known
         /\ Updated(r, copy, text).conflictAt = r.conflictAt
         /\ Updated(r, copy, text).state \in {r.state, "pending_push"}
  <1>1. CASE text = NoText
    BY <1>1 DEF Updated
  <1>2. CASE text # NoText
    <2> DEFINE next == [r EXCEPT !.desc = IF text # copy.desc THEN text ELSE @,
                                 !.state = IF copy.pending THEN @ ELSE "pending_push"]
    <2>1. Updated(r, copy, text) = next
      BY <1>2 DEF Updated
    <2>2. next \in Row
      BY <1>2 DEF Row
    <2>3. next.known = r.known /\ next.conflictAt = r.conflictAt
      BY DEF Row
    <2>4. next.state \in {r.state, "pending_push"}
      BY DEF Row
    <2> QED BY <2>1, <2>2, <2>3, <2>4
  <1> QED BY <1>1, <1>2

\* A page of items is read whole.
LEMMA PageFields ==
  ASSUME TypeOK, pull # NoPull, NEW t \in Tasks
  PROVE  /\ pull[t].text \in Texts /\ pull[t].at \in 1..MaxAt
         /\ pull[t].status \in {"open", "archived", "deleted"}
  <1>1. pull \in [Tasks -> Item]
    BY DEF TypeOK
  <1> QED BY <1>1 DEF Item

\* A pull makes a row of every item but a deleted one, keeps the description of
\* a waiting task, and records a conflict only with a newer item.
LEMMA PulledRow ==
  ASSUME TypeOK, pull # NoPull, NEW t \in Tasks
  PROVE  /\ Pulled(t) \in Row \cup {NoTask}
         /\ Tracked(t) => Pulled(t) \in Row
         /\ pull[t].status = "deleted" => Pulled(t) = task[t]
         /\ Pulled(t).state = "conflict" =>
              \/ Pulled(t).conflictAt > Pulled(t).known
              \/ /\ task[t].state = "conflict"
                 /\ Pulled(t).conflictAt = task[t].conflictAt
                 /\ Pulled(t).known = task[t].known
         /\ Tracked(t) /\ Pulled(t).state = "synced" => task[t].state = "synced"
         /\ Tracked(t) /\ Protected(task[t]) => Pulled(t).desc = task[t].desc
  <1> DEFINE page == pull[t]  row == task[t]
  <1>1. /\ page.text \in Texts /\ page.at \in 1..MaxAt
        /\ page.status \in {"open", "archived", "deleted"}
    BY PageFields
  <1>2. (row \in Row \/ row = NoTask) /\ (Tracked(t) => row \in Row)
    BY TaskFields
  <1>3. CASE page.status = "deleted" \/ (page.status = "archived" /\ ~Tracked(t))
             \/ (page.status = "archived" /\ row.archived)
    <2>1. Pulled(t) = row
      BY <1>3 DEF Pulled
    <2> QED BY <1>2, <2>1
  <1>4. CASE page.status = "archived" /\ Tracked(t) /\ ~row.archived
    <2> DEFINE next == [row EXCEPT !.state = "error", !.archived = TRUE]
    <2>1. Pulled(t) = next
      BY <1>4 DEF Pulled
    <2>2. row \in Row
      BY <1>2, <1>4
    <2>3. next \in Row /\ next.state = "error" /\ next.desc = row.desc
      BY <2>2 DEF Row
    <2> QED BY <1>4, <2>1, <2>3
  <1>5. CASE page.status = "open" /\ ~Tracked(t)
    <2> DEFINE next == [state |-> "synced", desc |-> page.text, known |-> page.at,
                        attempts |-> 0, archived |-> FALSE, conflictAt |-> 0]
    <2>1. Pulled(t) = next
      BY <1>5 DEF Pulled
    <2>2. next \in Row /\ next.state = "synced"
      BY <1>1, BoundAssumption DEF Row
    <2> QED BY <1>5, <2>1, <2>2
  <1>6. CASE page.status = "open" /\ Tracked(t) /\ Protected(row) /\ RemoteMoved(t)
    <2> DEFINE next == [row EXCEPT !.state = "conflict", !.conflictAt = page.at,
                                   !.archived = FALSE]
    <2>1. Pulled(t) = next
      BY <1>6 DEF Pulled
    <2>2. row \in Row
      BY <1>2, <1>6
    <2>3. /\ next \in Row /\ next.desc = row.desc /\ next.state = "conflict"
          /\ next.conflictAt = page.at /\ next.known = row.known
      <3>1. page.at \in 0..MaxAt
        BY <1>1, BoundAssumption
      <3> HIDE DEF page, row
      <3> QED BY <2>2, <3>1 DEF Row
    <2>4. next.conflictAt > next.known
      BY <1>6, <2>3 DEF RemoteMoved
    <2> QED BY <1>6, <2>1, <2>3, <2>4
  <1>7. CASE page.status = "open" /\ Tracked(t) /\ Protected(row) /\ ~RemoteMoved(t)
    <2>1. Pulled(t) = row
      BY <1>7 DEF Pulled
    <2> QED BY <1>2, <1>7, <2>1
  <1>8. CASE page.status = "open" /\ Tracked(t) /\ ~Protected(row)
    <2> DEFINE next == [row EXCEPT !.desc = page.text, !.known = page.at,
                                   !.archived = FALSE]
    <2>1. Pulled(t) = next
      BY <1>8 DEF Pulled
    <2>2. row \in Row
      BY <1>2, <1>8
    <2>3. next \in Row /\ next.state = row.state
      BY <1>1, <2>2 DEF Row
    <2>4. next.state # "conflict"
      BY <1>8, <2>3 DEF Protected
    <2> QED BY <1>8, <2>1, <2>3, <2>4
  <1> QED BY <1>1, <1>3, <1>4, <1>5, <1>6, <1>7, <1>8

-----------------------------------------------------------------------------
\* Steps that leave the rows alone

LEMMA RowsAlone ==
  ASSUME TypeOK, UNCHANGED task
  PROVE  Rows
  BY TaskFields DEF TypeOK, Rows, Table, RowStep, Tracked

\* GitHub and the clock.
LEMMA EnvironmentStep ==
  ASSUME IInv, NEW t \in Tasks,
         ForeignEdit(t) \/ ForeignStatus(t) \/ Lapse(t)
  PROVE  IInv' /\ Rows /\ PushKept
  <1>1. UNCHANGED <<task, push, request>>
    BY DEF ForeignEdit, ForeignStatus, Lapse
  <1>2. Rows
    BY <1>1, RowsAlone DEF IInv
  <1>3. PushKept
    BY <1>1 DEF PushKept
  <1>4. (PushReady /\ RequestReady)'
    BY <1>1 DEF IInv, PushReady, RequestReady, Tracked
  <1>5. CASE ForeignEdit(t) \/ ForeignStatus(t)
    <2>1. item' \in [Tasks -> Item]
      <3>1. item \in [Tasks -> Item]
        BY DEF IInv, TypeOK
      <3>2. CASE ForeignEdit(t)
        <4>1. PICK text \in Texts :
                item' = [item EXCEPT ![t].text = text, ![t].at = @ + 1]
          BY <3>2 DEF ForeignEdit
        <4>2. item[t].at + 1 \in 1..MaxAt
          <5>1. item[t].at \in 1..MaxAt
            BY <3>1 DEF Item
          <5>2. item[t].at < MaxForeign
            BY <3>2 DEF ForeignEdit
          <5> QED BY <5>1, <5>2, BoundAssumption
        <4>3. [item[t] EXCEPT !.text = text, !.at = @ + 1] \in Item
          BY <3>1, <4>2 DEF Item
        <4> QED BY <3>1, <4>1, <4>3
      <3>3. CASE ForeignStatus(t)
        BY <3>1, <3>3 DEF ForeignStatus, Item
      <3> QED BY <1>5, <3>2, <3>3
    <2>2. TypeOK'
      BY <1>5, <2>1 DEF IInv, TypeOK, ForeignEdit, ForeignStatus
    <2> QED BY <1>2, <1>3, <1>4, <2>2 DEF IInv
  <1>6. CASE Lapse(t)
    <2>1. TypeOK'
      BY <1>6 DEF IInv, TypeOK, Lapse
    <2> QED BY <1>2, <1>3, <1>4, <2>1 DEF IInv
  <1> QED BY <1>5, <1>6

LEMMA ProcessStep ==
  ASSUME IInv, ReadPage \/ Crash
  PROVE  IInv' /\ Rows /\ PushKept
  <1>1. UNCHANGED task /\ (UNCHANGED push \/ push' = NoPush)
        /\ (UNCHANGED request \/ request' = NoRequest)
    BY DEF ReadPage, Crash
  <1>2. touches' \in 0..MaxTouches /\ waiting' \in [Tasks -> 0..MaxWaiting]
    BY BoundAssumption DEF ReadPage, Crash, IInv, TypeOK
  <1>3. pull' \in [Tasks -> Item] \cup {NoPull}
    BY DEF ReadPage, Crash, IInv, TypeOK
  <1>4. TypeOK'
    BY <1>1, <1>2, <1>3 DEF IInv, TypeOK, ReadPage, Crash
  <1>5. Rows
    BY <1>1, RowsAlone DEF IInv
  <1>6. (PushReady /\ RequestReady)'
    BY <1>1 DEF IInv, PushReady, RequestReady, Tracked
  <1> QED BY <1>1, <1>4, <1>5, <1>6 DEF IInv, PushKept

-----------------------------------------------------------------------------
\* The requests of the users

\* A step that writes one row, which keeps its conflict and its description.
LEMMA OneRow ==
  ASSUME TypeOK, NEW t \in Tasks, Tracked(t), NEW row \in Row,
         task' = [task EXCEPT ![t] = row],
         row # task[t] => Free(t) \/ push' = NoPush,
         row.state = "conflict" =>
           \/ row.conflictAt > row.known
           \/ /\ task[t].state = "conflict"
              /\ row.conflictAt = task[t].conflictAt /\ row.known = task[t].known,
         row.state = "synced" => task[t].state = "synced",
         row.desc # task[t].desc => request.kind = "update" /\ request' = NoRequest
  PROVE  Rows /\ task'[t] = row
  <1>1. task \in Table
    BY DEF TypeOK, Table
  <1>2. task' \in Table /\ task'[t] = row
    BY <1>1 DEF Table
  <1>3. ASSUME NEW u \in Tasks PROVE RowStep(u)
    <2>1. CASE u = t
      BY <1>2, <2>1, RowFields DEF RowStep
    <2>2. CASE u # t
      <3>1. task'[u] = task[u]
        BY <1>1, <2>2 DEF Table
      <3> QED BY <3>1 DEF RowStep, Tracked
    <2> QED BY <2>1, <2>2
  <1> QED BY <1>2, <1>3 DEF Rows

LEMMA LeasesKept ==
  ASSUME TypeOK, KeepLeases, task' \in Table
  PROVE  lapsed' \cup edited' \subseteq {t \in Tasks : task'[t].state = "syncing"}
  BY DEF TypeOK, KeepLeases

\* What is tracked stays so.
LEMMA ReadyKept ==
  ASSUME IInv, Rows, UNCHANGED request \/ request' = NoRequest,
         \/ push' = NoPush
         \/ push # NoPush /\ push'.t = push.t
            /\ (push'.phase \in {"write", "refresh"} => push'.saw \in 1..MaxAt)
  PROVE  (PushReady /\ RequestReady)'
  <1>1. push # NoPush => push.t \in Tasks /\ Tracked(push.t)
    BY DEF IInv, TypeOK, PushReady, Push
  <1>2. request # NoRequest => request.t \in Tasks /\ Tracked(request.t)
    BY DEF IInv, TypeOK, RequestReady, Request
  <1>3. \A t \in Tasks : Tracked(t) => Tracked(t)'
    BY DEF Rows, RowStep, Tracked
  <1> QED BY <1>1, <1>2, <1>3 DEF PushReady, RequestReady, Tracked

LEMMA PushAlone ==
  ASSUME IInv, Rows, UNCHANGED push, UNCHANGED request \/ request' = NoRequest
  PROVE  (PushReady /\ RequestReady)' /\ PushKept
  <1>1. (PushReady /\ RequestReady)'
    <2>1. push # NoPush => (push.phase \in {"write", "refresh"} => push.saw \in 1..MaxAt)
      BY DEF IInv, PushReady
    <2> QED BY <2>1, ReadyKept
  <1> QED BY <1>1 DEF PushKept

LEMMA ReadTaskStep ==
  ASSUME IInv, NEW t \in Tasks, ReadTask(t)
  PROVE  IInv' /\ Rows /\ PushKept
  <1>1. UNCHANGED <<item, task, lapsed, edited, waiting, push, pull, unsent>>
    BY DEF ReadTask
  <1>2. task[t] \in Row
    BY TaskFields DEF IInv, ReadTask
  <1>3. request' \in Request /\ request'.t = t
    <2>1. [desc |-> task[t].desc, pending |-> task[t].state = "pending_push"]
             \in [desc : Texts, pending : BOOLEAN]
      BY <1>2, RowFields
    <2>2. request' = [kind |-> "update", t |-> t, copy |->
             [desc |-> task[t].desc, pending |-> task[t].state = "pending_push"]]
      BY DEF ReadTask
    <2> QED BY <2>1, <2>2 DEF Request
  <1>4. TypeOK'
    <2>1. touches' \in 0..MaxTouches
      BY BoundAssumption DEF IInv, TypeOK, ReadTask
    <2> QED BY <1>1, <1>3, <2>1 DEF IInv, TypeOK
  <1>5. (PushReady /\ RequestReady)'
    BY <1>1, <1>3 DEF IInv, PushReady, RequestReady, ReadTask, Tracked
  <1>6. Rows
    BY <1>1, RowsAlone DEF IInv
  <1>7. PushKept
    BY <1>1 DEF PushKept
  <1> QED BY <1>4, <1>5, <1>6, <1>7 DEF IInv

LEMMA UpdateTaskStep ==
  ASSUME IInv, NEW t \in Tasks, UpdateTask(t)
  PROVE  IInv' /\ Rows /\ PushKept
  <1>1. /\ UNCHANGED <<item, waiting, push, pull, touches>> /\ request' = NoRequest
        /\ request.kind = "update" /\ request.t = t /\ Free(t)
    BY DEF UpdateTask
  <1>2. request # NoRequest
    BY <1>1 DEF NoRequest
  <1>3. Tracked(t) /\ request.copy \in [desc : Texts, pending : BOOLEAN]
    BY <1>1, <1>2 DEF IInv, TypeOK, RequestReady, Request
  <1>4. task[t] \in Row
    BY <1>3, TaskFields DEF IInv
  <1>5. PICK text \in Texts \cup {NoText} :
          /\ task' = [task EXCEPT ![t] = Updated(@, request.copy, text)]
          /\ unsent' = IF text \in {NoText, request.copy.desc} THEN unsent
                       ELSE unsent \cup {t}
    BY DEF UpdateTask
  <1> DEFINE row == Updated(task[t], request.copy, text)
  <1>6. /\ row \in Row /\ row.known = task[t].known
        /\ row.conflictAt = task[t].conflictAt
        /\ row.state \in {task[t].state, "pending_push"}
    BY <1>3, <1>4, UpdatedRow
  <1>7. task' = [task EXCEPT ![t] = row]
    BY <1>5
  <1> HIDE DEF row
  <1>8. Rows
    BY <1>1, <1>3, <1>6, <1>7, OneRow DEF IInv
  <1>9. TypeOK'
    <2>1. lapsed' \cup edited' \subseteq {u \in Tasks : task'[u].state = "syncing"}
      BY DEF IInv, TypeOK, UpdateTask
    <2>2. unsent' \subseteq Tasks
      BY <1>5 DEF IInv, TypeOK
    <2>3. task' \in Table
      BY <1>8 DEF Rows
    <2> QED BY <1>1, <2>1, <2>2, <2>3 DEF IInv, TypeOK, Table
  <1>10. (PushReady /\ RequestReady)' /\ PushKept
    BY <1>1, <1>8, PushAlone
  <1> QED BY <1>8, <1>9, <1>10 DEF IInv

LEMMA RetryTaskStep ==
  ASSUME IInv, NEW t \in Tasks, RetryTask(t)
  PROVE  IInv' /\ Rows /\ PushKept
  <1>1. /\ UNCHANGED <<item, waiting, push, pull, request, unsent>>
        /\ Tracked(t) /\ Free(t) /\ KeepLeases
    BY DEF RetryTask
  <1> DEFINE row == [task[t] EXCEPT !.state = "pending_push", !.attempts = 0,
                                    !.archived = FALSE]
  <1>2. task[t] \in Row
    BY <1>1, TaskFields DEF IInv
  <1>3. row \in Row /\ row.state = "pending_push" /\ row.desc = task[t].desc
    <2>1. 0 \in 0..MaxAttempts
      BY BoundAssumption
    <2>2. \A r \in Row :
            LET next == [r EXCEPT !.state = "pending_push", !.attempts = 0,
                                  !.archived = FALSE]
            IN  next \in Row /\ next.state = "pending_push" /\ next.desc = r.desc
      BY <2>1 DEF Row
    <2> QED BY <1>2, <2>2
  <1>4. task' = [task EXCEPT ![t] = row]
    BY DEF RetryTask, IInv, TypeOK
  <1> HIDE DEF row
  <1>5. Rows
    BY <1>1, <1>3, <1>4, OneRow DEF IInv
  <1>6. TypeOK'
    <2>1. task' \in Table
      BY <1>5 DEF Rows
    <2>2. lapsed' \cup edited' \subseteq {u \in Tasks : task'[u].state = "syncing"}
      BY <1>1, <2>1, LeasesKept DEF IInv
    <2>3. touches' \in 0..MaxTouches
      BY BoundAssumption DEF IInv, TypeOK, RetryTask
    <2> QED BY <1>1, <2>1, <2>2, <2>3 DEF IInv, TypeOK, Table
  <1>7. (PushReady /\ RequestReady)' /\ PushKept
    BY <1>1, <1>5, PushAlone
  <1> QED BY <1>5, <1>6, <1>7 DEF IInv

-----------------------------------------------------------------------------
\* The worker

LEMMA ClaimStep ==
  ASSUME IInv, NEW claimed \in SUBSET Tasks, Claim(claimed)
  PROVE  IInv' /\ Rows /\ PushKept
  <1>1. /\ UNCHANGED <<item, push, pull, request, unsent, touches>>
        /\ \A t \in claimed : Claimable(t)
    BY DEF Claim
  <1> DEFINE next(t) == [task[t] EXCEPT !.state = "syncing", !.attempts = More(@)]
  <1>2. ASSUME NEW t \in claimed
        PROVE  /\ next(t) \in Row /\ next(t).state = "syncing"
               /\ next(t).desc = task[t].desc /\ Free(t)
    <2>1. Tracked(t) /\ Free(t)
      BY <1>1 DEF Claimable
    <2>2. task[t] \in Row
      BY <2>1, TaskFields DEF IInv
    <2>3. More(task[t].attempts) \in 0..MaxAttempts
      BY <2>2, RowFields, MoreBounded
    <2>4. \A n \in 0..MaxAttempts :
            LET r == [task[t] EXCEPT !.state = "syncing", !.attempts = n]
            IN  r \in Row /\ r.state = "syncing" /\ r.desc = task[t].desc
      BY <2>2 DEF Row
    <2> QED BY <2>1, <2>3, <2>4
  <1>3. task' = [t \in Tasks |-> IF t \in claimed THEN next(t) ELSE task[t]]
    BY DEF Claim
  <1> HIDE DEF next
  <1>4. task' \in Table
    BY <1>2, <1>3 DEF IInv, TypeOK, Table
  <1>5. ASSUME NEW t \in Tasks PROVE RowStep(t)
    <2>1. CASE t \in claimed
      BY <1>2, <1>3, <2>1, RowFields DEF RowStep
    <2>2. CASE t \notin claimed
      BY <1>3, <2>2 DEF RowStep, Tracked
    <2> QED BY <2>1, <2>2
  <1>6. Rows
    BY <1>4, <1>5 DEF Rows
  <1>7. TypeOK'
    <2>1. lapsed' \cup edited' \subseteq {t \in Tasks : task'[t].state = "syncing"}
      BY <1>3 DEF IInv, TypeOK, Claim
    <2>2. waiting' \in [Tasks -> 0..MaxWaiting]
      <3>1. \A t \in claimed : waiting[t] < MaxWaiting
        BY <1>1 DEF Claimable
      <3>2. \A t \in Tasks : waiting[t] \in 0..MaxWaiting
        BY DEF IInv, TypeOK
      <3>3. ASSUME NEW t \in claimed PROVE waiting[t] + 1 \in 0..MaxWaiting
        <4>1. waiting[t] < MaxWaiting /\ waiting[t] \in 0..MaxWaiting
          BY <3>1, <3>2
        <4> QED BY <4>1, BoundAssumption
      <3> QED BY <3>2, <3>3 DEF Claim
    <2> QED BY <1>1, <1>4, <2>1, <2>2 DEF IInv, TypeOK, Table
  <1>8. (PushReady /\ RequestReady)' /\ PushKept
    BY <1>1, <1>6, PushAlone
  <1> QED BY <1>6, <1>7, <1>8 DEF IInv

LEMMA BeginPushStep ==
  ASSUME IInv, NEW t \in Tasks, BeginPush(t)
  PROVE  IInv' /\ Rows /\ PushKept
  <1>1. /\ waiting[t] > 0 /\ push = NoPush
        /\ UNCHANGED <<item, task, lapsed, edited, pull, request, unsent, touches>>
    BY DEF BeginPush
  <1>2. waiting' \in [Tasks -> 0..MaxWaiting]
    <2>1. waiting \in [Tasks -> 0..MaxWaiting]
      BY DEF IInv, TypeOK
    <2>2. waiting[t] - 1 \in 0..MaxWaiting
      BY <1>1, <2>1, BoundAssumption
    <2> QED BY <2>1, <2>2 DEF BeginPush
  <1>3. CASE task[t].state = "syncing"
    <2>1. task[t] \in Row
      BY <1>3, TaskFields DEF IInv
    <2>2. Tracked(t) /\ Copied(task[t]) \in Copy
      BY <2>1, RowFields DEF Tracked
    <2>3. push' = [phase |-> "fetch", t |-> t, copy |-> Copied(task[t]), saw |-> 0]
      BY <1>3 DEF BeginPush
    <2>4. /\ push' \in Push /\ push'.t = t /\ push'.phase = "fetch"
          /\ push'.copy = Copied(task[t])
      BY <2>2, <2>3, BoundAssumption DEF Push
    <2>5. TypeOK'
      BY <1>1, <1>2, <2>4 DEF IInv, TypeOK
    <2>6. Rows
      BY <1>1, RowsAlone DEF IInv
    <2>7. (PushReady /\ RequestReady)'
      BY <1>1, <2>2, <2>4 DEF IInv, PushReady, RequestReady, Tracked
    <2>8. PushKept
      BY <1>1, <1>3, <2>4 DEF PushKept
    <2> QED BY <2>5, <2>6, <2>7, <2>8 DEF IInv
  <1>4. CASE task[t].state # "syncing"
    <2>1. UNCHANGED push
      BY <1>1, <1>4 DEF BeginPush
    <2>2. Rows
      BY <1>1, RowsAlone DEF IInv
    <2>3. TypeOK'
      BY <1>1, <1>2, <2>1 DEF IInv, TypeOK
    <2> QED BY <1>1, <2>1, <2>2, <2>3, PushAlone DEF IInv
  <1> QED BY <1>3, <1>4

-----------------------------------------------------------------------------
\* push_task

\* What the steps of a push need of GitHub's side, whatever happens to it there.
ItemsTyped == item' \in [Tasks -> Item] /\ unsent' \subseteq Tasks

LEMMA PushFields ==
  ASSUME IInv, push # NoPush
  PROVE  /\ push \in Push /\ push.t \in Tasks /\ Tracked(push.t)
         /\ task[push.t] \in Row
         /\ push.copy.desc \in Texts /\ push.copy.attempts \in 0..MaxAttempts
         /\ push.saw \in 0..MaxAt
  <1>1. push \in Push /\ Tracked(push.t)
    BY DEF IInv, TypeOK, PushReady
  <1>2. push.t \in Tasks /\ push.copy \in Copy /\ push.saw \in 0..MaxAt
    BY <1>1 DEF Push
  <1>3. push.copy.desc \in Texts /\ push.copy.attempts \in 0..MaxAttempts
    BY <1>2 DEF Copy
  <1> QED BY <1>1, <1>2, <1>3, TaskFields DEF IInv

LEMMA PushEnds ==
  ASSUME IInv, push # NoPush, ItemsTyped, NEW row \in Row,
         row.state = "error", row.desc = task[push.t].desc, EndPush(row)
  PROVE  IInv' /\ Rows /\ PushKept
  <1>1. /\ task' = [task EXCEPT ![push.t] = row] /\ push' = NoPush /\ KeepLeases
        /\ UNCHANGED <<waiting, pull, request, touches>>
    BY DEF EndPush
  <1>2. Rows
    BY <1>1, PushFields, OneRow DEF IInv
  <1>3. TypeOK'
    <2>1. task' \in Table
      BY <1>2 DEF Rows
    <2>2. lapsed' \cup edited' \subseteq {t \in Tasks : task'[t].state = "syncing"}
      BY <1>1, <2>1, LeasesKept DEF IInv
    <2> QED BY <1>1, <2>1, <2>2 DEF IInv, TypeOK, Table, ItemsTyped
  <1>4. (PushReady /\ RequestReady)'
    BY <1>1, <1>2, ReadyKept
  <1> QED BY <1>1, <1>2, <1>3, <1>4 DEF IInv, PushKept

\* A push goes on: only its phase and what it saw of the item change.
LEMMA PushGoesOn ==
  ASSUME IInv, push # NoPush, ItemsTyped,
         UNCHANGED <<task, lapsed, edited, waiting, pull, request, touches>>,
         NEW phase \in {"fetch", "write", "refresh"}, NEW saw \in 1..MaxAt,
         push' = [push EXCEPT !.phase = phase, !.saw = saw]
  PROVE  IInv' /\ Rows /\ PushKept
  <1>1. /\ push' \in Push /\ push'.t = push.t
        /\ push'.copy = push.copy /\ push'.saw = saw
    <2>1. push \in Push
      BY PushFields
    <2>2. saw \in 0..MaxAt
      BY BoundAssumption
    <2> QED BY <2>1, <2>2 DEF Push
  <1>2. Rows
    BY RowsAlone DEF IInv
  <1>3. TypeOK'
    BY <1>1 DEF IInv, TypeOK, ItemsTyped
  <1>4. (PushReady /\ RequestReady)'
    BY <1>1, <1>2, ReadyKept
  <1> QED BY <1>1, <1>2, <1>3, <1>4 DEF IInv, PushKept

LEMMA PushAdvances ==
  ASSUME IInv, push # NoPush, ItemsTyped, UNCHANGED item, Advance("write")
  PROVE  IInv' /\ Rows /\ PushKept
  <1>1. item[push.t].at \in 1..MaxAt
    BY PushFields DEF IInv, TypeOK, Item
  <1> QED BY <1>1, PushGoesOn DEF Advance

LEMMA PushFailsStep ==
  ASSUME IInv, push # NoPush, ItemsTyped, NEW archived \in BOOLEAN, PushFails(archived)
  PROVE  IInv' /\ Rows /\ PushKept
  <1> DEFINE row == [task[push.t] EXCEPT !.state = "error", !.archived = archived,
                                         !.attempts = More(push.copy.attempts)]
  <1>1. EndPush(row)
    BY DEF PushFails
  <1>2. More(push.copy.attempts) \in 0..MaxAttempts
    BY PushFields, MoreBounded
  <1>3. \A r \in Row, n \in 0..MaxAttempts :
          LET next == [r EXCEPT !.state = "error", !.archived = archived,
                                !.attempts = n]
          IN  next \in Row /\ next.state = "error" /\ next.desc = r.desc
    BY DEF Row
  <1>4. row \in Row /\ row.state = "error" /\ row.desc = task[push.t].desc
    BY <1>2, <1>3, PushFields
  <1> HIDE DEF row
  <1> QED BY <1>1, <1>4, PushEnds

LEMMA PushConflictsStep ==
  ASSUME IInv, push # NoPush, ItemsTyped, PushConflicts
  PROVE  IInv' /\ Rows /\ PushKept
  <1> DEFINE row == [task[push.t] EXCEPT !.state = "error", !.archived = FALSE,
                                         !.conflictAt = item[push.t].at]
  <1>1. EndPush(row)
    BY DEF PushConflicts
  <1>2. item[push.t].at \in 0..MaxAt
    BY PushFields, BoundAssumption DEF IInv, TypeOK, Item
  <1>3. \A r \in Row, at \in 0..MaxAt :
          LET next == [r EXCEPT !.state = "error", !.archived = FALSE,
                                !.conflictAt = at]
          IN  next \in Row /\ next.state = "error" /\ next.desc = r.desc
    BY DEF Row
  <1>4. row \in Row /\ row.state = "error" /\ row.desc = task[push.t].desc
    BY <1>2, <1>3, PushFields
  <1> HIDE DEF row
  <1> QED BY <1>1, <1>4, PushEnds

LEMMA FetchStep ==
  ASSUME IInv, Fetch
  PROVE  IInv' /\ Rows /\ PushKept
  <1>1. push # NoPush /\ ItemsTyped /\ UNCHANGED item
    BY DEF Fetch, NoPush, ItemsTyped, IInv, TypeOK
  <1>2. \/ \E archived \in BOOLEAN : PushFails(archived)
        \/ PushConflicts \/ Advance("write")
    BY DEF Fetch
  <1> QED BY <1>1, <1>2, PushFailsStep, PushConflictsStep, PushAdvances

LEMMA AcceptedItems ==
  ASSUME IInv, push # NoPush, Accepted
  PROVE  ItemsTyped
  <1> DEFINE t == push.t
  <1>1. t \in Tasks /\ push.copy.desc \in Texts
    BY PushFields
  <1>2. item \in [Tasks -> Item] /\ item[t].at \in 1..MaxAt
    BY <1>1 DEF IInv, TypeOK, Item
  <1>3. PICK at \in item[t].at .. item[t].at + 1 :
          /\ at <= MaxAt
          /\ item' = [item EXCEPT ![t].text = push.copy.desc, ![t].at = at]
    BY DEF Accepted
  <1>4. at \in 1..MaxAt
    BY <1>2, <1>3, BoundAssumption
  <1>5. item' \in [Tasks -> Item]
    <2> HIDE DEF t
    <2> QED BY <1>1, <1>2, <1>3, <1>4 DEF Item
  <1>6. unsent' \subseteq Tasks
    BY DEF Accepted, IInv, TypeOK
  <1> QED BY <1>5, <1>6 DEF ItemsTyped

LEMMA WriteStep ==
  ASSUME IInv, Write
  PROVE  IInv' /\ Rows /\ PushKept
  <1>1. push.phase = "write" /\ push # NoPush
    BY DEF Write, NoPush
  <1>2. Accepted \/ UNCHANGED <<item, unsent>>
    BY DEF Write
  <1>3. ItemsTyped
    BY <1>1, <1>2, AcceptedItems DEF ItemsTyped, IInv, TypeOK
  <1>4. CASE /\ push' = [push EXCEPT !.phase = "refresh"]
             /\ UNCHANGED <<task, lapsed, edited, waiting, pull, request, touches>>
    <2>1. push.saw \in 1..MaxAt /\ push \in Push
      BY <1>1, PushFields DEF IInv, PushReady
    <2>2. push' = [push EXCEPT !.phase = "refresh", !.saw = push.saw]
      BY <1>4, <2>1 DEF Push
    <2> QED BY <1>1, <1>3, <1>4, <2>1, <2>2, PushGoesOn
  <1>5. CASE PushFails(FALSE)
    BY <1>1, <1>3, <1>5, PushFailsStep
  <1> QED BY <1>4, <1>5 DEF Write

LEMMA RefreshStep ==
  ASSUME IInv, Refresh
  PROVE  IInv' /\ Rows /\ PushKept
  <1>1. push.phase = "refresh" /\ push # NoPush /\ ItemsTyped
    <2>1. push.phase = "refresh" /\ UNCHANGED <<item, unsent>>
      BY DEF Refresh
    <2> QED BY <2>1 DEF NoPush, ItemsTyped, IInv, TypeOK
  <1>2. CASE EndPush([task[push.t] EXCEPT !.state = "error", !.archived = FALSE])
    <2> DEFINE row == [task[push.t] EXCEPT !.state = "error", !.archived = FALSE]
    <2>1. \A r \in Row : LET next == [r EXCEPT !.state = "error", !.archived = FALSE]
                         IN  next \in Row /\ next.state = "error" /\ next.desc = r.desc
      BY DEF Row
    <2>2. row \in Row /\ row.state = "error" /\ row.desc = task[push.t].desc
      BY <1>1, <2>1, PushFields
    <2>3. EndPush(row)
      BY <1>2
    <2> HIDE DEF row
    <2> QED BY <1>1, <2>2, <2>3, PushEnds
  <1>3. CASE \E known \in {push.saw} \cup
               (IF item[push.t].status = "deleted" THEN {} ELSE {item[push.t].at}) :
               EndPush([task[push.t] EXCEPT
                 !.state = "error", !.known = known, !.archived = FALSE,
                 !.conflictAt = 0,
                 !.attempts = IF push.t \in edited THEN @ ELSE 0])
    <2>1. PICK known \in {push.saw} \cup
               (IF item[push.t].status = "deleted" THEN {} ELSE {item[push.t].at}) :
               EndPush([task[push.t] EXCEPT
                 !.state = "error", !.known = known, !.archived = FALSE,
                 !.conflictAt = 0,
                 !.attempts = IF push.t \in edited THEN @ ELSE 0])
      BY <1>3
    <2>2. known \in 1..MaxAt
      <3>1. push.saw \in 1..MaxAt
        BY <1>1 DEF IInv, PushReady
      <3>2. item[push.t].at \in 1..MaxAt
        BY <1>1, PushFields DEF IInv, TypeOK, Item
      <3> QED BY <3>1, <3>2
    <2>3. 0 \in 0..MaxAttempts /\ 0 \in 0..MaxAt
      BY BoundAssumption
    <2>4. \A r \in Row : \A counted \in BOOLEAN :
            LET next == [r EXCEPT !.state = "error", !.known = known,
                                  !.archived = FALSE, !.conflictAt = 0,
                                  !.attempts = IF counted THEN @ ELSE 0]
            IN  next \in Row /\ next.state = "error" /\ next.desc = r.desc
      BY <2>2, <2>3 DEF Row
    <2> DEFINE counted == push.t \in edited
               row == [task[push.t] EXCEPT
                 !.state = "error", !.known = known, !.archived = FALSE,
                 !.conflictAt = 0, !.attempts = IF counted THEN @ ELSE 0]
    <2>5. counted \in BOOLEAN
      OBVIOUS
    <2>6. EndPush(row)
      BY <2>1
    <2>7. row \in Row /\ row.state = "error" /\ row.desc = task[push.t].desc
      <3> HIDE DEF counted
      <3> QED BY <1>1, <2>4, <2>5, PushFields
    <2> HIDE DEF row
    <2> QED BY <1>1, <2>6, <2>7, PushEnds
  <1> QED BY <1>2, <1>3 DEF Refresh, StatusRaises

-----------------------------------------------------------------------------
\* A pull

LEMMA EndPullStep ==
  ASSUME IInv, EndPull
  PROVE  IInv' /\ Rows /\ PushKept
  <1>1. /\ pull # NoPull /\ pull' = NoPull /\ KeepLeases
        /\ UNCHANGED <<item, waiting, push, request, touches>>
        /\ \A t \in Tasks : pull[t].status # "deleted" => Free(t)
    BY DEF EndPull
  <1>2. CASE UNCHANGED <<task, unsent>>
    <2>1. Rows
      BY <1>2, RowsAlone DEF IInv
    <2>2. task' \in Table
      BY <2>1 DEF Rows
    <2>3. lapsed' \cup edited' \subseteq {t \in Tasks : task'[t].state = "syncing"}
      BY <1>1, <2>2, LeasesKept DEF IInv
    <2>4. TypeOK'
      BY <1>1, <1>2, <2>3 DEF IInv, TypeOK
    <2> QED BY <1>1, <2>1, <2>4, PushAlone DEF IInv
  <1>3. CASE \E others \in SUBSET Tasks :
               /\ task' = [t \in Tasks |->
                    IF t \in Changed(others) /\ FastForwarded(t)
                    THEN [Pulled(t) EXCEPT !.attempts = 0] ELSE Pulled(t)]
               /\ unsent' = unsent \ {t \in Tasks : FastForwarded(t)}
    <2>1. PICK others \in SUBSET Tasks :
               /\ task' = [t \in Tasks |->
                    IF t \in Changed(others) /\ FastForwarded(t)
                    THEN [Pulled(t) EXCEPT !.attempts = 0] ELSE Pulled(t)]
               /\ unsent' = unsent \ {t \in Tasks : FastForwarded(t)}
      BY <1>3
    <2>2. ASSUME NEW t \in Tasks PROVE task'[t] \in Row \cup {NoTask} /\ RowStep(t)
      <3>1. /\ Pulled(t) \in Row \cup {NoTask}
            /\ Tracked(t) => Pulled(t) \in Row
            /\ pull[t].status = "deleted" => Pulled(t) = task[t]
            /\ Pulled(t).state = "conflict" =>
                 \/ Pulled(t).conflictAt > Pulled(t).known
                 \/ /\ task[t].state = "conflict"
                    /\ Pulled(t).conflictAt = task[t].conflictAt
                    /\ Pulled(t).known = task[t].known
            /\ Tracked(t) /\ Pulled(t).state = "synced" => task[t].state = "synced"
            /\ Tracked(t) /\ Protected(task[t]) => Pulled(t).desc = task[t].desc
        BY <1>1, PulledRow DEF IInv
      <3>2. task[t].state \in {"pending_push", "syncing", "conflict"} =>
              Tracked(t) /\ Protected(task[t])
        BY TaskFields, RowFields DEF IInv, Tracked, Protected
      <3>3. CASE t \in Changed(others) /\ FastForwarded(t)
        <4>1. task'[t] = [Pulled(t) EXCEPT !.attempts = 0]
          BY <2>1, <3>3
        <4>2. Tracked(t) /\ ~Protected(task[t]) /\ pull[t].status = "open"
          BY <3>3 DEF FastForwarded
        <4>3. \A r \in Row : LET next == [r EXCEPT !.attempts = 0]
                             IN  /\ next \in Row /\ next.state = r.state
                                 /\ next.conflictAt = r.conflictAt /\ next.known = r.known
          BY BoundAssumption DEF Row
        <4>4. Pulled(t) \in Row
          BY <3>1, <4>2
        <4>5. /\ task'[t] \in Row /\ task'[t].state = Pulled(t).state
              /\ task'[t].conflictAt = Pulled(t).conflictAt
              /\ task'[t].known = Pulled(t).known
          BY <4>1, <4>3, <4>4
        <4> QED BY <1>1, <3>1, <3>2, <4>2, <4>5, RowFields DEF RowStep
      <3>4. CASE ~(t \in Changed(others) /\ FastForwarded(t))
        <4>1. task'[t] = Pulled(t)
          BY <2>1, <3>4
        <4>2. Free(t) \/ Pulled(t) = task[t]
          BY <1>1, <3>1
        <4>3. Tracked(t) => Pulled(t) # NoTask
          BY <3>1, RowFields
        <4> QED BY <3>1, <3>2, <4>1, <4>2, <4>3 DEF RowStep
      <3> QED BY <3>3, <3>4
    <2>3. task' \in Table
      BY <2>1, <2>2 DEF Table
    <2>4. Rows
      BY <2>2, <2>3 DEF Rows
    <2>5. lapsed' \cup edited' \subseteq {t \in Tasks : task'[t].state = "syncing"}
      BY <1>1, <2>3, LeasesKept DEF IInv
    <2>6. unsent' \subseteq Tasks
      BY <2>1 DEF IInv, TypeOK
    <2>7. TypeOK'
      BY <1>1, <2>3, <2>5, <2>6 DEF IInv, TypeOK, Table
    <2> QED BY <1>1, <2>4, <2>7, PushAlone DEF IInv
  <1> QED BY <1>2, <1>3 DEF EndPull

-----------------------------------------------------------------------------
\* The theorems

LEMMA NextStep ==
  ASSUME IInv, Next
  PROVE  IInv' /\ Rows /\ PushKept
  <1>1. ASSUME NEW t \in Tasks,
               \/ ForeignEdit(t) \/ ForeignStatus(t) \/ Lapse(t) \/ BeginPush(t)
               \/ ReadTask(t) \/ UpdateTask(t) \/ RetryTask(t)
        PROVE  IInv' /\ Rows /\ PushKept
    BY <1>1, EnvironmentStep, BeginPushStep, ReadTaskStep, UpdateTaskStep,
       RetryTaskStep
  <1>2. CASE \E claimed \in SUBSET Tasks : Claim(claimed)
    BY <1>2, ClaimStep
  <1>3. CASE PushStep
    BY <1>3, FetchStep, WriteStep, RefreshStep DEF PushStep
  <1>4. CASE EndPull
    BY <1>4, EndPullStep
  <1>5. CASE ReadPage \/ Crash
    BY <1>5, ProcessStep
  <1> QED BY <1>1, <1>2, <1>3, <1>4, <1>5 DEF Next

LEMMA InitInv == Init => IInv /\ PushOwnsRow /\ ConflictIsNewer
  <1> SUFFICES ASSUME Init PROVE IInv /\ PushOwnsRow /\ ConflictIsNewer
    OBVIOUS
  <1>1. /\ item \in [Tasks -> Item] /\ task = [t \in Tasks |-> NoTask]
        /\ push = NoPush /\ request = NoRequest
    BY DEF Init
  <1>2. TypeOK
    <2>1. waiting \in [Tasks -> 0..MaxWaiting] /\ touches \in 0..MaxTouches
      BY BoundAssumption DEF Init
    <2>2. lapsed \cup edited \subseteq {t \in Tasks : task[t].state = "syncing"}
      BY DEF Init
    <2>3. pull = NoPull /\ unsent = {}
      BY DEF Init
    <2> QED BY <1>1, <2>1, <2>2, <2>3 DEF TypeOK
  <1>3. PushReady /\ RequestReady /\ PushOwnsRow
    BY <1>1 DEF PushReady, RequestReady, PushOwnsRow
  <1>4. ConflictIsNewer
    BY <1>1 DEF ConflictIsNewer, NoTask
  <1> QED BY <1>2, <1>3, <1>4 DEF IInv

LEMMA StutterInv ==
  ASSUME IInv, UNCHANGED vars
  PROVE  IInv'
  BY DEF vars, IInv, TypeOK, PushReady, RequestReady, Tracked

LEMMA IInvCorrect == Spec => []IInv
  <1>1. Init => IInv
    BY InitInv
  <1>2. IInv /\ [Next]_vars => IInv'
    BY NextStep, StutterInv
  <1> QED BY <1>1, <1>2, PTL DEF Spec

\* Every reachable state is typed.
THEOREM TypeCorrect == Spec => []TypeOK
  <1>1. IInv => TypeOK
    BY DEF IInv
  <1> QED BY <1>1, IInvCorrect, PTL

\* What the worker sends is what the row holds: the row of a push in progress is
\* locked, and no other transaction changes it before the push commits.
THEOREM WorkerOwnsRow == Spec => []PushOwnsRow
  <1>1. Init => PushOwnsRow
    BY InitInv
  <1>2. IInv /\ PushOwnsRow /\ [Next]_vars => PushOwnsRow'
    <2> SUFFICES ASSUME IInv, PushOwnsRow, [Next]_vars PROVE PushOwnsRow'
      OBVIOUS
    <2>1. CASE UNCHANGED vars
      BY <2>1 DEF vars, PushOwnsRow
    <2>2. CASE Next
      <3>1. Rows /\ PushKept
        BY <2>2, NextStep
      <3> SUFFICES ASSUME push' # NoPush
                   PROVE  task'[push'.t].state = "syncing"
                          /\ Copied(task'[push'.t]) = push'.copy
        BY DEF PushOwnsRow, Copied
      <3>2. CASE push # NoPush /\ push'.t = push.t /\ push'.copy = push.copy
        <4>1. push.t \in Tasks
          BY <3>2, PushFields
        <4>2. task'[push.t] = task[push.t]
          BY <3>1, <3>2, <4>1 DEF Rows, RowStep, Free
        <4> QED BY <3>2, <4>2 DEF PushOwnsRow, Copied
      <3> QED BY <3>1, <3>2 DEF PushKept
    <2> QED BY <2>1, <2>2
  <1> QED BY <1>1, <1>2, IInvCorrect, PTL DEF Spec

\* A recorded conflict names a version of the item that the task has not taken
\* over (_record_conflict, _upsert_task_from_item).
THEOREM ConflictsNewer == Spec => []ConflictIsNewer
  <1>1. Init => ConflictIsNewer
    BY InitInv
  <1>2. IInv /\ ConflictIsNewer /\ [Next]_vars => ConflictIsNewer'
    <2> SUFFICES ASSUME IInv, ConflictIsNewer, [Next]_vars PROVE ConflictIsNewer'
      OBVIOUS
    <2>1. CASE UNCHANGED vars
      BY <2>1 DEF vars, ConflictIsNewer
    <2>2. CASE Next
      BY <2>2, NextStep DEF Rows, RowStep, ConflictIsNewer
    <2> QED BY <2>1, <2>2
  <1> QED BY <1>1, <1>2, IInvCorrect, PTL DEF Spec

\* Only an edit of the task changes the description of one that waits for its
\* push or for the answer to a conflict.
THEOREM WaitingKept == Spec => PendingKept
  <1> DEFINE Step ==
        \A t \in Tasks :
          /\ task[t].state \in {"pending_push", "syncing", "conflict"}
          /\ task'[t].desc # task[t].desc
          => request.kind = "update" /\ request' = NoRequest
  <1>1. IInv /\ [Next]_vars => [Step]_vars
    <2> SUFFICES ASSUME IInv, Next PROVE Step
      OBVIOUS
    <2>1. Rows
      BY NextStep
    <2> QED BY <2>1 DEF Rows, RowStep
  <1> QED BY <1>1, IInvCorrect, PTL DEF Spec, PendingKept

\* A task is synced when a pull first imports it and, once it has left that
\* state, never again: push_task sets it before a log line that raises, and a
\* pull leaves the state of a task that it overwrites alone.
THEOREM NeverSyncedAgain ==
  Spec => [][\A t \in Tasks : Tracked(t) /\ task'[t].state = "synced"
                             => task[t].state = "synced"]_vars
  <1> DEFINE Step == \A t \in Tasks :
        Tracked(t) /\ task'[t].state = "synced" => task[t].state = "synced"
  <1>1. IInv /\ [Next]_vars => [Step]_vars
    <2> SUFFICES ASSUME IInv, Next PROVE Step
      OBVIOUS
    <2>1. Rows
      BY NextStep
    <2> QED BY <2>1 DEF Rows, RowStep
  <1> QED BY <1>1, IInvCorrect, PTL DEF Spec

=============================================================================
