----------------------------- MODULE GithubSync ------------------------------
(***************************************************************************)
(* The synchronisation of the tasks of one project with their GitHub       *)
(* items: the push worker, the pulls, and the requests that edit a task or *)
(* queue it again (github_sync_service.py, github_sync_worker.py,          *)
(* tasks.py, task_service.py, admin/sync.py).  Sync Now and the answers to *)
(* a conflict are no part of it: tasks.py names github_sync_service and    *)
(* github_conflict_service without importing them, so these requests raise *)
(* NameError and are rolled back before they push or commit anything.      *)
(*                                                                         *)
(* A push holds the project's advisory lock and the row of its task from   *)
(* its first read to its commit, and calls GitHub in between: a push is a  *)
(* transaction in progress (push), with one action per call.  A pull takes *)
(* another advisory lock, so it runs beside the pushes; it reads the page  *)
(* of items first and locks the rows afterwards (pull).                    *)
(*                                                                         *)
(* models/enums.py gives SyncStatus no success, conflict or skipped: every *)
(* log line with one of them raises AttributeError, which decides how each *)
(* transaction below ends.  The client raises GitHubAuthError whatever     *)
(* went wrong (client.py), so no handler of GitHubNotFound or of           *)
(* GitHubRateLimited is ever entered.                                      *)
(***************************************************************************)
EXTENDS Integers

CONSTANTS
  Tasks,        \* the GitHub items of the project and the tasks made of them
  Texts,        \* descriptions, without surrounding blanks or block markers
  NoText,       \* an update that names no description
  MaxAttempts,  \* _MAX_ATTEMPTS, 5 in the code
  MaxAt,        \* bound on the number of changes of an item
  MaxForeign,   \* bound on the changes after which nobody edits an item on GitHub
  MaxTouches,   \* bound on the requests of the users and the restarts
  MaxWaiting    \* bound on the pushes that wait for one task

ASSUME TextAssumption == Texts # {} /\ NoText \notin Texts
ASSUME BoundAssumption ==
  /\ MaxAttempts \in Nat \ {0} /\ MaxAt \in Nat \ {0} /\ MaxForeign \in 1..MaxAt
  /\ MaxTouches \in Nat /\ MaxWaiting \in Nat \ {0}

VARIABLES
  item,     \* item[t]: the item on GitHub
  task,     \* task[t]: the row of the task
  lapsed,   \* the syncing tasks whose lease is older than _LEASE_TIMEOUT
  edited,   \* the syncing tasks edited since they were claimed
  waiting,  \* waiting[t]: the claimed pushes of t that have not started
  push,     \* the push transaction in progress
  pull,     \* the page of items that the pull in progress has read
  request,  \* the request that has read a task and not yet locked it
  unsent,   \* history: the tasks whose last edit has not been sent
  touches   \* the requests of the users and the restarts so far

vars == <<item, task, lapsed, edited, waiting, push, pull, request, unsent, touches>>

\* GitHub's side: the text a pull would extract, and updatedAt.
Item == [text : Texts, at : 1..MaxAt, status : {"open", "archived", "deleted"}]

\* gh_updated_at is known; conflict_remote_updated_at is conflictAt, 0 for NULL;
\* archived is sync_last_error_code = ITEM_ARCHIVED.  The attempts are counted
\* up to the ceiling, which is all the code compares them with.
NoTask == [state |-> "none"]
Row == [state : {"synced", "pending_push", "syncing", "conflict", "error"},
        desc : Texts, known : 1..MaxAt, attempts : 0..MaxAttempts,
        archived : BOOLEAN, conflictAt : 0..MaxAt]

\* What a push uses of the row as its session read it is copy; saw is the
\* updatedAt that it fetched before it wrote.
Copy == [desc : Texts, known : 1..MaxAt, attempts : 0..MaxAttempts]
Copied(row) == [desc |-> row.desc, known |-> row.known, attempts |-> row.attempts]

NoPush == [phase |-> "none"]
Push == [phase : {"fetch", "write", "refresh"}, t : Tasks, copy : Copy, saw : 0..MaxAt]
NoRequest == [kind |-> "none"]
Request == [kind : {"update"}, t : Tasks, copy : [desc : Texts, pending : BOOLEAN]]
NoPull == [t \in {} |-> NoTask]

Tracked(t) == task[t] # NoTask
Free(t) == push # NoPush => push.t # t
\* lapsed and edited say nothing of a task that has left syncing.
KeepLeases ==
  /\ lapsed' = {t \in lapsed : task'[t].state = "syncing"}
  /\ edited' = {t \in edited : task'[t].state = "syncing"}
More(attempts) == IF attempts < MaxAttempts THEN attempts + 1 ELSE attempts

Init ==
  /\ item \in [Tasks -> {i \in Item : i.at = 1 /\ i.status = "open"}]
  /\ task = [t \in Tasks |-> NoTask]
  /\ lapsed = {} /\ edited = {} /\ unsent = {}
  /\ waiting = [t \in Tasks |-> 0]
  /\ push = NoPush /\ pull = NoPull /\ request = NoRequest
  /\ touches = 0

-----------------------------------------------------------------------------
\* GitHub, the clock and the process.

\* Somebody edits the item on GitHub: its description or anything else.
ForeignEdit(t) ==
  /\ item[t].status # "deleted" /\ item[t].at < MaxForeign
  /\ \E text \in Texts :
       item' = [item EXCEPT ![t].text = text, ![t].at = @ + 1]
  /\ UNCHANGED <<task, lapsed, edited, waiting, push, pull, request, unsent, touches>>

\* The item is archived, restored or deleted.
ForeignStatus(t) ==
  /\ item[t].status # "deleted"
  /\ \E status \in {"open", "archived", "deleted"} \ {item[t].status} :
       item' = [item EXCEPT ![t].status = status]
  /\ UNCHANGED <<task, lapsed, edited, waiting, push, pull, request, unsent, touches>>

\* Five minutes pass since a task was claimed.
Lapse(t) ==
  /\ task[t].state = "syncing" /\ t \notin lapsed
  /\ lapsed' = lapsed \cup {t}
  /\ UNCHANGED <<item, task, edited, waiting, push, pull, request, unsent, touches>>

\* The process restarts: every transaction in progress is rolled back.
Crash ==
  /\ touches < MaxTouches
  /\ touches' = touches + 1
  /\ push' = NoPush /\ pull' = NoPull /\ request' = NoRequest
  /\ waiting' = [t \in Tasks |-> 0]
  /\ UNCHANGED <<item, task, lapsed, edited, unsent>>

-----------------------------------------------------------------------------
\* The requests of the users.

\* update_task reads the task before it locks it, and the session keeps that
\* copy: the locking read returns it unrefreshed.
ReadTask(t) ==
  /\ request = NoRequest /\ Tracked(t) /\ touches < MaxTouches
  /\ request' = [kind |-> "update", t |-> t, copy |->
       [desc |-> task[t].desc, pending |-> task[t].state = "pending_push"]]
  /\ touches' = touches + 1
  /\ UNCHANGED <<item, task, lapsed, edited, waiting, push, pull, unsent>>

\* Mutant: the edit is stored and never queued.
UpdatedUnqueued(row, copy, text) ==
  IF text = NoText THEN row
  ELSE [row EXCEPT !.desc = IF text # copy.desc THEN text ELSE @]

\* Mutant: a state that the enumeration does not have.
UpdatedMisnamed(row, copy, text) ==
  IF text = NoText THEN row
  ELSE [row EXCEPT !.desc = IF text # copy.desc THEN text ELSE @,
                   !.state = IF copy.pending THEN @ ELSE "pending"]

\* The columns that the update sets and that differ from the copy are written.
Updated(row, copy, text) ==
  IF text = NoText THEN row
  ELSE [row EXCEPT !.desc = IF text # copy.desc THEN text ELSE @,
                   !.state = IF copy.pending THEN @ ELSE "pending_push"]

UpdateTask(t) ==
  /\ request.kind = "update" /\ request.t = t /\ Free(t)
  /\ \E text \in Texts \cup {NoText} :
       /\ task' = [task EXCEPT ![t] = Updated(@, request.copy, text)]
       /\ unsent' = IF text \in {NoText, request.copy.desc} THEN unsent
                    ELSE unsent \cup {t}
  /\ lapsed' = {u \in lapsed : task'[u].state = "syncing"}
  /\ edited' = {u \in edited \cup {t} : task'[u].state = "syncing"}
  /\ request' = NoRequest
  /\ UNCHANGED <<item, waiting, push, pull, touches>>

\* Mutant: the row is read without FOR UPDATE.
RetryTaskUnlocked(t) ==
  /\ Tracked(t) /\ touches < MaxTouches
  /\ task' = [task EXCEPT ![t].state = "pending_push", ![t].attempts = 0,
                          ![t].archived = FALSE]
  /\ KeepLeases
  /\ touches' = touches + 1
  /\ UNCHANGED <<item, waiting, push, pull, request, unsent>>

\* An administrator queues the task again.
RetryTask(t) ==
  /\ Tracked(t) /\ Free(t) /\ touches < MaxTouches
  /\ task' = [task EXCEPT ![t].state = "pending_push", ![t].attempts = 0,
                          ![t].archived = FALSE]
  /\ KeepLeases
  /\ touches' = touches + 1
  /\ UNCHANGED <<item, waiting, push, pull, request, unsent>>

-----------------------------------------------------------------------------
\* The push worker.

\* Mutant: a stale lease is not reclaimed.
ClaimableNoStale(t) ==
  /\ Tracked(t) /\ Free(t) /\ waiting[t] < MaxWaiting
  /\ \/ task[t].state = "pending_push"
     \/ /\ task[t].state = "error" /\ task[t].attempts < MaxAttempts
        /\ ~task[t].archived

Claimable(t) ==
  /\ Tracked(t) /\ Free(t) /\ waiting[t] < MaxWaiting
  /\ \/ task[t].state = "pending_push"
     \/ /\ task[t].state = "error" /\ task[t].attempts < MaxAttempts
        /\ ~task[t].archived
     \/ task[t].state = "syncing" /\ t \in lapsed

\* A tick of the worker claims what it can lock and starts a push for each.
Claim(claimed) ==
  /\ claimed # {} /\ \A t \in claimed : Claimable(t)
  /\ task' = [t \in Tasks |->
       IF t \in claimed
       THEN [task[t] EXCEPT !.state = "syncing", !.attempts = More(@)]
       ELSE task[t]]
  /\ lapsed' = lapsed \ claimed
  /\ edited' = edited \ claimed
  /\ waiting' = [t \in Tasks |-> IF t \in claimed THEN waiting[t] + 1 ELSE waiting[t]]
  /\ UNCHANGED <<item, push, pull, request, unsent, touches>>

\* A claimed push takes the project's lock, then the row; it returns if the
\* task is no longer syncing.
BeginPush(t) ==
  /\ waiting[t] > 0 /\ push = NoPush
  /\ waiting' = [waiting EXCEPT ![t] = @ - 1]
  /\ push' = IF task[t].state = "syncing"
             THEN [phase |-> "fetch", t |-> t, copy |-> Copied(task[t]), saw |-> 0]
             ELSE NoPush
  /\ UNCHANGED <<item, task, lapsed, edited, pull, request, unsent, touches>>

-----------------------------------------------------------------------------
\* push_task, one action per answer of GitHub.

\* The transaction ends, and the row becomes row.
EndPush(row) ==
  /\ task' = [task EXCEPT ![push.t] = row]
  /\ push' = NoPush
  /\ KeepLeases
  /\ UNCHANGED <<waiting, pull, request, touches>>

Advance(phase) ==
  /\ push' = [push EXCEPT !.phase = phase, !.saw = item[push.t].at]
  /\ UNCHANGED <<task, lapsed, edited, waiting, pull, request, touches>>

\* _mark_error.
PushFails(archived) ==
  EndPush([task[push.t] EXCEPT !.state = "error", !.archived = archived,
                               !.attempts = More(push.copy.attempts)])

\* _record_conflict raises at its log line: the worker keeps what it recorded,
\* but in state error.
PushConflicts ==
  EndPush([task[push.t] EXCEPT !.state = "error", !.archived = FALSE,
                               !.conflictAt = item[push.t].at])

\* 1 and 2: the item is fetched and tested for a conflict (force is FALSE).  The
\* fetch may fail; a deleted item is one of unknown content.
Fetch ==
  /\ push.phase = "fetch"
  /\ \/ PushFails(FALSE)
     \/ item[push.t].status = "archived" /\ PushFails(TRUE)
     \/ /\ item[push.t].status = "open" /\ item[push.t].at > push.copy.known
        /\ PushConflicts
     \/ /\ item[push.t].status = "open" /\ item[push.t].at <= push.copy.known
        /\ Advance("write")
  /\ UNCHANGED <<item, unsent>>

\* 3: GitHub takes the description; one that says nothing new may leave
\* updatedAt alone.
Accepted ==
  /\ item[push.t].status # "deleted"
  /\ \E at \in item[push.t].at .. item[push.t].at + 1 :
       /\ at <= MaxAt
       /\ at = item[push.t].at => item[push.t].text = push.copy.desc
       /\ item' = [item EXCEPT ![push.t].text = push.copy.desc, ![push.t].at = at]
  /\ unsent' = IF push.copy.desc = task[push.t].desc THEN unsent \ {push.t}
               ELSE unsent

\* The description is taken; or it is not, or the answer is lost on its way.
Write ==
  /\ push.phase = "write"
  /\ \/ /\ Accepted
        /\ push' = [push EXCEPT !.phase = "refresh"]
        /\ UNCHANGED <<task, lapsed, edited, waiting, pull, request, touches>>
     \/ /\ Accepted \/ UNCHANGED <<item, unsent>>
        /\ PushFails(FALSE)

\* 4 to 6: a status that cannot be set raises at its log line.  Else updatedAt is
\* read again, or the one from before the write is kept, and the last log line
\* raises.  The worker keeps what was set before, but in state error.
StatusRaises ==
  EndPush([task[push.t] EXCEPT !.state = "error", !.archived = FALSE])

Refresh ==
  /\ push.phase = "refresh"
  /\ \/ StatusRaises
     \/ \E known \in {push.saw} \cup
          (IF item[push.t].status = "deleted" THEN {} ELSE {item[push.t].at}) :
          EndPush([task[push.t] EXCEPT
            !.state = "error", !.known = known, !.archived = FALSE,
            !.conflictAt = 0,
            !.attempts = IF push.t \in edited THEN @ ELSE 0])
  /\ UNCHANGED <<item, unsent>>

-----------------------------------------------------------------------------
\* A pull.

ReadPage ==
  /\ pull = NoPull
  /\ pull' = item
  /\ UNCHANGED <<item, task, lapsed, edited, waiting, push, request, unsent, touches>>

\* Mutant: a task whose push is claimed is taken for a synced one.
ProtectedIdle(row) == row.state \in {"pending_push", "conflict"}

Protected(row) == row.state \in {"pending_push", "conflict", "syncing"}

\* Mutant: a waiting task conflicts with an item that has not moved.
RemoteSeen(t) == pull[t].at >= task[t].known

RemoteMoved(t) == pull[t].at > task[t].known

\* _upsert_task_from_item: the row that an item of the page makes of t.
Pulled(t) ==
  LET page == pull[t]  row == task[t] IN
  IF page.status = "deleted" THEN row
  ELSE IF page.status = "archived"
  THEN IF ~Tracked(t) \/ row.archived THEN row
       ELSE [row EXCEPT !.state = "error", !.archived = TRUE]
  ELSE IF ~Tracked(t)
  THEN [state |-> "synced", desc |-> page.text, known |-> page.at, attempts |-> 0,
        archived |-> FALSE, conflictAt |-> 0]
  ELSE IF Protected(row)
  THEN IF RemoteMoved(t)
       THEN [row EXCEPT !.state = "conflict", !.conflictAt = page.at,
                        !.archived = FALSE]
       ELSE row
  ELSE [row EXCEPT !.desc = page.text, !.known = page.at, !.archived = FALSE]

\* The items whose row is rewritten, for its description or its other columns
\* (others).  Each raises at its log line, and the pull goes on.
FastForwarded(t) ==
  pull[t].status = "open" /\ Tracked(t) /\ ~Protected(task[t])
Changed(others) ==
  {t \in Tasks :
     IF FastForwarded(t) THEN t \in others \/ task[t].desc # pull[t].text
     ELSE \/ Pulled(t) # task[t]
          \/ Tracked(t) /\ pull[t].status = "open" /\ RemoteMoved(t)}

\* A pull that raised for no item raises in its last log line, and one that
\* misses the item of a task raises when it marks the task: both are rolled back.
Commits(others) ==
  /\ Changed(others) # {}
  /\ \A t \in Tasks : Tracked(t) => pull[t].status # "deleted"

EndPull ==
  /\ pull # NoPull
  /\ \A t \in Tasks : pull[t].status # "deleted" => Free(t)
  /\ \E others \in SUBSET Tasks :
       IF Commits(others)
       THEN /\ task' = [t \in Tasks |->
                 IF t \in Changed(others) /\ FastForwarded(t)
                 THEN [Pulled(t) EXCEPT !.attempts = 0] ELSE Pulled(t)]
            /\ unsent' = unsent \ {t \in Tasks : FastForwarded(t)}
       ELSE UNCHANGED <<task, unsent>>
  /\ KeepLeases
  /\ pull' = NoPull
  /\ UNCHANGED <<item, waiting, push, request, touches>>

-----------------------------------------------------------------------------

PushStep == Fetch \/ Write \/ Refresh

Next ==
  \/ \E t \in Tasks :
       \/ ForeignEdit(t) \/ ForeignStatus(t) \/ Lapse(t)
       \/ ReadTask(t) \/ UpdateTask(t) \/ RetryTask(t) \/ BeginPush(t)
  \/ \E claimed \in SUBSET Tasks : Claim(claimed)
  \/ PushStep
  \/ ReadPage \/ EndPull
  \/ Crash

Spec == Init /\ [][Next]_vars

\* The worker ticks every 15 seconds, the locks are queues, GitHub answers or
\* the call times out, and leases lapse.
Fairness ==
  /\ \A t \in Tasks :
       /\ WF_vars(Lapse(t))
       /\ WF_vars(\E claimed \in SUBSET Tasks : t \in claimed /\ Claim(claimed))
       /\ SF_vars(BeginPush(t))
  /\ WF_vars(PushStep)

FairSpec == Spec /\ Fairness

-----------------------------------------------------------------------------

TypeOK ==
  /\ item \in [Tasks -> Item]
  /\ task \in [Tasks -> Row \cup {NoTask}]
  /\ lapsed \cup edited \subseteq {t \in Tasks : task[t].state = "syncing"}
  /\ unsent \subseteq Tasks
  /\ waiting \in [Tasks -> 0..MaxWaiting]
  /\ push \in Push \cup {NoPush}
  /\ pull \in [Tasks -> Item] \cup {NoPull}
  /\ request \in Request \cup {NoRequest}
  /\ touches \in 0..MaxTouches

\* What the worker sends is what the row holds, from its first read to its
\* commit: nobody changes a task whose push is on its way, and the lease holds.
PushOwnsRow ==
  push # NoPush =>
    task[push.t].state = "syncing" /\ Copied(task[push.t]) = push.copy

\* A recorded conflict names a state of the item that the task has not taken
\* over, although pulls read their page long before they write (_record_conflict).
ConflictIsNewer ==
  \A t \in Tasks : task[t].state = "conflict" => task[t].conflictAt > task[t].known

\* "Local pending or already conflicting: never silently overwrite": only an
\* edit of the task changes the description of one that waits for its push.
PendingKept ==
  [][\A t \in Tasks :
       /\ task[t].state \in {"pending_push", "syncing", "conflict"}
       /\ task'[t].desc # task[t].desc
       => request.kind = "update" /\ request' = NoRequest]_vars

\* A lease ends, whatever crashes: no task stays in syncing.
LeaseEnds ==
  \A t \in Tasks : task[t].state = "syncing" ~> task[t].state # "syncing"

\* A task that the worker does not touch again and the users see.
Resting(t) ==
  \/ task[t].state = "conflict"
  \/ task[t].state = "error" /\ (task[t].attempts = MaxAttempts \/ task[t].archived)

\* An edited description is sent, or given up where the users see it.
EditsLeaveQueue == \A t \in Tasks : t \in unsent ~> t \notin unsent \/ Resting(t)

\* "the task is re-queued instead of being marked synced": a push that GitHub
\* accepted ends in pending_push or in synced (github_sync_service.py).
PushSettles ==
  [][push.phase = "refresh" /\ push' = NoPush /\ touches' = touches
     => task'[push.t].state \in {"pending_push", "synced"}]_vars

=============================================================================
