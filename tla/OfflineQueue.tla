----------------------------- MODULE OfflineQueue -----------------------------
(***************************************************************************)
(* lib/offlineQueue.ts and features/time-entries/useOfflineQueue.ts: the   *)
(* browser's queue of time entries that the server has not confirmed, and  *)
(* the loop that sends them.                                               *)
(*                                                                         *)
(* Every open tab has a list of its own, which it loads once and writes    *)
(* over the stored one at each change.  The loop of a tab sends the items  *)
(* of a snapshot one after the other.  A request that the browser has      *)
(* given up (no connection, 20 seconds, the tab closed) may have been     *)
(* executed, may be executed later, or never.  Any time may pass between   *)
(* two attempts of an item, and between a load and the next: an item of    *)
(* seven days is dropped by the next load, whatever its status.            *)
(***************************************************************************)
EXTENDS Integers, FiniteSets, Functions

CONSTANTS
  Tab,
  Key,          \* client idempotency keys: one for each entry that is saved
  KeysOf,       \* KeysOf[t]: the keys that the drawer of the tab makes
  NoKey, NoTab,
  MaxAttempts   \* MAX_AUTO_ATTEMPTS

ASSUME QueueAssumption ==
  /\ KeysOf \in [Tab -> SUBSET Key]
  /\ NoKey \notin Key /\ NoTab \notin Tab
  /\ MaxAttempts \in Nat \ {0}

VARIABLES
  online,     \* navigator.onLine
  stored,     \* the list in localStorage
  tab,        \* tab[t]: is it open, its list, the items it loaded as syncing, what its loop
              \* has still to send, and what it sends
  made,       \* the keys that the server has made an entry of
  old,        \* the items that a load found to be created more than MAX_AGE_MS ago
  late,       \* keys of requests that nobody waits for any more
  queuedIn,   \* history: the tab, open since, that queued the entry
  fate,       \* history: fate[k]: "new", or "queued" ever since, or "discarded" by the user
  shared      \* history: have two tabs been open at once?

queueVars == <<online, stored, tab, made, old, late, queuedIn, fate, shared>>
historyVars == <<queuedIn, fate, shared>>

\* An item failed may be sent again (its error is retryable), one refused may
\* not.  The attempts of an item that is not to be sent any more are not kept.
Status == {"none", "pending", "syncing", "saved", "failed", "refused", "conflict"}
Item == [status : Status, attempts : 0..MaxAttempts]
Fresh(status) == [status |-> status, attempts |-> 0]
Absent == Fresh("none")
List == [Key -> Item]
Empty == [k \in Key |-> Absent]
Closed == [open |-> FALSE, items |-> Empty, adrift |-> {},
           todo |-> [k \in {} |-> 0], sending |-> NoKey]

QueueInit ==
  /\ online = TRUE /\ stored = Empty /\ tab = [t \in Tab |-> Closed]
  /\ made = {} /\ old = {} /\ late = {}
  /\ queuedIn = [k \in Key |-> NoTab]
  /\ fate = [k \in Key |-> "new"] /\ shared = FALSE

\* Mutant: items that were being sent are dropped too.
LoadedIdle(aged) ==
  [k \in Key |-> IF stored[k].status \in {"saved", "syncing"} \/ k \in aged THEN Absent
                 ELSE stored[k]]

\* load: what had been saved before the reload is dropped, and what is aged.  The
\* stored list keeps it until this tab stores its own.
Loaded(aged) ==
  [k \in Key |-> IF stored[k].status = "saved" \/ k \in aged THEN Absent ELSE stored[k]]

\* Only a load looks at the age of an item, so any that it finds may have passed
\* the seven days by then; createdAt is stored, so that it stays too old.
OpenTab(t) ==
  /\ ~tab[t].open
  /\ \E aged \in SUBSET {k \in Key : stored[k].status \notin {"none", "saved"}} :
       old' = old \cup aged
  /\ tab' = [tab EXCEPT ![t] =
       [Closed EXCEPT !.open = TRUE, !.items = Loaded(old'),
                      !.adrift = {k \in Key : Loaded(old')[k].status = "syncing"}]]
  /\ shared' = (shared \/ \E u \in Tab : tab[u].open)
  /\ UNCHANGED <<online, stored, made, late, queuedIn, fate>>

CloseTab(t) ==
  /\ tab[t].open
  /\ tab' = [tab EXCEPT ![t] = Closed]
  /\ late' = late \cup ({tab[t].sending} \ {NoKey})
  /\ queuedIn' = [k \in Key |-> IF queuedIn[k] = t THEN NoTab ELSE queuedIn[k]]
  /\ UNCHANGED <<online, old, stored, made, fate, shared>>

\* persist: a list that has changed becomes the stored one, whatever another
\* tab has stored.
Change(t, row) ==
  /\ tab' = [tab EXCEPT ![t] = row]
  /\ stored' = IF row.items = tab[t].items THEN stored ELSE row.items

\* Mutant: an item that is not in the list any more is put back.
UpdatedAnyway(items, k, item) == [items EXCEPT ![k] = item]

\* offlineQueue.update: an item that is not in the list any more stays out of it.
Updated(items, k, item) ==
  IF items[k].status = "none" THEN items ELSE [items EXCEPT ![k] = item]

Enqueue(t, k, item) ==
  /\ Change(t, [tab[t] EXCEPT !.items[k] = item])
  /\ queuedIn' = [queuedIn EXCEPT ![k] = t]
  /\ fate' = [fate EXCEPT ![k] = "queued"]

\* create_entry: a key that has an entry is answered with that entry.
Executed(k) == made' = made \cup {k}

\* The drawer saves a new entry: to the queue when the browser knows that it is
\* offline; otherwise to the server, and to the queue when that gave no answer.
\* (An entry that the server refuses stays in the form.)
SaveEntry(t, k) ==
  /\ tab[t].open /\ k \in KeysOf[t]
  /\ fate[k] = "new" /\ k \notin late /\ k \notin made
  /\ \/ ~online /\ Enqueue(t, k, Fresh("pending")) /\ UNCHANGED <<made, late>>
     \/ online /\ Enqueue(t, k, Fresh("failed")) /\ late' = late \cup {k} /\ UNCHANGED made
     \/ online /\ Executed(k) /\ UNCHANGED <<stored, tab, late, queuedIn, fate>>
  /\ UNCHANGED <<online, old, shared>>

\* Mutants: a failed item is sent without end, or never by itself.
EligibleEver(items) == {k \in Key : items[k].status \in {"pending", "failed"}}
EligiblePending(items) == {k \in Key : items[k].status = "pending"}

\* flush: the items of the snapshot that may be sent, each with its attempts so
\* far; of those that failed, the ones whose time has come.
Eligible(items) ==
  {k \in Key : items[k].status \in {"pending", "failed"} /\ items[k].attempts < MaxAttempts}
Running(t) == DOMAIN tab[t].todo # {} \/ tab[t].sending # NoKey

Flush(t) ==
  /\ tab[t].open /\ online /\ ~Running(t)
  /\ \E due \in SUBSET Eligible(tab[t].items) :
       /\ due # {}
       /\ \A k \in Eligible(tab[t].items) : tab[t].items[k].status = "pending" => k \in due
       /\ tab' = [tab EXCEPT ![t].todo = [k \in due |-> tab[t].items[k].attempts]]
  /\ UNCHANGED <<online, old, stored, made, late, historyVars>>

\* Mutant: the loop does not wait for an answer before it sends the next item.
SendOn(t) ==
  /\ \E k \in DOMAIN tab[t].todo :
       Change(t, [tab[t] EXCEPT
         !.items = Updated(@, k, [status |-> "syncing", attempts |-> tab[t].todo[k] + 1]),
         !.todo = Restrict(@, DOMAIN @ \ {k}),
         !.sending = k])
  /\ UNCHANGED <<online, old, made, late, historyVars>>

Send(t) ==
  /\ tab[t].sending = NoKey
  /\ \E k \in DOMAIN tab[t].todo :
       Change(t, [tab[t] EXCEPT
         !.items = Updated(@, k, [status |-> "syncing", attempts |-> tab[t].todo[k] + 1]),
         !.todo = Restrict(@, DOMAIN @ \ {k}),
         !.sending = k])
  /\ UNCHANGED <<online, old, made, late, historyVars>>

\* What the loop makes of an answer.
Settle(t, item) ==
  Change(t, [tab[t] EXCEPT !.items = Updated(@, tab[t].sending, item), !.sending = NoKey])

\* Mutant: a conflict is taken for an entry that is already there.
AnsweredExists(t) ==
  LET k == tab[t].sending IN
  /\ k # NoKey
  /\ \/ online /\ Executed(k) /\ Settle(t, Fresh("saved")) /\ UNCHANGED late
     \/ online /\ k \notin made /\ Settle(t, Fresh("saved")) /\ UNCHANGED <<made, late>>
     \/ online /\ Settle(t, Fresh("refused")) /\ UNCHANGED <<made, late>>
     \/ /\ Settle(t, [status |-> "failed", attempts |-> tab[t].items[k].attempts])
        /\ late' = late \cup {k} /\ UNCHANGED made
  /\ UNCHANGED <<online, old, historyVars>>

Answered(t) ==
  LET k == tab[t].sending IN
  /\ k # NoKey
  /\ \/ online /\ Executed(k) /\ Settle(t, Fresh("saved")) /\ UNCHANGED late
     \/ online /\ k \notin made /\ Settle(t, Fresh("conflict")) /\ UNCHANGED <<made, late>>
     \/ online /\ Settle(t, Fresh("refused")) /\ UNCHANGED <<made, late>>
     \/ /\ Settle(t, [status |-> "failed", attempts |-> tab[t].items[k].attempts])
        /\ late' = late \cup {k} /\ UNCHANGED made
  /\ UNCHANGED <<online, old, historyVars>>

\* Mutant: an item that was refused is taken off too.
DropOver(t) ==
  /\ \E k \in Key : /\ tab[t].items[k].status \in {"saved", "refused"}
                    /\ Change(t, [tab[t] EXCEPT !.items[k] = Absent])
  /\ UNCHANGED <<online, old, made, late, historyVars>>

\* A saved item is taken off the list after 2.5 seconds.
DropSaved(t) ==
  /\ \E k \in Key : /\ tab[t].items[k].status = "saved"
                    /\ Change(t, [tab[t] EXCEPT !.items[k] = Absent])
  /\ UNCHANGED <<online, old, made, late, historyVars>>

Retry(t, k) ==
  /\ tab[t].items[k].status \in {"failed", "refused"}
  /\ Change(t, [tab[t] EXCEPT !.items[k] = Fresh("pending")])
  /\ UNCHANGED <<online, old, made, late, historyVars>>

Discard(t, k) ==
  /\ tab[t].items[k].status \in {"pending", "failed", "refused", "conflict"}
  /\ Change(t, [tab[t] EXCEPT !.items[k] = Absent])
  /\ fate' = [fate EXCEPT ![k] = "discarded"]
  /\ UNCHANGED <<online, old, made, late, queuedIn, shared>>

\* A request that nobody waits for reaches the server, or is lost or refused.
Arrive(k) ==
  /\ k \in late /\ late' = late \ {k}
  /\ Executed(k) \/ UNCHANGED made
  /\ UNCHANGED <<online, old, stored, tab, historyVars>>

SwitchConnection ==
  online' = ~online /\ UNCHANGED <<old, stored, tab, made, late, historyVars>>

QueueNext ==
  \/ SwitchConnection
  \/ \E k \in Key : Arrive(k)
  \/ \E t \in Tab :
       \/ OpenTab(t) \/ CloseTab(t)
       \/ Flush(t) \/ Send(t) \/ Answered(t) \/ DropSaved(t)
       \/ \E k \in Key : SaveEntry(t, k) \/ Retry(t, k) \/ Discard(t, k)

\* The interval of the hook, and its effect as soon as the browser is online
\* again; the 20 seconds of a request.
QueueSpec ==
  /\ QueueInit /\ [][QueueNext]_queueVars
  /\ \A t \in Tab : SF_queueVars(Flush(t)) /\ WF_queueVars(Send(t)) /\ WF_queueVars(Answered(t))

----------------------------------------------------------------------------

\* What a loop has still to send: the attempts so far of each such item.
Todo == UNION {[D -> 0..(MaxAttempts - 1)] : D \in SUBSET Key}
TabRow == [open : BOOLEAN, items : List, adrift : SUBSET Key, todo : Todo,
           sending : Key \cup {NoKey}]

\* Type invariant: lists and what the loops have taken from them are of their
\* kinds, only queued items grow old, and no item is given more attempts than
\* allowed.
TypeOK ==
  /\ online \in BOOLEAN /\ stored \in List /\ late \subseteq Key
  /\ made \subseteq Key /\ old \subseteq {k \in Key : fate[k] # "new"}
  /\ tab \in [Tab -> TabRow]
  /\ queuedIn \in [Key -> Tab \cup {NoTab}]
  /\ fate \in [Key -> {"new", "queued", "discarded"}] /\ shared \in BOOLEAN

Resolved(k) == k \in made \/ fate[k] = "discarded"

\* As long as no two tabs have been open at once, what the user has discarded
\* stays off the list and out of the storage: the loop goes on with a snapshot
\* that still has the item, sends it and writes back what comes of it (flush,
\* offlineQueue.update).
DiscardedStaysAway ==
  ~shared => \A k \in Key : fate[k] = "discarded" =>
    stored[k].status = "none" /\ \A t \in Tab : tab[t].items[k].status = "none"

\* What a list shows as saved, and will drop, is on the server.
SavedIsStored ==
  \A k \in Key : \A items \in {stored} \cup {tab[t].items : t \in Tab} :
    items[k].status = "saved" => k \in made

\* While the tab that queued an entry stays open ("Please keep this tab open",
\* OfflineQueueBanner), its list has the entry until the server has it or the
\* user discards it, whatever the other tabs write over the stored list.
KeptWhileOpen ==
  \A k \in Key : queuedIn[k] # NoTab =>
    tab[queuedIn[k]].items[k].status # "none" \/ Resolved(k)

\* As long as no two tabs have been open at once, a queued entry survives the
\* closing of its tab at any moment ("Saved on this device", TimeEntryDrawer):
\* it is in the stored list until the server has it or the user discards it, for
\* seven days.  (An older one is gone with the first list stored after a load.)
SurvivesClosing ==
  ~shared => \A k \in Key : fate[k] = "queued" =>
    stored[k].status # "none" \/ k \in made \/ k \in old

\* An item is marked as being sent only in the tab whose loop sends it, or in
\* one that has loaded it with that mark: the loop never leaves one behind.
SyncingIsSent ==
  \A t \in Tab, k \in Key :
    tab[t].items[k].status = "syncing" => k = tab[t].sending \/ k \in tab[t].adrift

Waiting(t, k) ==
  tab[t].items[k].status \in {"pending", "failed"} /\ tab[t].items[k].attempts < MaxAttempts
Drained(t) ==
  ~tab[t].open \/ \A k \in Key \ tab[t].adrift : tab[t].items[k].status # "syncing" /\ ~Waiting(t, k)

\* The items that wait in an open tab are sent and settled: saved, refused, or
\* left to the user after their automatic attempts, if the browser is online
\* again and again, the tab stays open and the user does not press Retry for
\* ever.  An item that was loaded as syncing is not sent again, and stays.
QueueDrains ==
  []<>online /\ <>[][\A t \in Tab, k \in Key : ~Retry(t, k)]_queueVars =>
    \A t \in Tab : []<>Drained(t)
===============================================================================
