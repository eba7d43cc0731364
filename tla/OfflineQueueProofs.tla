-------------------------- MODULE OfflineQueueProofs --------------------------
(***************************************************************************)
(* Type correctness and the safety properties of OfflineQueue, for any     *)
(* tabs, entries and number of attempts.                                   *)
(***************************************************************************)
EXTENDS OfflineQueue, TLAPS

\* A tab that is not open has nothing.
ClosedTabs == \A t \in Tab : ~tab[t].open => tab[t] = Closed

\* What no tab has queued yet is in no list.
NewUnlisted ==
  \A k \in Key : fate[k] = "new" =>
    /\ stored[k].status = "none"
    /\ \A t \in Tab : tab[t].items[k].status = "none"

QueuedOpen == \A k \in Key : queuedIn[k] # NoTab => tab[queuedIn[k]].open

\* Until two tabs have been open at once, the open one has all that is queued.
OpenAlone ==
  ~shared => \A t \in Tab : tab[t].open =>
    /\ \A u \in Tab : tab[u].open => u = t
    /\ \A k \in Key : fate[k] = "queued" =>
         tab[t].items[k].status # "none" \/ k \in made \/ k \in old

IInv ==
  /\ TypeOK /\ ClosedTabs /\ NewUnlisted /\ QueuedOpen
  /\ DiscardedStaysAway /\ SavedIsStored /\ SyncingIsSent
  /\ KeptWhileOpen /\ OpenAlone /\ SurvivesClosing

\* What becomes of an entry in a step of a tab: its fate stays, or the user
\* discards it or the tab queues it, and the tab stores its list.
FateStep(t, k) ==
  \/ queuedIn'[k] = queuedIn[k] /\ fate'[k] = fate[k]
  \/ /\ queuedIn'[k] = queuedIn[k] /\ fate[k] # "new" /\ fate'[k] = "discarded"
     /\ stored' = tab'[t].items /\ tab'[t].items[k].status = "none"
  \/ /\ fate[k] = "new" /\ fate'[k] = "queued" /\ queuedIn'[k] = t
     /\ stored' = tab'[t].items /\ tab'[t].items[k].status # "none"

\* What becomes of an item of the tab.
ItemStep(t, k) ==
  /\ tab'[t].items[k].status = "saved" => k \in made'
  /\ tab'[t].items[k].status = "syncing" => k = tab'[t].sending \/ k \in tab[t].adrift
  /\ tab'[t].items[k].status = "none" =>
       tab[t].items[k].status = "none" \/ k \in made' \/ fate'[k] = "discarded"
  /\ tab[t].items[k].status = "none" =>
       tab'[t].items[k].status = "none" \/ fate'[k] = "queued"

\* A step of one open tab: what its drawer, its loop and its user do.
Edited(t) ==
  /\ TypeOK'
  /\ tab[t].open /\ tab'[t].open /\ tab'[t].adrift = tab[t].adrift
  /\ \A u \in Tab \ {t} : tab'[u] = tab[u]
  /\ \/ tab'[t].items = tab[t].items /\ stored' = stored
     \/ stored' = tab'[t].items
  /\ made \subseteq made' /\ old' = old /\ shared' = shared
  /\ \A k \in Key : FateStep(t, k) /\ ItemStep(t, k)

LEMMA EditedKeeps ==
  ASSUME IInv, NEW t \in Tab, Edited(t)
  PROVE  IInv'
<1>. USE QueueAssumption
<1>1. TypeOK'
  BY DEF Edited
<1>2. ClosedTabs'
  BY DEF IInv, ClosedTabs, Edited, Closed
<1>3. NewUnlisted'
  <2>. SUFFICES ASSUME NEW k \in Key, fate'[k] = "new"
                PROVE  /\ stored'[k].status = "none"
                       /\ \A u \in Tab : tab'[u].items[k].status = "none"
    BY DEF NewUnlisted
  <2>1. fate[k] = "new"
    BY DEF Edited, FateStep
  <2>2. /\ stored[k].status = "none"
        /\ \A u \in Tab : tab[u].items[k].status = "none"
    BY <2>1 DEF IInv, NewUnlisted
  <2>3. tab'[t].items[k].status = "none"
    BY <2>2 DEF Edited, ItemStep
  <2>. QED BY <2>2, <2>3 DEF Edited
<1>4. QueuedOpen'
  <2>. SUFFICES ASSUME NEW k \in Key, queuedIn'[k] # NoTab
                PROVE  tab'[queuedIn'[k]].open
    BY DEF QueuedOpen
  <2>1. queuedIn'[k] \in {queuedIn[k], t}
    BY DEF Edited, FateStep
  <2>2. queuedIn[k] # NoTab => queuedIn[k] \in Tab /\ tab[queuedIn[k]].open
    BY DEF IInv, QueuedOpen, TypeOK
  <2>. QED BY <2>1, <2>2 DEF Edited
<1>5. DiscardedStaysAway'
  <2>. SUFFICES ASSUME ~shared, NEW k \in Key, fate'[k] = "discarded"
                PROVE  /\ stored'[k].status = "none"
                       /\ \A u \in Tab : tab'[u].items[k].status = "none"
    BY DEF DiscardedStaysAway, Edited
  <2>1. FateStep(t, k) /\ ItemStep(t, k)
    BY DEF Edited
  <2>2. CASE fate[k] = "discarded"
    <3>1. stored[k].status = "none" /\ \A u \in Tab : tab[u].items[k].status = "none"
      BY <2>2 DEF IInv, DiscardedStaysAway
    <3>2. tab'[t].items[k].status = "none"
      BY <3>1, <2>1 DEF ItemStep
    <3>. QED BY <3>1, <3>2 DEF Edited
  <2>3. CASE stored' = tab'[t].items /\ tab'[t].items[k].status = "none"
    <3>1. ASSUME NEW u \in Tab, u # t PROVE tab'[u].items[k].status = "none"
      <4>1. ~tab[u].open
        BY <3>1 DEF IInv, OpenAlone, Edited
      <4>2. tab'[u] = Closed
        BY <3>1, <4>1 DEF IInv, ClosedTabs, Edited
      <4>. QED BY <4>2 DEF Closed, Empty, Absent, Fresh
    <3>. QED BY <2>3, <3>1
  <2>. QED BY <2>1, <2>2, <2>3 DEF FateStep
<1>6. SavedIsStored'
  <2>. SUFFICES ASSUME NEW k \in Key
                PROVE  /\ stored'[k].status = "saved" => k \in made'
                       /\ \A u \in Tab : tab'[u].items[k].status = "saved" => k \in made'
    BY DEF SavedIsStored
  <2>1. /\ stored[k].status = "saved" => k \in made
        /\ \A u \in Tab : tab[u].items[k].status = "saved" => k \in made
    BY DEF IInv, SavedIsStored
  <2>2. k \in made => k \in made'
    BY DEF Edited
  <2>3. tab'[t].items[k].status = "saved" => k \in made'
    BY DEF Edited, ItemStep
  <2>. QED BY <2>1, <2>2, <2>3 DEF Edited
<1>7. SyncingIsSent'
  <2>. SUFFICES ASSUME NEW u \in Tab, NEW k \in Key, tab'[u].items[k].status = "syncing"
                PROVE  k = tab'[u].sending \/ k \in tab'[u].adrift
    BY DEF SyncingIsSent
  <2>1. CASE u = t
    BY <2>1 DEF Edited, ItemStep
  <2>2. CASE u # t
    BY <2>2 DEF Edited, IInv, SyncingIsSent
  <2>. QED BY <2>1, <2>2
<1>8. KeptWhileOpen'
  <2>. SUFFICES ASSUME NEW k \in Key, queuedIn'[k] # NoTab
                PROVE  \/ tab'[queuedIn'[k]].items[k].status # "none"
                       \/ k \in made' \/ fate'[k] = "discarded"
    BY DEF KeptWhileOpen, Resolved
  <2>0. FateStep(t, k) /\ ItemStep(t, k) /\ (k \in made => k \in made')
    BY DEF Edited
  <2>1. CASE queuedIn'[k] = queuedIn[k] /\ fate'[k] = fate[k]
    <3>1. queuedIn[k] \in Tab
      BY <2>1 DEF IInv, TypeOK
    <3>2. tab[queuedIn[k]].items[k].status # "none" \/ k \in made \/ fate[k] = "discarded"
      BY <2>1 DEF IInv, KeptWhileOpen, Resolved
    <3>3. CASE k \in made \/ fate[k] = "discarded"
      BY <3>3, <2>1, <2>0
    <3>4. CASE tab[queuedIn[k]].items[k].status # "none" /\ queuedIn[k] = t
      BY <3>4, <2>1, <2>0 DEF ItemStep
    <3>5. CASE tab[queuedIn[k]].items[k].status # "none" /\ queuedIn[k] # t
      BY <3>5, <3>1, <2>1 DEF Edited
    <3>. QED BY <3>2, <3>3, <3>4, <3>5
  <2>2. CASE \/ fate'[k] = "discarded"
             \/ queuedIn'[k] = t /\ tab'[t].items[k].status # "none"
    BY <2>2
  <2>. QED BY <2>0, <2>1, <2>2 DEF FateStep
<1>9. ASSUME NEW k \in Key, ~shared, fate'[k] = "queued"
      PROVE  tab'[t].items[k].status # "none" \/ k \in made' \/ k \in old
  <2>0. FateStep(t, k) /\ ItemStep(t, k) /\ (k \in made => k \in made')
    BY DEF Edited
  <2>1. CASE fate[k] = "queued"
    <3>1. tab[t].items[k].status # "none" \/ k \in made \/ k \in old
      BY <1>9, <2>1 DEF IInv, OpenAlone, Edited
    <3>. QED BY <3>1, <2>0, <1>9 DEF ItemStep
  <2>. QED BY <2>0, <2>1, <1>9 DEF FateStep
<1>10. OpenAlone'
  <2>. SUFFICES ASSUME ~shared, NEW v \in Tab, tab'[v].open
                PROVE  /\ \A u \in Tab : tab'[u].open => u = v
                       /\ \A k \in Key : fate'[k] = "queued" =>
                            tab'[v].items[k].status # "none" \/ k \in made' \/ k \in old
    BY DEF OpenAlone, Edited
  <2>1. \A u \in Tab : tab'[u].open => tab[u].open
    BY DEF Edited
  <2>2. \A u \in Tab : tab'[u].open => u = t
    BY <2>1 DEF IInv, OpenAlone, Edited
  <2>. QED BY <2>2, <1>9
<1>11. SurvivesClosing'
  <2>. SUFFICES ASSUME ~shared, NEW k \in Key, fate'[k] = "queued"
                PROVE  stored'[k].status # "none" \/ k \in made' \/ k \in old
    BY DEF SurvivesClosing, Edited
  <2>0. FateStep(t, k) /\ (k \in made => k \in made')
    BY DEF Edited
  <2>1. CASE stored' = tab'[t].items
    BY <2>1, <1>9
  <2>2. CASE stored' = stored /\ fate[k] = "queued"
    <3>1. stored[k].status # "none" \/ k \in made \/ k \in old
      BY <2>2 DEF IInv, SurvivesClosing
    <3>. QED BY <3>1, <2>2, <2>0
  <2>. QED BY <2>0, <2>1, <2>2 DEF Edited, FateStep
<1>. QED BY <1>1, <1>2, <1>3, <1>4, <1>5, <1>6, <1>7, <1>8, <1>10, <1>11 DEF IInv

-----------------------------------------------------------------------------
\* The steps of a tab

LEMMA FreshItem ==
  ASSUME NEW status \in Status
  PROVE  Fresh(status) \in Item /\ Fresh(status).status = status
<1>1. 0 \in 0..MaxAttempts
  BY QueueAssumption
<1>. QED BY <1>1 DEF Fresh, Item

LEMMA ItemMade ==
  ASSUME NEW status \in Status, NEW n \in 0..MaxAttempts
  PROVE  /\ [status |-> status, attempts |-> n] \in Item
         /\ [status |-> status, attempts |-> n].status = status
BY DEF Item

LEMMA UpdatedList ==
  ASSUME NEW items \in List, NEW k \in Key, NEW item \in Item
  PROVE  /\ Updated(items, k, item) \in List
         /\ \A j \in Key : Updated(items, k, item)[j] =
              IF j = k /\ items[k].status # "none" THEN item ELSE items[j]
BY DEF Updated, List

\* A change of the list of a tab, as far as the other tabs and the stored list go.
LEMMA ChangedRow ==
  ASSUME TypeOK, NEW t \in Tab, NEW row \in TabRow, Change(t, row)
  PROVE  /\ tab' \in [Tab -> TabRow] /\ stored' \in List
         /\ tab'[t] = row /\ \A u \in Tab \ {t} : tab'[u] = tab[u]
         /\ \/ row.items = tab[t].items /\ stored' = stored
            \/ stored' = row.items
         /\ row.items # tab[t].items => stored' = row.items
<1>1. tab \in [Tab -> TabRow] /\ stored \in List /\ row.items \in List
  BY DEF TypeOK, TabRow
<1>. QED BY <1>1 DEF Change

\* A step that sets one item of the list of a tab.
LEMMA ItemChanged ==
  ASSUME TypeOK, NEW t \in Tab, NEW k \in Key, NEW item \in Item,
         Change(t, [tab[t] EXCEPT !.items[k] = item])
  PROVE  /\ tab' \in [Tab -> TabRow] /\ stored' \in List
         /\ \A u \in Tab \ {t} : tab'[u] = tab[u]
         /\ tab'[t].open = tab[t].open /\ tab'[t].adrift = tab[t].adrift
         /\ tab'[t].sending = tab[t].sending /\ tab'[t].items[k] = item
         /\ \A j \in Key : j # k => tab'[t].items[j] = tab[t].items[j]
         /\ \/ tab'[t].items = tab[t].items /\ stored' = stored
            \/ stored' = tab'[t].items
         /\ tab'[t].items # tab[t].items => stored' = tab'[t].items
<1>1. PICK r \in TabRow : r = tab[t]
  BY DEF TypeOK
<1>2. PICK next : next = [r EXCEPT !.items = [r.items EXCEPT ![k] = item]]
  OBVIOUS
<1>3. /\ next \in TabRow /\ next.open = r.open /\ next.adrift = r.adrift
      /\ next.sending = r.sending /\ next.items[k] = item
      /\ \A j \in Key : j # k => next.items[j] = r.items[j]
  <2>1. r.items \in List /\ [r.items EXCEPT ![k] = item] \in List
    BY DEF TabRow, List
  <2>2. /\ [r.items EXCEPT ![k] = item][k] = item
        /\ \A j \in Key : j # k => [r.items EXCEPT ![k] = item][j] = r.items[j]
    BY <2>1 DEF List
  <2>. QED BY <1>2, <2>1, <2>2 DEF TabRow
<1>4. next = [tab[t] EXCEPT !.items[k] = item]
  BY <1>1, <1>2 DEF TabRow
<1>5. Change(t, next)
  BY <1>4
<1>. QED BY <1>1, <1>3, <1>5, ChangedRow

\* A tab in whose list something is, or whose loop works, is open.
LEMMA BusyOpen ==
  ASSUME IInv, NEW t \in Tab,
         \/ \E k \in Key : tab[t].items[k].status # "none"
         \/ tab[t].sending # NoKey
         \/ \E k \in Key : k \in DOMAIN tab[t].todo
  PROVE  tab[t].open
BY DEF IInv, ClosedTabs, Closed, Empty, Absent, Fresh

\* A step that sets an item in the list of a tab and leaves the server alone.
LEMMA SetKeeps ==
  ASSUME IInv, NEW t \in Tab, NEW k \in Key, NEW item \in Item, tab[t].open,
         Change(t, [tab[t] EXCEPT !.items[k] = item]),
         item.status \notin {"saved", "syncing"},
         UNCHANGED <<online, old, made, shared>>, late' \subseteq Key,
         queuedIn' \in [Key -> Tab \cup {NoTab}],
         fate' \in [Key -> {"new", "queued", "discarded"}],
         \A j \in Key \ {k} : queuedIn'[j] = queuedIn[j] /\ fate'[j] = fate[j],
         \/ /\ fate[k] = "new" /\ fate'[k] = "queued" /\ queuedIn'[k] = t
            /\ item.status # "none"
         \/ /\ queuedIn'[k] = queuedIn[k] /\ fate'[k] = fate[k]
            /\ tab[t].items[k].status # "none"
            /\ item.status = "none" => k \in made
         \/ /\ queuedIn'[k] = queuedIn[k] /\ fate'[k] = "discarded"
            /\ tab[t].items[k].status # "none" /\ item.status = "none"
  PROVE  IInv'
<1>0. TypeOK /\ tab[t] \in TabRow
  BY DEF IInv, TypeOK
<1>1. /\ tab' \in [Tab -> TabRow] /\ stored' \in List
      /\ \A u \in Tab \ {t} : tab'[u] = tab[u]
      /\ tab'[t].open = tab[t].open /\ tab'[t].adrift = tab[t].adrift
      /\ tab'[t].sending = tab[t].sending /\ tab'[t].items[k] = item
      /\ \A j \in Key : j # k => tab'[t].items[j] = tab[t].items[j]
      /\ \/ tab'[t].items = tab[t].items /\ stored' = stored
         \/ stored' = tab'[t].items
      /\ tab'[t].items # tab[t].items => stored' = tab'[t].items
  BY <1>0, ItemChanged
<1>2. TypeOK'
  BY <1>0, <1>1 DEF TypeOK
<1>3. made \subseteq made' /\ old' = old
  OBVIOUS
<1>4. ASSUME NEW j \in Key
      PROVE  FateStep(t, j)
  <2>1. CASE j # k
    BY <2>1, <1>0 DEF FateStep, TypeOK
  <2>2. CASE fate[k] = "new" /\ fate'[k] = "queued" /\ queuedIn'[k] = t /\ item.status # "none"
    <3>1. tab'[t].items # tab[t].items
      BY <2>2, <1>1 DEF IInv, NewUnlisted
    <3>. QED BY <3>1, <2>1, <2>2, <1>1 DEF FateStep
  <2>3. CASE queuedIn'[k] = queuedIn[k] /\ fate'[k] = fate[k]
    BY <2>1, <2>3 DEF FateStep
  <2>4. CASE /\ queuedIn'[k] = queuedIn[k] /\ fate'[k] = "discarded"
             /\ tab[t].items[k].status # "none" /\ item.status = "none"
    <3>1. tab'[t].items # tab[t].items
      BY <2>4, <1>1
    <3>2. fate[k] # "new"
      BY <2>4 DEF IInv, NewUnlisted
    <3>. QED BY <3>1, <3>2, <2>1, <2>4, <1>1 DEF FateStep
  <2>. QED BY <2>1, <2>2, <2>3, <2>4
<1>5. ASSUME NEW j \in Key
      PROVE  ItemStep(t, j)
  <2>1. CASE j # k
    <3>1. tab'[t].items[j] = tab[t].items[j] /\ tab'[t].sending = tab[t].sending
      BY <2>1, <1>1
    <3>2. /\ tab[t].items[j].status = "saved" => j \in made
          /\ tab[t].items[j].status = "syncing" => j = tab[t].sending \/ j \in tab[t].adrift
      BY DEF IInv, SavedIsStored, SyncingIsSent
    <3>. QED BY <3>1, <3>2 DEF ItemStep
  <2>2. CASE j = k
    <3>1. tab'[t].items[k] = item
      BY <1>1
    <3>2. fate[k] = "new" => tab[t].items[k].status = "none"
      BY DEF IInv, NewUnlisted
    <3>. QED BY <2>2, <3>1, <3>2 DEF ItemStep
  <2>. QED BY <2>1, <2>2
<1>6. Edited(t)
  BY <1>1, <1>2, <1>3, <1>4, <1>5 DEF Edited
<1>. QED BY <1>6, EditedKeeps

\* A step of the loop: one item of the list, if it is still there, what is left
\* to send and what is sent.
LoopChange(t, k, item, todo, sending) ==
  Change(t, [tab[t] EXCEPT !.items = Updated(tab[t].items, k, item),
                           !.todo = todo, !.sending = sending])

\* What it changes.
LoopStep(t, k, item, sending) ==
  /\ tab' \in [Tab -> TabRow] /\ stored' \in List
  /\ \A u \in Tab \ {t} : tab'[u] = tab[u]
  /\ tab'[t].open = tab[t].open /\ tab'[t].adrift = tab[t].adrift
  /\ tab'[t].sending = sending
  /\ \A j \in Key : tab'[t].items[j] =
       IF j = k /\ tab[t].items[k].status # "none" THEN item ELSE tab[t].items[j]
  /\ \/ tab'[t].items = tab[t].items /\ stored' = stored
     \/ stored' = tab'[t].items

LEMMA LoopChanged ==
  ASSUME TypeOK, NEW t \in Tab, NEW k \in Key, NEW item \in Item,
         NEW todo \in Todo, NEW sending \in Key \cup {NoKey},
         LoopChange(t, k, item, todo, sending)
  PROVE  LoopStep(t, k, item, sending)
<1>1. PICK r \in TabRow : r = tab[t]
  BY DEF TypeOK
<1>2. PICK items \in List : items = Updated(r.items, k, item)
  BY UpdatedList DEF TabRow
<1>3. PICK next : next = [r EXCEPT !.items = items, !.todo = todo, !.sending = sending]
  OBVIOUS
<1>4. /\ next \in TabRow /\ next.open = r.open /\ next.adrift = r.adrift
      /\ next.sending = sending /\ next.items = items
  BY <1>3 DEF TabRow
<1>5. Change(t, next)
  BY <1>1, <1>2, <1>3 DEF LoopChange
<1>6. \A j \in Key : items[j] =
        IF j = k /\ r.items[k].status # "none" THEN item ELSE r.items[j]
  BY <1>2, UpdatedList DEF TabRow
<1>7. /\ tab' \in [Tab -> TabRow] /\ stored' \in List
      /\ tab'[t] = next /\ \A u \in Tab \ {t} : tab'[u] = tab[u]
      /\ \/ next.items = tab[t].items /\ stored' = stored
         \/ stored' = next.items
  BY <1>4, <1>5, ChangedRow
<1>. QED BY <1>1, <1>4, <1>6, <1>7 DEF LoopStep

LEMMA LoopKeeps ==
  ASSUME IInv, NEW t \in Tab, NEW k \in Key, NEW item \in Item,
         NEW todo \in Todo, NEW sending \in Key \cup {NoKey},
         LoopChange(t, k, item, todo, sending),
         tab[t].open, tab[t].sending \in {NoKey, k},
         item.status # "none", item.status = "syncing" => sending = k,
         item.status = "saved" => k \in made',
         made' \subseteq Key, made \subseteq made',
         late' \subseteq Key, UNCHANGED <<online, old, queuedIn, fate, shared>>
  PROVE  IInv'
<1>0. TypeOK /\ tab[t] \in TabRow
  BY DEF IInv, TypeOK
<1>1. /\ tab' \in [Tab -> TabRow] /\ stored' \in List
      /\ \A u \in Tab \ {t} : tab'[u] = tab[u]
      /\ tab'[t].open = tab[t].open /\ tab'[t].adrift = tab[t].adrift
      /\ tab'[t].sending = sending
      /\ \A j \in Key : tab'[t].items[j] =
           IF j = k /\ tab[t].items[k].status # "none" THEN item ELSE tab[t].items[j]
      /\ \/ tab'[t].items = tab[t].items /\ stored' = stored
         \/ stored' = tab'[t].items
  <2>1. LoopStep(t, k, item, sending)
    BY <1>0, LoopChanged
  <2>. QED BY <2>1 DEF LoopStep
<1>2. TypeOK'
  BY <1>0, <1>1 DEF TypeOK
<1>3. ASSUME NEW j \in Key
      PROVE  FateStep(t, j)
  BY DEF FateStep
<1>4. ASSUME NEW j \in Key
      PROVE  ItemStep(t, j)
  <2>1. CASE j = k /\ tab[t].items[k].status # "none"
    <3>1. tab'[t].items[j] = item
      BY <1>1, <2>1
    <3>. QED BY <3>1, <2>1, <1>1 DEF ItemStep
  <2>2. CASE ~(j = k /\ tab[t].items[k].status # "none")
    <3>1. tab'[t].items[j] = tab[t].items[j]
      BY <1>1, <2>2
    <3>2. /\ tab[t].items[j].status = "saved" => j \in made
          /\ tab[t].items[j].status = "syncing" => j = tab[t].sending \/ j \in tab[t].adrift
      BY DEF IInv, SavedIsStored, SyncingIsSent
    <3>3. tab[t].items[j].status = "syncing" => j # tab[t].sending
      BY <2>2, QueueAssumption
    <3>4. j \in made => j \in made'
      BY <1>0 DEF TypeOK
    <3>. QED BY <3>1, <3>2, <3>3, <3>4 DEF ItemStep
  <2>. QED BY <2>1, <2>2
<1>5. Edited(t)
  BY <1>1, <1>2, <1>3, <1>4 DEF Edited
<1>. QED BY <1>5, EditedKeeps

LEMMA ExecutedMakes ==
  ASSUME TypeOK, NEW k \in Key, Executed(k)
  PROVE  made' \subseteq Key /\ made \subseteq made' /\ k \in made'
BY DEF TypeOK, Executed

\* A step that changes the entries of the server and the requests that nobody
\* waits for, only.
LEMMA ServerKeeps ==
  ASSUME IInv, made' \subseteq Key, made \subseteq made',
         late' \subseteq Key, online' \in BOOLEAN, UNCHANGED <<old, stored, tab, historyVars>>
  PROVE  IInv'
<1>1. TypeOK'
  BY DEF IInv, TypeOK, historyVars
<1>2. ClosedTabs' /\ NewUnlisted' /\ QueuedOpen' /\ SyncingIsSent'
  BY DEF IInv, ClosedTabs, NewUnlisted, QueuedOpen, SyncingIsSent, historyVars
<1>3. DiscardedStaysAway'
  BY DEF IInv, DiscardedStaysAway, historyVars
<1>4. SavedIsStored'
  BY DEF IInv, SavedIsStored
<1>5. KeptWhileOpen'
  BY DEF IInv, KeptWhileOpen, Resolved, historyVars
<1>6. OpenAlone' /\ SurvivesClosing'
  BY DEF IInv, OpenAlone, SurvivesClosing, historyVars
<1>. QED BY <1>1, <1>2, <1>3, <1>4, <1>5, <1>6 DEF IInv

-----------------------------------------------------------------------------
\* One lemma for each action

LEMMA EnqueueKeeps ==
  ASSUME IInv, NEW t \in Tab, NEW k \in Key, NEW status \in {"pending", "failed"},
         tab[t].open, fate[k] = "new", Enqueue(t, k, Fresh(status)),
         UNCHANGED <<online, old, made, shared>>, late' \subseteq Key
  PROVE  IInv'
<1>1. TypeOK
  BY DEF IInv
<1>2. PICK item \in Item : item = Fresh(status) /\ item.status = status
  BY FreshItem DEF Status
<1>3. Change(t, [tab[t] EXCEPT !.items[k] = item])
  BY <1>2 DEF Enqueue
<1>4. /\ queuedIn' = [queuedIn EXCEPT ![k] = t] /\ fate' = [fate EXCEPT ![k] = "queued"]
      /\ queuedIn' \in [Key -> Tab \cup {NoTab}]
      /\ fate' \in [Key -> {"new", "queued", "discarded"}]
      /\ queuedIn'[k] = t /\ fate'[k] = "queued"
      /\ \A j \in Key \ {k} : queuedIn'[j] = queuedIn[j] /\ fate'[j] = fate[j]
  BY <1>1 DEF Enqueue, TypeOK
<1>5. item.status \notin {"none", "saved", "syncing"}
  BY <1>2
<1>. QED BY <1>2, <1>3, <1>4, <1>5, SetKeeps

LEMMA SaveEntryKeeps ==
  ASSUME IInv, NEW t \in Tab, NEW k \in Key, SaveEntry(t, k)
  PROVE  IInv'
<1>0. TypeOK
  BY DEF IInv
<1>1. CASE Enqueue(t, k, Fresh("pending")) /\ UNCHANGED <<made, late>>
  <2>1. late' \subseteq Key
    BY <1>0, <1>1 DEF TypeOK
  <2>. QED BY <1>1, <2>1, EnqueueKeeps DEF SaveEntry
<1>2. CASE Enqueue(t, k, Fresh("failed")) /\ late' = late \cup {k} /\ UNCHANGED made
  <2>1. late' \subseteq Key
    BY <1>0, <1>2 DEF TypeOK
  <2>. QED BY <1>2, <2>1, EnqueueKeeps DEF SaveEntry
<1>3. CASE Executed(k) /\ UNCHANGED <<stored, tab, late, queuedIn, fate>>
  <2>1. made' \subseteq Key /\ made \subseteq made'
    BY <1>0, <1>3, ExecutedMakes
  <2>2. late' \subseteq Key /\ online' \in BOOLEAN /\ UNCHANGED <<old, stored, tab, historyVars>>
    BY <1>0, <1>3 DEF SaveEntry, TypeOK, historyVars
  <2>. QED BY <2>1, <2>2, ServerKeeps
<1>. QED BY <1>1, <1>2, <1>3 DEF SaveEntry

LEMMA FlushKeeps ==
  ASSUME IInv, NEW t \in Tab, Flush(t)
  PROVE  IInv'
<1>0. TypeOK
  BY DEF IInv
<1>1. PICK due \in SUBSET Eligible(tab[t].items) :
        tab' = [tab EXCEPT ![t].todo = [k \in due |-> tab[t].items[k].attempts]]
  BY DEF Flush
<1>2. PICK r \in TabRow : r = tab[t]
  BY <1>0 DEF TypeOK
<1>3. PICK todo : todo = [k \in due |-> r.items[k].attempts]
  OBVIOUS
<1>4. todo \in Todo
  <2>1. due \in SUBSET Key
    BY DEF Eligible
  <2>2. ASSUME NEW k \in due
        PROVE  r.items[k].attempts \in 0..(MaxAttempts - 1)
    <3>1. r.items[k] \in Item
      BY <2>1 DEF TabRow, List
    <3>2. r.items[k].attempts < MaxAttempts
      BY <1>2 DEF Eligible
    <3>3. r.items[k].attempts \in 0..MaxAttempts
      BY <3>1 DEF Item
    <3>. QED BY <3>2, <3>3, QueueAssumption
  <2>3. todo \in [due -> 0..(MaxAttempts - 1)]
    BY <1>3, <2>2
  <2>. QED BY <2>1, <2>3 DEF Todo
<1>5. PICK next : next = [r EXCEPT !.todo = todo]
  OBVIOUS
<1>6. /\ next \in TabRow /\ next.open = r.open /\ next.adrift = r.adrift
      /\ next.sending = r.sending /\ next.items = r.items
  BY <1>4, <1>5 DEF TabRow
<1>7. tab' = [tab EXCEPT ![t] = next]
  BY <1>0, <1>1, <1>2, <1>3, <1>5 DEF TypeOK
<1>8. tab' \in [Tab -> TabRow] /\ tab'[t] = next /\ \A u \in Tab \ {t} : tab'[u] = tab[u]
  BY <1>0, <1>6, <1>7 DEF TypeOK
<1>9. TypeOK'
  BY <1>0, <1>8 DEF Flush, TypeOK, historyVars
<1>10. ASSUME NEW k \in Key
       PROVE  FateStep(t, k) /\ ItemStep(t, k) 
  <2>1. UNCHANGED <<made, fate, queuedIn>>
    BY DEF Flush, historyVars
  <2>2. /\ tab[t].items[k].status = "saved" => k \in made
        /\ tab[t].items[k].status = "syncing" => k = tab[t].sending \/ k \in tab[t].adrift
    BY DEF IInv, SavedIsStored, SyncingIsSent
  <2>3. tab'[t].items[k] = tab[t].items[k] /\ tab'[t].sending = tab[t].sending
    BY <1>2, <1>6, <1>8
  <2>. QED BY <2>1, <2>2, <2>3 DEF FateStep, ItemStep
<1>11. /\ tab[t].open /\ tab'[t].open /\ tab'[t].adrift = tab[t].adrift
       /\ tab'[t].items = tab[t].items /\ stored' = stored /\ shared' = shared
       /\ made \subseteq made' /\ old' = old
  BY <1>2, <1>6, <1>8 DEF Flush, historyVars
<1>12. Edited(t)
  BY <1>8, <1>9, <1>10, <1>11 DEF Edited
<1>. QED BY <1>12, EditedKeeps

LEMMA SendKeeps ==
  ASSUME IInv, NEW t \in Tab, Send(t)
  PROVE  IInv'
<1>0. TypeOK
  BY DEF IInv
<1>1. PICK D \in SUBSET Key : tab[t].todo \in [D -> 0..(MaxAttempts - 1)]
  <2>1. tab[t].todo \in Todo
    BY <1>0 DEF TypeOK, TabRow
  <2>. QED BY <2>1 DEF Todo
<1>2. PICK k \in Key :
        /\ k \in DOMAIN tab[t].todo
        /\ Change(t, [tab[t] EXCEPT
             !.items = Updated(tab[t].items, k, [status |-> "syncing", attempts |-> tab[t].todo[k] + 1]),
             !.todo = Restrict(tab[t].todo, DOMAIN tab[t].todo \ {k}),
             !.sending = k])
  BY <1>1 DEF Send
<1>3. tab[t].todo[k] \in 0..(MaxAttempts - 1)
  BY <1>1, <1>2
<1>4. PICK item \in Item :
        item = [status |-> "syncing", attempts |-> tab[t].todo[k] + 1] /\ item.status = "syncing"
  <2>1. tab[t].todo[k] + 1 \in 0..MaxAttempts
    BY <1>3, QueueAssumption
  <2>2. "syncing" \in Status
    BY DEF Status
  <2>. QED BY <2>1, <2>2, ItemMade
<1>5. PICK todo \in Todo : todo = Restrict(tab[t].todo, DOMAIN tab[t].todo \ {k})
  <2>1. Restrict(tab[t].todo, DOMAIN tab[t].todo \ {k}) \in [D \ {k} -> 0..(MaxAttempts - 1)]
    BY <1>1 DEF Restrict
  <2>2. D \ {k} \in SUBSET Key
    OBVIOUS
  <2>. QED BY <2>1, <2>2 DEF Todo
<1>6. PICK sending \in Key \cup {NoKey} :
        /\ sending = k
        /\ LoopChange(t, k, item, todo, sending)
  BY <1>2, <1>4, <1>5 DEF LoopChange
<1>7. tab[t].open
  BY <1>2, BusyOpen
<1>8. made' \subseteq Key /\ made \subseteq made'
  BY <1>0 DEF Send, TypeOK
<1>9. /\ late' \subseteq Key /\ UNCHANGED <<online, old, queuedIn, fate, shared>>
      /\ tab[t].sending \in {NoKey, k}
  BY <1>0 DEF Send, TypeOK, historyVars
<1>10. /\ item.status # "none"
       /\ item.status = "syncing" => sending = k
       /\ item.status = "saved" => k \in made'
  BY <1>4, <1>6
<1>. QED BY <1>6, <1>7, <1>8, <1>9, <1>10, LoopKeeps

\* What the loop makes of an answer to the item it sent.
LEMMA SettleKeeps ==
  ASSUME IInv, NEW t \in Tab, NEW k \in Key, k = tab[t].sending, NEW item \in Item,
         Settle(t, item), item.status \notin {"none", "syncing"},
         item.status = "saved" => k \in made',
         made' \subseteq Key, made \subseteq made',
         late' \subseteq Key, UNCHANGED <<online, old, historyVars>>
  PROVE  IInv'
<1>1. PICK r \in TabRow : r = tab[t]
  BY DEF IInv, TypeOK
<1>2. r.todo \in Todo
  BY DEF TabRow
<1>3. [r EXCEPT !.items = Updated(r.items, k, item), !.sending = NoKey]
        = [r EXCEPT !.items = Updated(r.items, k, item), !.todo = r.todo, !.sending = NoKey]
  BY DEF TabRow
<1>4. LoopChange(t, k, item, tab[t].todo, NoKey)
  BY <1>1, <1>3 DEF Settle, LoopChange
<1>5. k # NoKey
  BY QueueAssumption
<1>6. tab[t].open
  BY <1>5, BusyOpen
<1>7. /\ item.status # "none"
      /\ item.status = "syncing" => NoKey = k
      /\ tab[t].sending \in {NoKey, k} /\ tab[t].todo \in Todo
  BY <1>1, <1>2
<1>8. UNCHANGED <<online, old, queuedIn, fate, shared>>
  BY DEF historyVars
<1>. QED BY <1>4, <1>6, <1>7, <1>8, LoopKeeps

LEMMA AnsweredKeeps ==
  ASSUME IInv, NEW t \in Tab, Answered(t)
  PROVE  IInv'
<1>0. TypeOK
  BY DEF IInv
<1>1. PICK k \in Key : k = tab[t].sending
  BY <1>0 DEF Answered, TypeOK, TabRow
<1>2. UNCHANGED <<online, old, historyVars>>
  BY DEF Answered
<1>3. UNCHANGED made =>
        made' \subseteq Key /\ made \subseteq made'
  BY <1>0 DEF TypeOK
<1>4. UNCHANGED late \/ late' = late \cup {k} => late' \subseteq Key
  BY <1>0 DEF TypeOK
<1>5. CASE Executed(k) /\ Settle(t, Fresh("saved")) /\ UNCHANGED late
  <2>1. Fresh("saved") \in Item /\ Fresh("saved").status = "saved"
    BY FreshItem DEF Status
  <2>2. made' \subseteq Key /\ made \subseteq made' /\ k \in made'
    BY <1>0, <1>5, ExecutedMakes
  <2>. QED BY <1>1, <1>2, <1>4, <1>5, <2>1, <2>2, SettleKeeps
<1>6. ASSUME NEW status \in {"conflict", "refused"},
             Settle(t, Fresh(status)), UNCHANGED <<made, late>>
      PROVE  IInv'
  <2>1. Fresh(status) \in Item /\ Fresh(status).status = status
    BY FreshItem DEF Status
  <2>. QED BY <1>1, <1>2, <1>3, <1>4, <1>6, <2>1, SettleKeeps
<1>7. CASE /\ Settle(t, [status |-> "failed", attempts |-> tab[t].items[k].attempts])
           /\ late' = late \cup {k} /\ UNCHANGED made
  <2>1. PICK item \in Item :
          item = [status |-> "failed", attempts |-> tab[t].items[k].attempts]
          /\ item.status = "failed"
    <3>1. tab[t].items[k] \in Item
      BY <1>0 DEF TypeOK, TabRow, List
    <3>2. tab[t].items[k].attempts \in 0..MaxAttempts /\ "failed" \in Status
      BY <3>1 DEF Item, Status
    <3>. QED BY <3>2, ItemMade
  <2>2. Settle(t, item)
    BY <1>7, <2>1
  <2>. QED BY <1>1, <1>2, <1>3, <1>4, <1>7, <2>1, <2>2, SettleKeeps
<1>. QED BY <1>1, <1>5, <1>6, <1>7 DEF Answered

\* A step of the user or of the timer on one item of the list.
LEMMA ItemKeeps ==
  ASSUME IInv, NEW t \in Tab, NEW k \in Key,
         tab[t].items[k].status # "none", UNCHANGED <<online, old, made, late, shared, queuedIn>>,
         NEW status \in {"none", "pending"},
         Change(t, [tab[t] EXCEPT !.items[k] = Fresh(status)]),
         \/ UNCHANGED fate /\ (status = "none" => k \in made)
         \/ status = "none" /\ fate' = [fate EXCEPT ![k] = "discarded"]
  PROVE  IInv'
<1>0. TypeOK
  BY DEF IInv
<1>1. PICK item \in Item : item = Fresh(status) /\ item.status = status
  BY FreshItem DEF Status
<1>2. Change(t, [tab[t] EXCEPT !.items[k] = item])
  BY <1>1
<1>3. tab[t].open
  BY BusyOpen
<1>4. /\ late' \subseteq Key /\ queuedIn' \in [Key -> Tab \cup {NoTab}]
      /\ fate' \in [Key -> {"new", "queued", "discarded"}]
      /\ \A j \in Key \ {k} : queuedIn'[j] = queuedIn[j] /\ fate'[j] = fate[j]
  BY <1>0 DEF TypeOK
<1>5. \/ fate'[k] = fate[k] /\ (status = "none" => k \in made)
      \/ status = "none" /\ fate'[k] = "discarded"
  BY <1>0 DEF TypeOK
<1>. QED BY <1>1, <1>2, <1>3, <1>4, <1>5, SetKeeps

LEMMA DropSavedKeeps ==
  ASSUME IInv, NEW t \in Tab, DropSaved(t)
  PROVE  IInv'
<1>1. PICK k \in Key : /\ tab[t].items[k].status = "saved"
                       /\ Change(t, [tab[t] EXCEPT !.items[k] = Absent])
  BY DEF DropSaved
<1>2. k \in made
  BY <1>1 DEF IInv, SavedIsStored
<1>3. Change(t, [tab[t] EXCEPT !.items[k] = Fresh("none")])
  BY <1>1 DEF Absent
<1>. QED BY <1>1, <1>2, <1>3, ItemKeeps DEF DropSaved, historyVars

LEMMA RetryKeeps ==
  ASSUME IInv, NEW t \in Tab, NEW k \in Key, Retry(t, k)
  PROVE  IInv'
BY ItemKeeps DEF Retry, historyVars

LEMMA DiscardKeeps ==
  ASSUME IInv, NEW t \in Tab, NEW k \in Key, Discard(t, k)
  PROVE  IInv'
<1>1. Change(t, [tab[t] EXCEPT !.items[k] = Fresh("none")])
  BY DEF Discard, Absent
<1>. QED BY <1>1, ItemKeeps DEF Discard

LEMMA ArriveKeeps ==
  ASSUME IInv, NEW k \in Key, Arrive(k)
  PROVE  IInv'
<1>0. TypeOK
  BY DEF IInv
<1>1. made' \subseteq Key /\ made \subseteq made'
  <2>1. CASE Executed(k)
    BY <1>0, <2>1, ExecutedMakes
  <2>2. CASE UNCHANGED made
    BY <1>0, <2>2 DEF TypeOK
  <2>. QED BY <2>1, <2>2 DEF Arrive
<1>2. late' \subseteq Key /\ online' \in BOOLEAN /\ UNCHANGED <<old, stored, tab, historyVars>>
  BY <1>0 DEF Arrive, TypeOK
<1>. QED BY <1>1, <1>2, ServerKeeps

LEMMA SwitchKeeps ==
  ASSUME IInv, SwitchConnection
  PROVE  IInv'
<1>0. TypeOK
  BY DEF IInv
<1>1. made' \subseteq Key /\ made \subseteq made'
  BY <1>0 DEF SwitchConnection, TypeOK
<1>2. late' \subseteq Key /\ online' \in BOOLEAN /\ UNCHANGED <<old, stored, tab, historyVars>>
  BY <1>0 DEF SwitchConnection, TypeOK
<1>. QED BY <1>1, <1>2, ServerKeeps

LEMMA ClosedRow ==
  /\ Closed \in TabRow /\ ~Closed.open /\ Closed.items = Empty
  /\ Empty \in List /\ \A k \in Key : Empty[k].status = "none"
<1>1. Absent \in Item /\ Absent.status = "none"
  BY FreshItem DEF Absent, Status
<1>2. Empty \in List /\ \A k \in Key : Empty[k].status = "none"
  BY <1>1 DEF Empty, List
<1>3. [k \in {} |-> 0] \in Todo
  <2>1. [k \in {} |-> 0] \in [{} -> 0..(MaxAttempts - 1)]
    OBVIOUS
  <2>. QED BY <2>1 DEF Todo
<1>. HIDE DEF Empty
<1>. QED BY <1>2, <1>3 DEF Closed, TabRow

LEMMA OpenTabKeeps ==
  ASSUME IInv, NEW t \in Tab, OpenTab(t)
  PROVE  IInv'
<1>0. TypeOK
  BY DEF IInv
<1>1. PICK items : items = Loaded(old')
  OBVIOUS
<1>2. PICK adrift \in SUBSET Key : adrift = {k \in Key : items[k].status = "syncing"}
  OBVIOUS
<1>3. /\ items \in List
      /\ \A k \in Key : items[k] = IF stored[k].status = "saved" \/ k \in old' THEN Absent
                                 ELSE stored[k]
  <2>1. Absent \in Item
    BY FreshItem DEF Absent, Status
  <2>. QED BY <2>1, <1>0, <1>1 DEF TypeOK, List, Loaded
<1>4. PICK next : next = [Closed EXCEPT !.open = TRUE, !.items = items, !.adrift = adrift]
  OBVIOUS
<1>5. next \in TabRow /\ next.open /\ next.items = items /\ next.adrift = adrift
  BY <1>3, <1>4, ClosedRow DEF TabRow
<1>6. tab' = [tab EXCEPT ![t] = next]
  BY <1>1, <1>2, <1>4 DEF OpenTab
<1>7. tab' \in [Tab -> TabRow] /\ tab'[t] = next /\ \A u \in Tab \ {t} : tab'[u] = tab[u]
  BY <1>0, <1>5, <1>6 DEF TypeOK
<1>8. UNCHANGED <<online, stored, made, late, queuedIn, fate>>
      /\ shared' = (shared \/ \E u \in Tab : tab[u].open)
  BY DEF OpenTab
<1>9. Absent.status = "none"
  BY DEF Absent, Fresh
<1>10. TypeOK' /\ old \subseteq old'
  <2>1. shared' \in BOOLEAN
    BY <1>8
  <2>2. PICK aged \in SUBSET {k \in Key : stored[k].status \notin {"none", "saved"}} :
          old' = old \cup aged
    BY DEF OpenTab
  <2>3. \A k \in aged : fate[k] # "new"
    BY <2>2 DEF IInv, NewUnlisted
  <2>. QED BY <1>0, <1>7, <1>8, <2>1, <2>2, <2>3 DEF TypeOK
<1>11. ClosedTabs'
  BY <1>5, <1>7 DEF IInv, ClosedTabs, Closed
<1>12. NewUnlisted'
  BY <1>3, <1>5, <1>7, <1>8, <1>9 DEF IInv, NewUnlisted
<1>13. /\ QueuedOpen' /\ KeptWhileOpen'
  <2>1. ASSUME NEW k \in Key, queuedIn[k] # NoTab
        PROVE  queuedIn[k] \in Tab \ {t} /\ tab'[queuedIn[k]] = tab[queuedIn[k]]
    <3>1. tab[queuedIn[k]].open /\ queuedIn[k] \in Tab
      BY <2>1, <1>0 DEF IInv, QueuedOpen, TypeOK
    <3>2. queuedIn[k] # t
      BY <3>1 DEF OpenTab
    <3>. QED BY <3>1, <3>2, <1>7
  <2>. QED BY <2>1, <1>8 DEF IInv, QueuedOpen, KeptWhileOpen, Resolved
<1>14. DiscardedStaysAway'
  <2>. SUFFICES ASSUME ~shared, NEW k \in Key, fate[k] = "discarded"
                PROVE  /\ stored[k].status = "none"
                       /\ \A u \in Tab : tab'[u].items[k].status = "none"
    BY <1>8 DEF DiscardedStaysAway
  <2>. QED BY <1>3, <1>5, <1>7, <1>9 DEF IInv, DiscardedStaysAway
<1>15. SavedIsStored'
  BY <1>3, <1>5, <1>7, <1>8, <1>9 DEF IInv, SavedIsStored
<1>16. SyncingIsSent'
  <2>. SUFFICES ASSUME NEW u \in Tab, NEW k \in Key, tab'[u].items[k].status = "syncing"
                PROVE  k = tab'[u].sending \/ k \in tab'[u].adrift
    BY DEF SyncingIsSent
  <2>1. CASE u = t
    BY <2>1, <1>2, <1>3, <1>5, <1>7, <1>9
  <2>2. CASE u # t
    BY <2>2, <1>7 DEF IInv, SyncingIsSent
  <2>. QED BY <2>1, <2>2
<1>17. SurvivesClosing'
  BY <1>8, <1>10 DEF IInv, SurvivesClosing
<1>18. OpenAlone'
  <2>. SUFFICES ASSUME ~shared', NEW v \in Tab, tab'[v].open
                PROVE  /\ \A u \in Tab : tab'[u].open => u = v
                       /\ \A k \in Key : fate[k] = "queued" =>
                            tab'[v].items[k].status # "none" \/ k \in made \/ k \in old'
    BY <1>8 DEF OpenAlone
  <2>1. ~shared /\ \A u \in Tab : ~tab[u].open
    BY <1>8
  <2>2. \A u \in Tab : tab'[u].open => u = t
    BY <2>1, <1>7
  <2>3. v = t
    BY <2>2
  <2>4. ASSUME NEW k \in Key, fate[k] = "queued"
        PROVE  tab'[v].items[k].status # "none" \/ k \in made \/ k \in old'
    <3>1. stored[k].status # "none" \/ k \in made \/ k \in old
      BY <2>1, <2>4 DEF IInv, SurvivesClosing
    <3>2. stored[k].status = "saved" => k \in made
      BY DEF IInv, SavedIsStored
    <3>. QED BY <3>1, <3>2, <2>3, <1>3, <1>5, <1>7, <1>10
  <2>. QED BY <2>2, <2>3, <2>4
<1>. QED BY <1>10, <1>11, <1>12, <1>13, <1>14, <1>15, <1>16, <1>17, <1>18 DEF IInv

LEMMA CloseTabKeeps ==
  ASSUME IInv, NEW t \in Tab, CloseTab(t)
  PROVE  IInv'
<1>0. TypeOK
  BY DEF IInv
<1>1. tab' \in [Tab -> TabRow] /\ tab'[t] = Closed /\ \A u \in Tab \ {t} : tab'[u] = tab[u]
  <2>1. tab' = [tab EXCEPT ![t] = Closed] /\ Closed \in TabRow
    BY ClosedRow DEF CloseTab
  <2>. QED BY <1>0, <2>1 DEF TypeOK
<1>2. UNCHANGED <<online, old, stored, made, fate, shared>>
  BY DEF CloseTab
<1>3. /\ queuedIn' \in [Key -> Tab \cup {NoTab}]
      /\ \A k \in Key : queuedIn'[k] # NoTab => queuedIn'[k] = queuedIn[k] /\ queuedIn[k] # t
  BY <1>0 DEF CloseTab, TypeOK
<1>4. late' \subseteq Key
  BY <1>0 DEF CloseTab, TypeOK, TabRow
<1>5. ~Closed.open /\ \A k \in Key : Closed.items[k].status = "none"
  BY ClosedRow
<1>6. TypeOK'
  BY <1>0, <1>1, <1>2, <1>3, <1>4 DEF TypeOK
<1>7. ClosedTabs' /\ NewUnlisted' /\ DiscardedStaysAway' /\ SurvivesClosing'
  BY <1>1, <1>2, <1>5 DEF IInv, ClosedTabs, NewUnlisted, DiscardedStaysAway, SurvivesClosing
<1>8. QueuedOpen' /\ KeptWhileOpen'
  <2>1. ASSUME NEW k \in Key, queuedIn'[k] # NoTab
        PROVE  queuedIn'[k] = queuedIn[k] /\ tab'[queuedIn[k]] = tab[queuedIn[k]]
    BY <2>1, <1>0, <1>1, <1>3 DEF TypeOK
  <2>. QED BY <2>1, <1>2 DEF IInv, QueuedOpen, KeptWhileOpen, Resolved
<1>9. SavedIsStored'
  BY <1>1, <1>2, <1>5 DEF IInv, SavedIsStored
<1>10. SyncingIsSent'
  BY <1>1, <1>5 DEF IInv, SyncingIsSent
<1>11. OpenAlone'
  BY <1>1, <1>2, <1>5 DEF IInv, OpenAlone
<1>. QED BY <1>6, <1>7, <1>8, <1>9, <1>10, <1>11 DEF IInv

-----------------------------------------------------------------------------
\* The invariant and what follows from it

LEMMA QueueStarts == QueueInit => IInv
<1>. SUFFICES ASSUME QueueInit PROVE IInv
  OBVIOUS
<1>1. /\ online = TRUE /\ stored = Empty /\ tab = [t \in Tab |-> Closed]
      /\ made = {} /\ old = {} /\ late = {} /\ queuedIn = [k \in Key |-> NoTab]
      /\ fate = [k \in Key |-> "new"] /\ shared = FALSE
  BY DEF QueueInit
<1>2. /\ Closed \in TabRow /\ ~Closed.open /\ Empty \in List
      /\ \A k \in Key : Empty[k].status = "none" /\ Closed.items[k].status = "none"
  BY ClosedRow
<1>3. TypeOK
  BY <1>1, <1>2 DEF TypeOK
<1>4. ClosedTabs /\ NewUnlisted /\ QueuedOpen /\ KeptWhileOpen
  BY <1>1, <1>2 DEF ClosedTabs, NewUnlisted, QueuedOpen, KeptWhileOpen
<1>5. DiscardedStaysAway /\ SavedIsStored /\ SyncingIsSent
  BY <1>1, <1>2 DEF DiscardedStaysAway, SavedIsStored, SyncingIsSent
<1>6. OpenAlone /\ SurvivesClosing
  BY <1>1, <1>2 DEF OpenAlone, SurvivesClosing
<1>. QED BY <1>3, <1>4, <1>5, <1>6 DEF IInv

LEMMA QueueSteps == IInv /\ [QueueNext]_queueVars => IInv'
<1>. SUFFICES ASSUME IInv, [QueueNext]_queueVars PROVE IInv'
  OBVIOUS
<1>1. CASE SwitchConnection
  BY <1>1, SwitchKeeps
<1>2. CASE \E k \in Key : Arrive(k)
  BY <1>2, ArriveKeeps
<1>3. ASSUME NEW t \in Tab, OpenTab(t) \/ CloseTab(t)
      PROVE  IInv'
  BY <1>3, OpenTabKeeps, CloseTabKeeps
<1>4. ASSUME NEW t \in Tab, Flush(t) \/ Send(t) \/ Answered(t) \/ DropSaved(t)
      PROVE  IInv'
  BY <1>4, FlushKeeps, SendKeeps, AnsweredKeeps, DropSavedKeeps
<1>5. ASSUME NEW t \in Tab, NEW k \in Key, SaveEntry(t, k) \/ Retry(t, k) \/ Discard(t, k)
      PROVE  IInv'
  BY <1>5, SaveEntryKeeps, RetryKeeps, DiscardKeeps
<1>6. CASE UNCHANGED queueVars
  BY <1>6 DEF queueVars, IInv, TypeOK, ClosedTabs, NewUnlisted, QueuedOpen, DiscardedStaysAway,
     SavedIsStored, SyncingIsSent, KeptWhileOpen, Resolved, OpenAlone, SurvivesClosing
<1>. QED BY <1>1, <1>2, <1>3, <1>4, <1>5, <1>6 DEF QueueNext

LEMMA QueueInv == QueueSpec => []IInv
BY QueueStarts, QueueSteps, PTL DEF QueueSpec

\* Lists and loops keep their kinds, and no item is given more attempts
\* than MAX_AUTO_ATTEMPTS, whatever the tabs, the user and the network do.
THEOREM TypeCorrect == QueueSpec => []TypeOK
<1>1. IInv => TypeOK
  BY DEF IInv
<1>. QED BY <1>1, QueueInv, PTL

\* With one tab at a time, an item that the user has discarded comes back neither
\* to the list nor to the storage, although the loop still sends it from its
\* snapshot and writes back the answers.
THEOREM DiscardsStay == QueueSpec => []DiscardedStaysAway
<1>1. IInv => DiscardedStaysAway
  BY DEF IInv
<1>. QED BY <1>1, QueueInv, PTL

\* An item shown as saved, which the list will drop, is on the server.
THEOREM SavedOnServer == QueueSpec => []SavedIsStored
<1>1. IInv => SavedIsStored
  BY DEF IInv
<1>. QED BY <1>1, QueueInv, PTL

\* The loop leaves no item of its own marked as being sent.
THEOREM NothingLeftSyncing == QueueSpec => []SyncingIsSent
<1>1. IInv => SyncingIsSent
  BY DEF IInv
<1>. QED BY <1>1, QueueInv, PTL

\* The tab that queued an entry keeps it for as long as it is open, although
\* every other tab writes its own list over the stored one.
THEOREM OpenTabKeepsEntry == QueueSpec => []KeptWhileOpen
<1>1. IInv => KeptWhileOpen
  BY DEF IInv
<1>. QED BY <1>1, QueueInv, PTL

\* With one tab at a time, closing it at any moment loses no queued entry that
\* is not older than seven days when it is loaded again.
THEOREM ClosingKeepsWeek == QueueSpec => []SurvivesClosing
<1>1. IInv => SurvivesClosing
  BY DEF IInv
<1>. QED BY <1>1, QueueInv, PTL
===============================================================================
