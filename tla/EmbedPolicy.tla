----------------------------- MODULE EmbedPolicy ------------------------------
(***************************************************************************)
(* core/embed.py, api/v1/admin/sso.py and the middleware security_headers: *)
(* the origins that may embed the application, a row that an administrator *)
(* changes and that a backend process caches for 30 seconds.               *)
(*                                                                         *)
(* The handlers of the row run in the transaction of get_db, which commits *)
(* when they have returned; the cache is filled over a transaction of its  *)
(* own, which reads what is committed.  The environment's origins, added   *)
(* to every answer, are left out.  A read that fails counts as no origins. *)
(***************************************************************************)
CONSTANTS
  Request,
  Origins,   \* the lists an administrator may store
  NoOrigins  \* one of them: the empty list, of a row that get_or_create_sso inserts

VARIABLES
  row,      \* the committed row of sso_config: {} when there is none, or its list, as {list}
  cache,    \* _cache: {} when absent or lapsed, or {list}
  request   \* request[r]: its kind, where it is, and the lists it has written, has read,
            \* has served, and may serve: those that were committed at some time since it began

embedVars == <<row, cache, request>>

Idle == [kind |-> "page", at |-> "over", wrote |-> {}, read |-> {}, served |-> {}, current |-> {}]
EmbedInit == row = {} /\ cache = {} /\ request = [r \in Request |-> Idle]

\* _load_db_origins: no row is an empty list.
Committed == IF row = {} THEN {NoOrigins} ELSE row

\* A page goes to the middleware; GET and PATCH of /admin/sso begin with the row.
BeginEmbed(r) ==
  /\ request[r].at = "over"
  /\ \E kind \in {"page", "get", "patch"} :
       request' = [request EXCEPT ![r] =
         [Idle EXCEPT !.kind = kind, !.current = Committed,
                      !.at = IF kind = "page" THEN "answer" ELSE "handler"]]
  /\ UNCHANGED <<row, cache>>

Unlocked == \A r \in Request : request[r].wrote = {}

\* get_or_create_sso, whose insert or the PATCH's update waits at the flush for
\* a transaction that has written the row, and then update_sso and invalidate_cache.
ReadConfig(r) ==
  /\ request[r].kind = "get" /\ request[r].at = "handler" /\ row = {} => Unlocked
  /\ request' = [request EXCEPT ![r].at = "effective", ![r].wrote = IF row = {} THEN {NoOrigins} ELSE {}]
  /\ UNCHANGED <<row, cache>>

UpdateConfig(r) ==
  /\ request[r].kind = "patch" /\ request[r].at = "handler" /\ Unlocked
  /\ \E list \in Origins :
       request' = [request EXCEPT ![r].at = "effective", ![r].wrote = {list}]
  /\ cache' = {} /\ UNCHANGED row

\* A list that is no origin, or an insert that another first reader has made.
RefuseConfig(r) ==
  /\ request[r].at = "handler"
  /\ request' = [request EXCEPT ![r].at = "answer"]
  /\ UNCHANGED <<row, cache>>

\* get_allowed_frame_ancestors, called by the handlers for their answer and by
\* the middleware for its header: the cached list, or an await of the database
\* and then the assignment of _cache.
Asking(r) == request[r].at \in {"effective", "answer"}
Served(r, list) ==
  request' = [request EXCEPT ![r].at = IF @ = "effective" THEN "commit" ELSE "over",
                             ![r].read = {}, ![r].served = list]

UseCache(r) ==
  /\ Asking(r) /\ request[r].read = {} /\ cache # {}
  /\ Served(r, cache) /\ UNCHANGED <<row, cache>>

LoadOrigins(r) ==
  /\ Asking(r) /\ request[r].read = {} /\ cache = {}
  /\ request' = [request EXCEPT ![r].read = Committed]
  /\ UNCHANGED <<row, cache>>

CacheOrigins(r) ==
  /\ Asking(r) /\ request[r].read # {}
  /\ cache' = request[r].read /\ Served(r, cache') /\ UNCHANGED row

\* get_db commits when the handler has returned; the middleware comes after it.
CommitConfig(r) ==
  /\ request[r].at = "commit"
  /\ row' = IF request[r].wrote = {} THEN row ELSE request[r].wrote
  /\ request' = [q \in Request |->
       [request[q] EXCEPT !.current = @ \cup request[r].wrote,
                          !.at = IF q = r THEN "answer" ELSE @,
                          !.wrote = IF q = r THEN {} ELSE @]]
  /\ UNCHANGED cache

LapseOrigins == cache # {} /\ cache' = {} /\ UNCHANGED <<row, request>>

EmbedNext ==
  \/ LapseOrigins
  \/ \E r \in Request :
       \/ BeginEmbed(r) \/ ReadConfig(r) \/ UpdateConfig(r) \/ RefuseConfig(r)
       \/ UseCache(r) \/ LoadOrigins(r) \/ CacheOrigins(r) \/ CommitConfig(r)

EmbedSpec == EmbedInit /\ [][EmbedNext]_embedVars

\* A request is answered with a list that was in force at some time since it
\* began: update_config says that "the embedding configuration cache is
\* invalidated immediately after the database update so subsequent requests
\* use the new allowed origins".
FreshAfterUpdate ==
  \A r \in Request : request[r].at = "over" => request[r].served \subseteq request[r].current
===============================================================================
