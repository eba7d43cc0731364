------------------------------ MODULE OidcCache -------------------------------
(***************************************************************************)
(* core/oidc.py: the cache of the provider's discovery document and of its *)
(* signing keys, which one backend process keeps behind one asyncio.Lock,  *)
(* and the three requests that read it: the start of a login, the callback *)
(* and the logout.                                                         *)
(*                                                                         *)
(* The lock serves its waiters in their order and is not reentrant: it     *)
(* goes by the await that asked for it, so the queue holds awaits, the one *)
(* of jwks() apart from that of the discovery() it calls.  A value is only *)
(* cached or not; the provider may refuse each fetch, and what is cached   *)
(* lapses after its hour.                                                  *)
(***************************************************************************)
EXTENDS Sequences

CONSTANT Caller  \* the requests that read the cache

VARIABLES
  request,    \* request[r]: what it is, where it is, and whether it forces a fetch of the keys
  queue,      \* the await that holds the lock and, behind it, those that wait for it
  discovery,  \* is a fresh discovery document cached?
  keys        \* the fresh key set: "none", or whether a token finds a key in it

oidcVars == <<request, queue, discovery, keys>>

Call == {"login", "callback", "logout"}
KeySet == {"usable", "unusable"}

OidcInit ==
  /\ request = [r \in Caller |-> [call |-> "logout", at |-> "over", force |-> FALSE]]
  /\ queue = <<>> /\ discovery = FALSE /\ keys = "none"

Has(r, method) == queue # <<>> /\ Head(queue) = <<r, method>>
Go(r, at) == request' = [request EXCEPT ![r].at = at]
Ask(r, method) == queue' = Append(queue, <<r, method>>)
Release == queue' = Tail(queue)

\* Every request begins with the discovery document: the start of a login for
\* its endpoint, the callback to trade its code, the logout for the last page.
BeginCall(r) ==
  /\ request[r].at = "over"
  /\ \E c \in Call : request' = [request EXCEPT ![r] = [call |-> c, at |-> "discovery", force |-> FALSE]]
  /\ Ask(r, "discovery") /\ UNCHANGED <<discovery, keys>>

\* Where discovery() returns to: the caller in jwks() fetches the keys, the
\* callback trades its code, the others are done with the cache.
Returned(r) ==
  IF request[r].at \in {"inner discovery", "inner fetch"} THEN "fetch keys"
  ELSE IF request[r].call = "callback" THEN "exchange" ELSE "over"

Discover(r) ==
  /\ request[r].at \in {"discovery", "inner discovery"} /\ Has(r, "discovery")
  /\ \/ discovery /\ Go(r, Returned(r)) /\ Release
     \/ /\ ~discovery /\ UNCHANGED queue
        /\ Go(r, IF request[r].at = "discovery" THEN "fetch" ELSE "inner fetch")
  /\ UNCHANGED <<discovery, keys>>

\* The provider's answer is cached; its refusal is an exception, which ends
\* the request (a logout answers without the last page).
FetchDiscovery(r) ==
  /\ request[r].at \in {"fetch", "inner fetch"} /\ Release
  /\ \/ discovery' = TRUE /\ Go(r, Returned(r))
     \/ UNCHANGED discovery /\ Go(r, "over")
  /\ UNCHANGED keys

\* _exchange_code, and then the call of jwks() in verify_id_token.
ExchangeCode(r) ==
  /\ request[r].at = "exchange"
  /\ \/ Go(r, "keys") /\ Ask(r, "jwks")
     \/ Go(r, "over") /\ UNCHANGED queue
  /\ UNCHANGED <<discovery, keys>>

\* _select_jwk: a set without a usable key is fetched again, once; with any
\* other the callback is over, whether the token is verified or refused.
Select(r, set) ==
  request' = IF set = "unusable" /\ ~request[r].force
               THEN [request EXCEPT ![r].at = "retry", ![r].force = TRUE]
               ELSE [request EXCEPT ![r].at = "over"]

\* jwks(): the cached set, or a call of discovery() with the lock in hand.
Keys(r) ==
  /\ request[r].at = "keys" /\ Has(r, "jwks")
  /\ IF keys # "none" /\ ~request[r].force
       THEN Select(r, keys) /\ Release
       ELSE Go(r, "inner discovery") /\ Ask(r, "discovery")
  /\ UNCHANGED <<discovery, keys>>

FetchKeys(r) ==
  /\ request[r].at = "fetch keys" /\ Release
  /\ \/ \E set \in KeySet : keys' = set /\ Select(r, set)
     \/ UNCHANGED keys /\ Go(r, "over")
  /\ UNCHANGED discovery

Retry(r) ==
  request[r].at = "retry" /\ Go(r, "keys") /\ Ask(r, "jwks") /\ UNCHANGED <<discovery, keys>>

Lapse ==
  /\ \/ discovery /\ discovery' = FALSE /\ UNCHANGED keys
     \/ keys # "none" /\ keys' = "none" /\ UNCHANGED discovery
  /\ UNCHANGED <<request, queue>>

Step(r) ==
  \/ Discover(r) \/ FetchDiscovery(r) \/ ExchangeCode(r)
  \/ Keys(r) \/ FetchKeys(r) \/ Retry(r)

OidcNext == Lapse \/ \E r \in Caller : BeginCall(r) \/ Step(r)

\* The event loop runs every task that can run, and the calls of the provider
\* time out (10 s in the cache, 15 s in _exchange_code).
OidcSpec == OidcInit /\ [][OidcNext]_oidcVars /\ \A r \in Caller : WF_oidcVars(Step(r))

\* Every callback is answered, with a session or with the refusal of its code
\* or token: oidc_callback is to "Complete the OIDC authorization-code + PKCE
\* flow", and the keys come from an "In-process cache".
LoginAnswers ==
  \A r \in Caller : request[r].call = "callback" ~> request[r].at = "over"
===============================================================================
